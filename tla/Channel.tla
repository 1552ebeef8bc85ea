------------------------------- MODULE Channel -------------------------------
(***************************************************************************)
(* One channel: class Channel (src/src/Channel.cpp) and the commands TOPIC *)
(* and NAMES on a channel that exists (src/src/channelCommands).           *)
(*                                                                         *)
(* The program does not construct a Channel yet, and the commands that     *)
(* would change one (JOIN, PART, KICK, MODE, INVITE) are stubs or fail, so *)
(* this is the class as its interface lets its callers use it: any public  *)
(* operation at any time, where its precondition holds.                    *)
(*                                                                         *)
(* Nothing in the class adds an invitation or sets the key: _pendingInvites*)
(* is always empty and _key is always "".                                  *)
(***************************************************************************)
EXTENDS Naturals, Sequences, FiniteSets

CONSTANTS
  Clients,  \* the Client objects
  Names,    \* non-empty channel names callers use
  Topics,   \* non-empty topics clients set
  Keys,     \* non-empty keys clients offer when they join
  Limits    \* the limits callers set

ASSUME ChannelAssumption ==
  /\ IsFiniteSet(Clients)
  /\ "" \notin Names \cup Topics \cup Keys
  /\ Limits \subseteq Nat

VARIABLES
  name,       \* _name
  topic,      \* _topic
  operators,  \* _operators
  members,    \* _members
  modes,      \* the modes that are on: i _inviteOnly, t _protectedTopic,
              \* k _hasKey, l _hasUserLimit
  userLimit,  \* _userLimit
  told        \* what the last operation appended to each write buffer

vars == <<name, topic, operators, members, modes, userLimit, told>>

Modes == {"i", "t", "k", "l"}
\* TEXT stands for any line a caller makes up for publicMessage.
Codes == {"331", "332", "353", "366", "403", "442", "461", "482", "TOPIC", "TEXT"}
Message == [code : Codes, topic : Topics \cup {""}]

Joined == operators \cup members

quiet == told' = [c \in Clients |-> <<>>]

reply(c, codes) ==
  told' = [d \in Clients |->
    IF d # c THEN <<>>
    ELSE [k \in DOMAIN codes |->
            [code |-> codes[k], topic |-> IF codes[k] = "332" THEN topic ELSE ""]]]

\* To the operators, then to the members; a client that is both is told twice.
tellAll(msg) ==
  told' = [c \in Clients |->
    (IF c \in operators THEN <<msg>> ELSE <<>>)
      \o (IF c \in members THEN <<msg>> ELSE <<>>)]

-----------------------------------------------------------------------------
(***************************************************************************)
(* Who is on the channel.                                                  *)
(***************************************************************************)

size == Cardinality(members) + Cardinality(operators)

\* Mutant: the limit is tested for the client that is already in.
isFullBehind(n) == "l" \in modes /\ n = userLimit + 1

\* isFull with n clients on the channel.
isFull(n) == "l" \in modes /\ n = userLimit

\* Whether addMember without a key lets a client in when n are there.
admits(n) == "k" \notin modes /\ ~isFull(n) /\ "i" \notin modes

\* addMember with a key, which is compared whether or not +k is set.
admitsWithKey(n, key) == key = "" /\ ~isFull(n) /\ "i" \notin modes

Init ==
  /\ name \in Names
  /\ topic = ""
  /\ \E creator \in Clients : operators = {creator}
  /\ members = {}
  /\ modes = {}
  /\ userLimit = 0
  /\ told = [c \in Clients |-> <<>>]

addMember(c) ==
  /\ members' = IF admits(size) THEN members \cup {c} ELSE members
  /\ quiet
  /\ UNCHANGED <<name, topic, operators, modes, userLimit>>

addMemberWithKey(c, key) ==
  /\ members' = IF admitsWithKey(size, key) THEN members \cup {c} ELSE members
  /\ quiet
  /\ UNCHANGED <<name, topic, operators, modes, userLimit>>

addOperator(c) ==
  /\ operators' = IF isFull(size) THEN operators ELSE operators \cup {c}
  /\ quiet
  /\ UNCHANGED <<name, topic, members, modes, userLimit>>

\* removeMember and removeOperator are undefined for a client that is not in
\* the set: callers must know that it is.
removeMember(c) ==
  /\ c \in members
  /\ members' = members \ {c}
  /\ quiet
  /\ UNCHANGED <<name, topic, operators, modes, userLimit>>

removeOperator(c) ==
  /\ c \in operators
  /\ operators' = operators \ {c}
  /\ quiet
  /\ UNCHANGED <<name, topic, members, modes, userLimit>>

\* Mutant: the operator is added before the member is removed.
memberToOperatorAddFirst(c) ==
  /\ c \in members
  /\ members' = members \ {c}
  /\ operators' = IF isFull(size) THEN operators ELSE operators \cup {c}
  /\ quiet
  /\ UNCHANGED <<name, topic, modes, userLimit>>

\* removeMember, then addOperator, which finds one client fewer and refuses
\* only when the channel is full.
memberToOperator(c) ==
  /\ c \in members
  /\ members' = members \ {c}
  /\ operators' = IF isFull(size - 1) THEN operators ELSE operators \cup {c}
  /\ quiet
  /\ UNCHANGED <<name, topic, modes, userLimit>>

\* removeOperator, then addMember, which may refuse.
operatorToMember(c) ==
  /\ c \in operators
  /\ operators' = operators \ {c}
  /\ members' = IF admits(size - 1) THEN members \cup {c} ELSE members
  /\ quiet
  /\ UNCHANGED <<name, topic, modes, userLimit>>

-----------------------------------------------------------------------------
(***************************************************************************)
(* Modes, limit and name.                                                  *)
(***************************************************************************)

\* Another letter than those of Modes changes nothing.
changeMode(mode, value) ==
  /\ modes' = IF value THEN modes \cup {mode} ELSE modes \ {mode}
  /\ quiet
  /\ UNCHANGED <<name, topic, operators, members, userLimit>>

setUserLimit(limit) ==
  /\ userLimit' = IF "l" \in modes /\ size <= limit THEN limit ELSE userLimit
  /\ quiet
  /\ UNCHANGED <<name, topic, operators, members, modes>>

\* Mutant: the empty name is accepted.
setNameAny(n) ==
  /\ name' = n
  /\ quiet
  /\ UNCHANGED <<topic, operators, members, modes, userLimit>>

setName(n) ==
  /\ name' = IF n = "" THEN name ELSE n
  /\ quiet
  /\ UNCHANGED <<topic, operators, members, modes, userLimit>>

-----------------------------------------------------------------------------
(***************************************************************************)
(* The topic and messages to all, and the commands TOPIC and NAMES.        *)
(***************************************************************************)

\* What setTopic leaves as topic when c sets new: under +t it refuses silently.
topicSetBy(c, new) ==
  IF "t" \in modes /\ c \notin operators THEN topic ELSE new

setTopic(c, new) ==
  /\ topic' = topicSetBy(c, new)
  /\ quiet
  /\ UNCHANGED <<name, operators, members, modes, userLimit>>

\* The empty message is told to nobody.
publicMessage(text) ==
  /\ IF text = <<>> THEN quiet ELSE tellAll(text[1])
  /\ UNCHANGED <<name, topic, operators, members, modes, userLimit>>

\* Mutant: TOPIC leaves the test of +t to setTopic.
mayChangeTopicAsMember(c) == c \in Joined

mayChangeTopic(c) == "t" \in modes => c \in operators

topicQuery(c) == reply(c, IF topic = "" THEN <<"331">> ELSE <<"332">>)

\* TOPIC name new.
topicChange(c, new) ==
  \/ /\ ~mayChangeTopic(c)
     /\ reply(c, <<"482">>)
     /\ UNCHANGED topic
  \/ /\ mayChangeTopic(c)
     /\ topic' = topicSetBy(c, new)
     /\ tellAll([code |-> "TOPIC", topic |-> new])

Topic(c, params) ==
  /\ \/ /\ params = <<>>
        /\ reply(c, <<"461">>)
        /\ UNCHANGED topic
     \/ /\ params # <<>>
        /\ params[1] # name
        /\ reply(c, <<"403">>)
        /\ UNCHANGED topic
     \/ /\ params # <<>>
        /\ params[1] = name
        /\ c \notin Joined
        /\ reply(c, <<"442">>)
        /\ UNCHANGED topic
     \/ /\ Len(params) = 1
        /\ params[1] = name
        /\ c \in Joined
        /\ topicQuery(c)
        /\ UNCHANGED topic
     \/ /\ Len(params) > 1
        /\ params[1] = name
        /\ c \in Joined
        /\ topicChange(c, params[2])
  /\ UNCHANGED <<name, operators, members, modes, userLimit>>

\* The list itself is left out of the reply.  The parser does not let NAMES
\* through to the dispatcher today.
NamesCommand(c, params) ==
  /\ reply(c, IF params = <<>> THEN <<"461">>
              ELSE IF params[1] # name THEN <<"366">>
              ELSE <<"353", "366">>)
  /\ UNCHANGED <<name, topic, operators, members, modes, userLimit>>

TopicParams ==
  {<<>>} \cup {<<n>> : n \in Names} \cup (Names \X (Topics \cup {""}))

\* What callers may hand to publicMessage: nothing, the announcement of some
\* topic, or another line.
Texts ==
  {<<>>, <<[code |-> "TEXT", topic |-> ""]>>}
    \cup {<<[code |-> "TOPIC", topic |-> t]>> : t \in Topics \cup {""}}

\* Every public operation that is not a query, by any caller at any time.
Next ==
  \/ \E c \in Clients :
       \/ addMember(c)
       \/ addOperator(c)
       \/ \E key \in Keys \cup {""} : addMemberWithKey(c, key)
       \/ removeMember(c)
       \/ removeOperator(c)
       \/ memberToOperator(c)
       \/ operatorToMember(c)
       \/ \E new \in Topics \cup {""} : setTopic(c, new)
       \/ \E params \in TopicParams : Topic(c, params)
       \/ \E params \in {<<>>} \cup {<<n>> : n \in Names} : NamesCommand(c, params)
  \/ \E mode \in Modes, value \in BOOLEAN : changeMode(mode, value)
  \/ \E limit \in Limits : setUserLimit(limit)
  \/ \E n \in Names \cup {""} : setName(n)
  \/ \E text \in Texts : publicMessage(text)

Spec == Init /\ [][Next]_vars

-----------------------------------------------------------------------------
(***************************************************************************)
(* Properties.                                                             *)
(***************************************************************************)

\* Every variable has its type; no operation brings in a nameless channel.
TypeOK ==
  /\ name \in Names
  /\ topic \in Topics \cup {""}
  /\ operators \subseteq Clients
  /\ members \subseteq Clients
  /\ modes \subseteq Modes
  /\ userLimit \in Limits \cup {0}
  /\ told \in [Clients -> Seq(Message)]

\* More clients are on the channel than the limit that is set.
Overfull == "l" \in modes /\ size > userLimit

\* Only +l itself, switched on with more clients there than the old limit, makes
\* a channel overfull.  isFull tests for equality, so no other operation may
\* step over the limit or pull it below those who are there: not a join with or
\* without a key, a new operator, a role change or a new limit.
LimitKept ==
  [][Overfull' /\ ~Overfull => "l" \in modes' \ modes]_vars

\* A role change takes two steps, out of one set and into the other, and the
\* second may refuse.  It does not lose a client that is promoted, nor one
\* that is demoted while anybody may join, unless the channel is overfull.
RoleChangeKeepsClient ==
  [][~Overfull =>
       \A c \in Clients :
         /\ memberToOperator(c) => c \in Joined'
         /\ operatorToMember(c) /\ modes \cap {"i", "k"} = {} => c \in Joined']_vars

\* TOPIC with a new topic does all or nothing.  Either the topic stays and none is
\* announced, or everybody on the channel and nobody else is told a topic, and
\* it is the one that is set: the test of +t in TOPIC and the one in setTopic,
\* which refuses silently, agree.  (A caller that uses setTopic itself tells
\* nobody.)
TopicAnnounced ==
  [][\A c \in Clients, new \in Topics \cup {""} : Topic(c, <<name, new>>) =>
       \/ /\ topic' = topic
          /\ \A d \in Clients : \A k \in DOMAIN told'[d] : told'[d][k].code # "TOPIC"
       \/ \A d \in Clients :
            /\ told'[d] # <<>> <=> d \in Joined
            /\ \A k \in DOMAIN told'[d] :
                 told'[d][k] = [code |-> "TOPIC", topic |-> topic']]_vars

-----------------------------------------------------------------------------
\* What a comment says and the code does not do: a client that has already
\* joined is refused.  addMember asks only whether it is a member, so an
\* operator joins a second time, counts twice against the limit and is told
\* everything twice.
JoinedOnce == operators \cap members = {}
=============================================================================
