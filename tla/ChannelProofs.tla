---------------------------- MODULE ChannelProofs ----------------------------
(***************************************************************************)
(* Proofs about Channel, for any set of clients, names, topics, keys and   *)
(* limits.  The limit is a matter of counting: every operation changes     *)
(* each of the two sets of clients by at most one client.                  *)
(***************************************************************************)
EXTENDS Channel, TLAPS, SequenceTheorems, FiniteSetTheorems

-----------------------------------------------------------------------------
(***************************************************************************)
(* What is said.                                                           *)
(***************************************************************************)

\* A reply to one client is a list of messages for that client only, none of
\* which announces a topic.
LEMMA ReplyTold ==
  ASSUME TypeOK, NEW c \in Clients, NEW codes \in Seq(Codes \ {"TOPIC"}),
         reply(c, codes)
  PROVE  /\ told' \in [Clients -> Seq(Message)]
         /\ \A d \in Clients : \A k \in DOMAIN told'[d] : told'[d][k].code # "TOPIC"
<1> DEFINE msgs == [k \in DOMAIN codes |->
             [code |-> codes[k], topic |-> IF codes[k] = "332" THEN topic ELSE ""]]
<1>1. Len(codes) \in Nat /\ DOMAIN codes = 1..Len(codes)
      /\ \A k \in 1..Len(codes) : codes[k] \in Codes \ {"TOPIC"}
  BY LenProperties, ElementOfSeq
<1>2. msgs \in [1..Len(codes) -> Message]
  BY <1>1 DEF Message, TypeOK
<1>3. \A k \in DOMAIN msgs : msgs[k].code # "TOPIC"
  BY <1>1
<1>4. told' = [d \in Clients |-> IF d # c THEN <<>> ELSE msgs]
  BY DEF reply
<1> HIDE DEF msgs
<1>5. msgs \in Seq(Message)
  BY <1>1, <1>2, SeqDef
<1>6. <<>> \in Seq(Message) /\ DOMAIN <<>> = {}
  OBVIOUS
<1> QED
  BY <1>3, <1>4, <1>5, <1>6

\* An operation that answers nothing tells nobody anything.
LEMMA QuietTold ==
  ASSUME quiet
  PROVE  /\ told' \in [Clients -> Seq(Message)]
         /\ \A d \in Clients : DOMAIN told'[d] = {}
<1>1. <<>> \in Seq(Message) /\ DOMAIN <<>> = {}
  OBVIOUS
<1> QED
  BY <1>1 DEF quiet

\* What is told to all reaches everybody on the channel and nobody else.
LEMMA AllTold ==
  ASSUME NEW msg \in Message, tellAll(msg)
  PROVE  /\ told' \in [Clients -> Seq(Message)]
         /\ \A d \in Clients : \A k \in DOMAIN told'[d] : d \in Joined /\ told'[d][k] = msg
         /\ \A d \in Clients : d \in Joined => told'[d] # <<>>
<1> DEFINE one(S, d) == IF d \in S THEN <<msg>> ELSE <<>>
<1>1. \A d \in Clients : told'[d] = one(operators, d) \o one(members, d)
      /\ told' = [e \in Clients |-> one(operators, e) \o one(members, e)]
  BY DEF tellAll
<1>2. \A S, d : one(S, d) \in Seq(Message)
  OBVIOUS
<1>3. told' \in [Clients -> Seq(Message)]
  <2> HIDE DEF one
  <2>1. \A e \in Clients : one(operators, e) \o one(members, e) \in Seq(Message)
    BY <1>2, ConcatProperties
  <2> QED
    BY <1>1, <2>1 DEF tellAll, one
<1>4. ASSUME NEW d \in Clients
      PROVE  /\ \A k \in DOMAIN told'[d] : d \in Joined /\ told'[d][k] = msg
             /\ d \in Joined => told'[d] # <<>>
  <2>1. CASE d \in operators /\ d \in members
    <3>1. told'[d] = <<msg, msg>>
      BY <1>1, <2>1
    <3> QED
      BY <2>1, <3>1 DEF Joined
  <2>2. CASE d \in operators /\ d \notin members
    <3>1. told'[d] = <<msg>>
      BY <1>1, <2>2
    <3> QED
      BY <2>2, <3>1 DEF Joined
  <2>3. CASE d \notin operators /\ d \in members
    <3>1. told'[d] = <<msg>>
      BY <1>1, <2>3
    <3> QED
      BY <2>3, <3>1 DEF Joined
  <2>4. CASE d \notin operators /\ d \notin members
    <3>1. told'[d] = <<>>
      BY <1>1, <2>4
    <3> QED
      BY <2>4, <3>1 DEF Joined
  <2> QED
    BY <2>1, <2>2, <2>3, <2>4
<1> QED
  BY <1>3, <1>4

\* The replies of TOPIC and NAMES are lists of codes.
LEMMA ReplyCodes ==
  /\ \A code \in Codes \ {"TOPIC"} : <<code>> \in Seq(Codes \ {"TOPIC"})
  /\ {"331", "332", "353", "366", "403", "442", "461", "482"} \subseteq Codes \ {"TOPIC"}
  /\ <<"353", "366">> \in Seq(Codes \ {"TOPIC"})
  BY DEF Codes

\* TOPIC either answers the client that sent it and leaves the topic alone, or
\* sets the topic to its second parameter and announces it.
LEMMA TopicEffect ==
  ASSUME NEW c \in Clients, NEW params, Topic(c, params)
  PROVE  \/ /\ UNCHANGED topic
            /\ \E codes \in Seq(Codes \ {"TOPIC"}) : reply(c, codes)
         \/ /\ Len(params) > 1
            /\ topic' = params[2]
            /\ tellAll([code |-> "TOPIC", topic |-> topic'])
<1>1. ASSUME NEW code \in {"331", "332", "403", "442", "461", "482"}, reply(c, <<code>>)
      PROVE  \E codes \in Seq(Codes \ {"TOPIC"}) : reply(c, codes)
  BY <1>1, ReplyCodes
<1>2. CASE topicQuery(c) /\ UNCHANGED topic
  BY <1>1, <1>2 DEF topicQuery
<1>3. CASE Len(params) > 1 /\ topicChange(c, params[2])
  <2>1. CASE ~mayChangeTopic(c)
    BY <1>1, <1>3, <2>1 DEF topicChange
  <2>2. CASE mayChangeTopic(c)
    BY <1>3, <2>2 DEF topicChange, topicSetBy, mayChangeTopic
  <2> QED
    BY <2>1, <2>2
<1> QED
  BY <1>1, <1>2, <1>3 DEF Topic

\* The parameters TOPIC is used with: a second one is a topic.
LEMMA SecondIsTopic ==
  ASSUME NEW params \in TopicParams, Len(params) > 1
  PROVE  params[2] \in Topics \cup {""}
<1>1. params # <<>>
  <2>1. Len(<<>>) = 0
    OBVIOUS
  <2> QED
    BY <2>1
<1>2. ASSUME NEW n \in Names, params = <<n>> PROVE FALSE
  <2>1. Len(<<n>>) = 1
    OBVIOUS
  <2>2. Len(params) = 1
    BY <1>2, <2>1
  <2> QED
    BY <2>2
<1>3. CASE params \in Names \X (Topics \cup {""})
  BY <1>3
<1> QED
  BY <1>1, <1>2, <1>3 DEF TopicParams

\* NAMES only answers the client that asked.
LEMMA NamesEffect ==
  ASSUME NEW c \in Clients, NEW params, NamesCommand(c, params)
  PROVE  \E codes \in Seq(Codes \ {"TOPIC"}) : reply(c, codes)
  BY ReplyCodes DEF NamesCommand

\* Whatever an operation says is a list of messages for each client, and the
\* topic it leaves is a topic.
LEMMA StepTold ==
  ASSUME TypeOK, Next
  PROVE  told' \in [Clients -> Seq(Message)] /\ topic' \in Topics \cup {""}
<1> DEFINE Goal == told' \in [Clients -> Seq(Message)] /\ topic' \in Topics \cup {""}
<1>1. CASE quiet /\ topic' \in Topics \cup {""}
  BY <1>1, QuietTold
<1>2. ASSUME UNCHANGED topic, NEW c \in Clients,
             NEW codes \in Seq(Codes \ {"TOPIC"}), reply(c, codes)
      PROVE  Goal
  BY <1>2, ReplyTold DEF TypeOK
<1>3. ASSUME NEW msg \in Message, tellAll(msg), topic' \in Topics \cup {""} PROVE Goal
  BY <1>3, AllTold
<1>4. ASSUME NEW c \in Clients, NEW params \in TopicParams, Topic(c, params) PROVE Goal
  <2>1. CASE UNCHANGED topic /\ \E codes \in Seq(Codes \ {"TOPIC"}) : reply(c, codes)
    BY <1>2, <2>1
  <2>2. CASE /\ Len(params) > 1
             /\ topic' = params[2]
             /\ tellAll([code |-> "TOPIC", topic |-> topic'])
    <3>1. topic' \in Topics \cup {""}
      BY <2>2, SecondIsTopic
    <3>2. [code |-> "TOPIC", topic |-> topic'] \in Message
      BY <3>1 DEF Message, Codes
    <3> QED
      BY <1>3, <2>2, <3>1, <3>2
  <2> QED
    BY <1>4, <2>1, <2>2, TopicEffect
<1>5. ASSUME NEW c \in Clients, NEW params, NamesCommand(c, params) PROVE Goal
  BY <1>2, <1>5, NamesEffect DEF NamesCommand
<1>6. ASSUME NEW text \in Texts, publicMessage(text) PROVE Goal
  <2>1. topic' \in Topics \cup {""}
    BY <1>6 DEF publicMessage, TypeOK
  <2>2. CASE text = <<>>
    BY <1>1, <1>6, <2>1, <2>2 DEF publicMessage
  <2>3. CASE text # <<>>
    <3>1. CASE text = <<[code |-> "TEXT", topic |-> ""]>>
      <4>1. [code |-> "TEXT", topic |-> ""] \in Message
        BY DEF Message, Codes
      <4>2. text[1] \in Message
        BY <3>1, <4>1
      <4> QED
        BY <1>3, <1>6, <2>1, <2>3, <4>2 DEF publicMessage
    <3>2. ASSUME NEW t \in Topics \cup {""}, text = <<[code |-> "TOPIC", topic |-> t]>>
          PROVE  Goal
      <4>1. [code |-> "TOPIC", topic |-> t] \in Message
        BY DEF Message, Codes
      <4>2. text[1] \in Message
        BY <3>2, <4>1
      <4> QED
        BY <1>3, <1>6, <2>1, <2>3, <4>2 DEF publicMessage
    <3> QED
      BY <1>6, <2>3, <3>1, <3>2 DEF Texts
  <2> QED
    BY <2>2, <2>3
<1>7. ASSUME NEW c \in Clients, NEW new \in Topics \cup {""}, setTopic(c, new) PROVE Goal
  BY <1>1, <1>7 DEF setTopic, topicSetBy, TypeOK
<1>8. topic \in Topics \cup {""}
  BY DEF TypeOK
<1>9. CASE quiet /\ UNCHANGED topic
  BY <1>1, <1>8, <1>9
<1>10. ASSUME NEW c \in Clients,
              \/ addMember(c) \/ addOperator(c)
              \/ \E key \in Keys \cup {""} : addMemberWithKey(c, key)
              \/ removeMember(c) \/ removeOperator(c)
              \/ memberToOperator(c) \/ operatorToMember(c)
       PROVE  Goal
  <2>1. quiet /\ UNCHANGED topic
    BY <1>10 DEF addMember, addOperator, addMemberWithKey, removeMember,
                 removeOperator, memberToOperator, operatorToMember
  <2> QED
    BY <1>9, <2>1
<1>11. ASSUME \/ \E mode \in Modes, value \in BOOLEAN : changeMode(mode, value)
              \/ \E limit \in Limits : setUserLimit(limit)
              \/ \E n \in Names \cup {""} : setName(n)
       PROVE  Goal
  <2>1. quiet /\ UNCHANGED topic
    BY <1>11 DEF changeMode, setUserLimit, setName
  <2> QED
    BY <1>9, <2>1
<1> HIDE DEF Goal
<1>12. Goal
  BY <1>4, <1>5, <1>6, <1>7, <1>10, <1>11 DEF Next
<1> QED
  BY <1>12 DEF Goal

-----------------------------------------------------------------------------
(***************************************************************************)
(* Who is on the channel.                                                  *)
(***************************************************************************)

\* Every step keeps the two sets, the modes, the limit and the name in their
\* types.
LEMMA StepSets ==
  ASSUME TypeOK, Next
  PROVE  /\ name' \in Names
         /\ operators' \subseteq Clients
         /\ members' \subseteq Clients
         /\ modes' \subseteq Modes
         /\ userLimit' \in Limits \cup {0}
  BY DEF TypeOK, Next, Modes, addMember, addMemberWithKey, addOperator,
         removeMember, removeOperator, memberToOperator, operatorToMember,
         setTopic, Topic, NamesCommand, changeMode, setUserLimit, setName,
         publicMessage

\* Every step preserves the types.
LEMMA NextType == TypeOK /\ [Next]_vars => TypeOK'
<1> SUFFICES ASSUME TypeOK, [Next]_vars PROVE TypeOK'
  OBVIOUS
<1>1. CASE Next
  BY <1>1, StepTold, StepSets DEF TypeOK
<1>2. CASE UNCHANGED vars
  BY <1>2 DEF vars, TypeOK
<1> QED
  BY <1>1, <1>2

\* Every variable keeps its type; the channel never loses its name.
THEOREM ChannelTypeCorrect == Spec => []TypeOK
<1>1. ASSUME Init PROVE TypeOK
  <2>1. told \in [Clients -> Seq(Message)]
    <3>1. <<>> \in Seq(Message)
      OBVIOUS
    <3> QED
      BY <1>1, <3>1 DEF Init
  <2>2. /\ name \in Names /\ topic \in Topics \cup {""}
        /\ operators \subseteq Clients /\ members \subseteq Clients
        /\ modes \subseteq Modes
    BY <1>1 DEF Init
  <2>3. userLimit \in Limits \cup {0}
    BY <1>1 DEF Init
  <2> QED
    BY <2>1, <2>2, <2>3 DEF TypeOK
<1> QED
  BY <1>1, NextType, PTL DEF Spec

\* A client more is at most one more, a client fewer is one fewer.
LEMMA OneMore ==
  ASSUME NEW S \in SUBSET Clients, NEW c, NEW T, T = S \cup {c}
  PROVE  Cardinality(T) \in Nat /\ Cardinality(T) <= Cardinality(S) + 1
<1>1. IsFiniteSet(S)
  BY ChannelAssumption, FS_Subset
<1>2. /\ IsFiniteSet(T)
      /\ Cardinality(T) = IF c \in S THEN Cardinality(S) ELSE Cardinality(S) + 1
  BY <1>1, FS_AddElement
<1>3. Cardinality(T) \in Nat /\ Cardinality(S) \in Nat
  BY <1>1, <1>2, FS_CardinalityType
<1> QED
  BY <1>2, <1>3

\* Removing a client lowers the number by at most one.
LEMMA OneFewer ==
  ASSUME NEW S \in SUBSET Clients, NEW c \in S, NEW T, T = S \ {c}
  PROVE  Cardinality(T) \in Nat /\ Cardinality(T) = Cardinality(S) - 1
<1>1. IsFiniteSet(S)
  BY ChannelAssumption, FS_Subset
<1>2. IsFiniteSet(T) /\ Cardinality(T) = Cardinality(S) - 1
  BY <1>1, FS_RemoveElement
<1>3. Cardinality(T) \in Nat
  BY <1>2, FS_CardinalityType
<1> QED
  BY <1>2, <1>3

\* The two sets are finite, and their sizes are numbers.
LEMMA Numbers ==
  ASSUME TypeOK
  PROVE  /\ userLimit \in Nat /\ Limits \subseteq Nat
         /\ Cardinality(members) \in Nat /\ Cardinality(operators) \in Nat
         /\ size \in Nat
<1>1. Limits \subseteq Nat
  BY ChannelAssumption
<1>2. userLimit \in Limits \cup {0}
  BY DEF TypeOK
<1>3. IsFiniteSet(members) /\ IsFiniteSet(operators)
  BY ChannelAssumption, FS_Subset DEF TypeOK
<1>4. Cardinality(members) \in Nat /\ Cardinality(operators) \in Nat
  BY <1>3, FS_CardinalityType
<1>5. size \in Nat
  BY <1>4 DEF size
<1> QED
  BY <1>1, <1>2, <1>4, <1>5

\* The channel is within the limit that is set.
WithinLimit == "l" \in modes /\ size <= userLimit

\* No step takes a channel within its limit beyond it while +l stays set.
LEMMA LimitStep ==
  ASSUME TypeOK, [Next]_vars, WithinLimit, "l" \in modes'
  PROVE  WithinLimit'
<1>1. /\ userLimit \in Nat /\ size \in Nat
      /\ size <= userLimit /\ "l" \in modes
  BY Numbers DEF WithinLimit
<1>2. members \in SUBSET Clients /\ operators \in SUBSET Clients
  BY DEF TypeOK
<1>3. ASSUME size' \in Int, size' <= size, UNCHANGED userLimit PROVE WithinLimit'
  BY <1>1, <1>3 DEF WithinLimit
<1>4. CASE UNCHANGED <<operators, members, userLimit>>
  BY <1>1, <1>3, <1>4 DEF size
\* One client joins unless the channel is full.
<1>5. ASSUME NEW c \in Clients, ~isFull(size), UNCHANGED userLimit,
             \/ members' = members \cup {c} /\ UNCHANGED operators
             \/ operators' = operators \cup {c} /\ UNCHANGED members
      PROVE  WithinLimit'
  <2>1. size < userLimit
    BY <1>1, <1>5 DEF isFull
  <2>2. CASE members' = members \cup {c} /\ UNCHANGED operators
    <3>1. Cardinality(members') \in Nat /\ Cardinality(members') <= Cardinality(members) + 1
      BY <1>2, <2>2, OneMore
    <3> QED
      BY <1>1, <1>5, <2>1, <2>2, <3>1, Numbers DEF size, WithinLimit
  <2>3. CASE operators' = operators \cup {c} /\ UNCHANGED members
    <3>1. Cardinality(operators') \in Nat
          /\ Cardinality(operators') <= Cardinality(operators) + 1
      BY <1>2, <2>3, OneMore
    <3> QED
      BY <1>1, <1>5, <2>1, <2>3, <3>1, Numbers DEF size, WithinLimit
  <2> QED
    BY <1>5, <2>2, <2>3
\* One client leaves one of the sets, and may enter the other.
<1>6. ASSUME NEW c \in Clients, NEW S \in SUBSET Clients, NEW T \in SUBSET Clients,
             NEW U, NEW V, c \in S, U = S \ {c}, V = T \/ V = T \cup {c}
      PROVE  /\ Cardinality(U) + Cardinality(V) \in Int
             /\ Cardinality(U) + Cardinality(V) <= Cardinality(S) + Cardinality(T)
  <2>1. Cardinality(U) \in Nat /\ Cardinality(U) = Cardinality(S) - 1
    BY <1>6, OneFewer
  <2>2. IsFiniteSet(S) /\ IsFiniteSet(T)
    BY ChannelAssumption, FS_Subset
  <2>3. Cardinality(S) \in Nat /\ Cardinality(T) \in Nat
    BY <2>2, FS_CardinalityType
  <2>4. Cardinality(V) \in Nat /\ Cardinality(V) <= Cardinality(T) + 1
    <3>1. CASE V = T
      BY <3>1, <2>3
    <3>2. CASE V = T \cup {c}
      BY <3>2, OneMore
    <3> QED
      BY <1>6, <3>1, <3>2
  <2> QED
    BY <2>1, <2>3, <2>4
<1>7. ASSUME NEW c \in Clients, addMember(c) \/ addOperator(c) PROVE WithinLimit'
  BY <1>4, <1>5, <1>7 DEF addMember, addOperator, admits
<1>8. ASSUME NEW c \in Clients, NEW key, addMemberWithKey(c, key) PROVE WithinLimit'
  BY <1>4, <1>5, <1>8 DEF addMemberWithKey, admitsWithKey
<1>9. ASSUME NEW c \in Clients, removeMember(c) \/ memberToOperator(c) PROVE WithinLimit'
  <2>1. /\ c \in members /\ members' = members \ {c}
        /\ operators' = operators \/ operators' = operators \cup {c}
        /\ UNCHANGED userLimit
    BY <1>9 DEF removeMember, memberToOperator
  <2>2. size' \in Int /\ size' <= size
    BY <2>1, <1>2, <1>6 DEF size
  <2> QED
    BY <2>1, <2>2, <1>3
<1>10. ASSUME NEW c \in Clients, removeOperator(c) \/ operatorToMember(c) PROVE WithinLimit'
  <2>1. /\ c \in operators /\ operators' = operators \ {c}
        /\ members' = members \/ members' = members \cup {c}
        /\ UNCHANGED userLimit
    BY <1>10 DEF removeOperator, operatorToMember
  <2>2. /\ Cardinality(operators') + Cardinality(members') \in Int
        /\ Cardinality(operators') + Cardinality(members')
             <= Cardinality(operators) + Cardinality(members)
    BY <2>1, <1>2, <1>6
  <2>3. Cardinality(operators') \in Nat /\ Cardinality(members') \in Nat
    <3>1. members' \in SUBSET Clients /\ operators' \in SUBSET Clients
      BY <2>1, <1>2
    <3>2. IsFiniteSet(members') /\ IsFiniteSet(operators')
      BY <3>1, ChannelAssumption, FS_Subset
    <3> QED
      BY <3>2, FS_CardinalityType
  <2>4. size' \in Int /\ size' <= size
    BY <2>2, <2>3, Numbers DEF size
  <2> QED
    BY <2>1, <2>4, <1>3
<1>11. ASSUME NEW limit \in Limits, setUserLimit(limit) PROVE WithinLimit'
  <2>1. size' = size
    BY <1>11 DEF setUserLimit, size
  <2>2. size <= userLimit'
    BY <1>1, <1>11 DEF setUserLimit
  <2> QED
    BY <2>1, <2>2 DEF WithinLimit
<1> QED
  BY <1>4, <1>7, <1>8, <1>9, <1>10, <1>11
  DEF Next, setTopic, Topic, NamesCommand, changeMode, setName, publicMessage, vars

\* Only switching +l on makes a channel overfull, for any limits and clients.
THEOREM LimitIsKept == Spec => LimitKept
<1>1. ASSUME TypeOK, TypeOK', [Next]_vars, Overfull', ~Overfull
      PROVE  "l" \in modes' \ modes
  <2>1. SUFFICES ASSUME "l" \in modes PROVE FALSE
    BY <1>1 DEF Overfull
  <2>2. WithinLimit
    BY <1>1, <2>1, Numbers DEF Overfull, WithinLimit
  <2>3. size' <= userLimit'
    BY <1>1, <2>2, LimitStep DEF Overfull, WithinLimit
  <2>4. size' \in Nat /\ userLimit' \in Nat
    <3>1. Limits \subseteq Nat
      BY Numbers, <1>1
    <3>2. userLimit' \in Limits \cup {0}
      BY <1>1 DEF TypeOK
    <3>3. IsFiniteSet(members') /\ IsFiniteSet(operators')
      BY <1>1, ChannelAssumption, FS_Subset DEF TypeOK
    <3>4. Cardinality(members') \in Nat /\ Cardinality(operators') \in Nat
      BY <3>3, FS_CardinalityType
    <3>5. size' = Cardinality(members') + Cardinality(operators')
      BY DEF size
    <3> QED
      BY <3>1, <3>2, <3>4, <3>5
  <2> QED
    BY <1>1, <2>3, <2>4 DEF Overfull
<1>2. TypeOK /\ TypeOK' /\ [Next]_vars =>
        [Overfull' /\ ~Overfull => "l" \in modes' \ modes]_vars
  BY <1>1
<1> QED
  BY <1>2, ChannelTypeCorrect, PTL DEF Spec, LimitKept

\* A role change loses nobody: the place given up is there for the second half
\* of the change.
LEMMA RoleChange ==
  ASSUME TypeOK, ~Overfull, NEW c \in Clients
  PROVE  /\ memberToOperator(c) => c \in Joined'
         /\ operatorToMember(c) /\ modes \cap {"i", "k"} = {} => c \in Joined'
<1>1. ~isFull(size - 1)
  BY Numbers DEF isFull, Overfull
<1> QED
  BY <1>1 DEF memberToOperator, operatorToMember, admits, Joined

\* Unless the channel is overfull, promotion never loses a client, nor does
\* demotion while anybody may join.
THEOREM RoleChangeSafe == Spec => RoleChangeKeepsClient
<1>1. TypeOK /\ [Next]_vars =>
        [~Overfull =>
           \A c \in Clients :
             /\ memberToOperator(c) => c \in Joined'
             /\ operatorToMember(c) /\ modes \cap {"i", "k"} = {} => c \in Joined']_vars
  BY RoleChange
<1> QED
  BY <1>1, ChannelTypeCorrect, PTL DEF Spec, RoleChangeKeepsClient

\* A list that is not empty has a first message.
LEMMA FirstMessage ==
  ASSUME NEW msgs \in Seq(Message), msgs # <<>>
  PROVE  1 \in DOMAIN msgs
<1>1. Len(msgs) \in Nat \ {0} /\ DOMAIN msgs = 1..Len(msgs)
  BY EmptySeq, LenProperties
<1> QED
  BY <1>1

\* TOPIC tells everybody on the channel, and nobody else, the topic it has set,
\* or announces nothing and sets nothing.
LEMMA TopicAllOrNothing ==
  ASSUME TypeOK, NEW c \in Clients, NEW new \in Topics \cup {""}, Topic(c, <<name, new>>)
  PROVE  \/ /\ topic' = topic
            /\ \A d \in Clients : \A k \in DOMAIN told'[d] : told'[d][k].code # "TOPIC"
         \/ \A d \in Clients :
              /\ told'[d] # <<>> <=> d \in Joined
              /\ \A k \in DOMAIN told'[d] :
                   told'[d][k] = [code |-> "TOPIC", topic |-> topic']
<1>1. CASE UNCHANGED topic /\ \E codes \in Seq(Codes \ {"TOPIC"}) : reply(c, codes)
  BY <1>1, ReplyTold
<1>2. CASE topic' = new /\ tellAll([code |-> "TOPIC", topic |-> topic'])
  <2>1. [code |-> "TOPIC", topic |-> topic'] \in Message
    BY <1>2 DEF Message, Codes
  <2>2. \A d \in Clients :
          /\ told'[d] \in Seq(Message)
          /\ \A k \in DOMAIN told'[d] :
               d \in Joined /\ told'[d][k] = [code |-> "TOPIC", topic |-> topic']
          /\ d \in Joined => told'[d] # <<>>
    BY <1>2, <2>1, AllTold
  <2>3. ASSUME NEW d \in Clients, told'[d] # <<>> PROVE d \in Joined
    <3>1. 1 \in DOMAIN told'[d]
      BY <2>2, <2>3, FirstMessage
    <3> QED
      BY <2>2, <3>1
  <2> QED
    BY <2>2, <2>3
<1>3. <<name, new>>[2] = new
  OBVIOUS
<1> QED
  BY <1>1, <1>2, <1>3, TopicEffect

\* TOPIC does all or nothing, on any channel and for any client that sends it.
THEOREM TopicIsAnnounced == Spec => TopicAnnounced
<1>1. TypeOK /\ [Next]_vars =>
        [\A c \in Clients, new \in Topics \cup {""} : Topic(c, <<name, new>>) =>
           \/ /\ topic' = topic
              /\ \A d \in Clients : \A k \in DOMAIN told'[d] : told'[d][k].code # "TOPIC"
           \/ \A d \in Clients :
                /\ told'[d] # <<>> <=> d \in Joined
                /\ \A k \in DOMAIN told'[d] :
                     told'[d][k] = [code |-> "TOPIC", topic |-> topic']]_vars
  BY TopicAllOrNothing
<1> QED
  BY <1>1, ChannelTypeCorrect, PTL DEF Spec, TopicAnnounced
=============================================================================
