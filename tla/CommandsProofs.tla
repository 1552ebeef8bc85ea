--------------------------- MODULE CommandsProofs ---------------------------
(***************************************************************************)
(* Proofs about Commands, for any number of connections, any words and any *)
(* commands clients send.                                                  *)
(*                                                                         *)
(* The invariant is proved one client at a time.  Sound(r) is what must    *)
(* hold of the record r of one client; every handler replaces one record   *)
(* by a sound one (the lemmas on records), and replacing the record of one *)
(* client preserves the invariant unless it takes a nickname in use (lemma *)
(* ReplaceOne).  For the action properties, a step does one of three       *)
(* things to each client: nothing it can see, one message appended, or     *)
(* output sent (Serves).                                                   *)
(***************************************************************************)
EXTENDS Commands, TLAPS, SequenceTheorems

Identified(m) == m.code = "PRIVMSG" => m.nick # "" /\ m.user # ""

Sound(r) ==
  /\ r.shouldDisconnect => r.writeBuffer # <<>>
  /\ ~r.isAuthenticated => r.nickname = "" /\ r.username = ""
  /\ \A k \in 1..Len(r.writeBuffer) : Identified(r.writeBuffer[k])

\* The inductive invariant.
IInv ==
  /\ TypeOK
  /\ NickUnique
  /\ \A c \in clients : Sound(client[c])

-----------------------------------------------------------------------------
(***************************************************************************)
(* Lemmas about the record of one client.                                  *)
(***************************************************************************)

\* The record a fresh connection starts from.
LEMMA NewClientSound == NewClient \in Client /\ Sound(NewClient)
<1>1. <<>> \in Seq(Message) /\ Len(<<>>) = 0
  BY EmptySeq
<1>2. NewClient \in Client
  BY <1>1 DEF NewClient, Client, Text
<1>3. NewClient.writeBuffer = <<>> /\ ~NewClient.shouldDisconnect
      /\ NewClient.nickname = "" /\ NewClient.username = ""
  BY DEF NewClient
<1>4. \A k \in 1..Len(NewClient.writeBuffer) : Identified(NewClient.writeBuffer[k])
  <2>1. Len(NewClient.writeBuffer) = 0
    BY <1>1, <1>3
  <2>2. 1..0 = {}
    OBVIOUS
  <2> QED
    BY <2>1, <2>2
<1>5. NewClient.shouldDisconnect => NewClient.writeBuffer # <<>>
  BY <1>3
<1> QED
  BY <1>2, <1>3, <1>4, <1>5 DEF Sound

\* appendToWriteBuffer keeps a client sound if the message names its sender.
LEMMA AppendSound ==
  ASSUME NEW r \in Client, Sound(r), NEW m \in Message, Identified(m)
  PROVE  LET new == [r EXCEPT !.writeBuffer = Append(@, m)]
         IN  new \in Client /\ Sound(new)
<1> DEFINE buffer == Append(r.writeBuffer, m)
<1>1. r.writeBuffer \in Seq(Message)
  BY DEF Client
<1>2. /\ buffer \in Seq(Message)
      /\ buffer # <<>>
      /\ Len(buffer) = Len(r.writeBuffer) + 1
      /\ \A k \in 1..Len(r.writeBuffer) : buffer[k] = r.writeBuffer[k]
      /\ buffer[Len(r.writeBuffer) + 1] = m
  BY <1>1, AppendProperties
<1>3. Len(r.writeBuffer) \in Nat
  BY <1>1
<1>4. \A k \in 1..Len(buffer) : Identified(buffer[k])
  <2> SUFFICES ASSUME NEW k \in 1..Len(buffer) PROVE Identified(buffer[k])
    OBVIOUS
  <2>1. CASE k \in 1..Len(r.writeBuffer)
    <3>1. Identified(r.writeBuffer[k])
      BY <2>1 DEF Sound
    <3> QED
      BY <2>1, <1>2, <3>1
  <2>2. CASE k = Len(r.writeBuffer) + 1
    BY <2>2, <1>2
  <2> QED
    BY <2>1, <2>2, <1>2, <1>3
<1> HIDE DEF buffer
<1>5. [r EXCEPT !.writeBuffer = buffer] \in Client
  BY <1>2 DEF Client
<1>6. Sound([r EXCEPT !.writeBuffer = buffer])
  BY <1>2, <1>4 DEF Sound, Client
<1> QED
  BY <1>5, <1>6 DEF buffer

\* Marking a client for disconnection is sound when it is sent something.
LEMMA MarkSound ==
  ASSUME NEW r \in Client, Sound(r), NEW m \in Message, Identified(m)
  PROVE  LET new == [r EXCEPT !.writeBuffer = Append(@, m),
                              !.shouldDisconnect = TRUE]
         IN  new \in Client /\ Sound(new)
<1> DEFINE mid == [r EXCEPT !.writeBuffer = Append(@, m)]
<1>1. mid \in Client /\ Sound(mid)
  BY AppendSound
<1>2. mid.writeBuffer # <<>>
  BY AppendProperties DEF Client
<1>3. [r EXCEPT !.writeBuffer = Append(@, m), !.shouldDisconnect = TRUE]
        = [mid EXCEPT !.shouldDisconnect = TRUE]
  BY DEF Client
<1> HIDE DEF mid
<1> QED
  BY <1>1, <1>2, <1>3 DEF Client, Sound

\* Giving the password, or taking an identity after it, is sound.
LEMMA IdentitySound ==
  ASSUME NEW r \in Client, Sound(r), NEW new \in Client,
         new.isAuthenticated,
         new.shouldDisconnect = r.shouldDisconnect,
         new.writeBuffer = r.writeBuffer
  PROVE  Sound(new)
  BY DEF Sound

\* What is left of the buffer after a send is sound if the client is not
\* marked or something is left.
LEMMA SendSound ==
  ASSUME NEW r \in Client, Sound(r), NEW sent \in 0..Len(r.writeBuffer),
         LET rest == SubSeq(r.writeBuffer, sent + 1, Len(r.writeBuffer))
         IN  rest # <<>> \/ ~r.shouldDisconnect
  PROVE  LET new == [r EXCEPT !.writeBuffer =
                       SubSeq(r.writeBuffer, sent + 1, Len(r.writeBuffer))]
         IN  new \in Client /\ Sound(new)
<1> DEFINE old == r.writeBuffer
           rest == SubSeq(old, sent + 1, Len(old))
<1>1. old \in Seq(Message) /\ Len(old) \in Nat
  BY DEF Client
<1>2. \A k \in (sent + 1)..Len(old) : old[k] \in Message
  BY <1>1
<1>3. /\ rest \in Seq(Message)
      /\ Len(rest) = IF sent + 1 <= Len(old) THEN Len(old) - (sent + 1) + 1 ELSE 0
      /\ \A k \in 1..(Len(old) - (sent + 1) + 1) : rest[k] = old[sent + 1 + k - 1]
  BY <1>1, <1>2, SubSeqProperties
<1>4. \A k \in 1..Len(rest) : k + sent \in 1..Len(old) /\ rest[k] = old[k + sent]
  BY <1>1, <1>3
<1>5. \A k \in 1..Len(rest) : Identified(rest[k])
  BY <1>4 DEF Sound
<1> HIDE DEF rest
<1>6. [r EXCEPT !.writeBuffer = rest] \in Client
  BY <1>3 DEF Client
<1>7. Sound([r EXCEPT !.writeBuffer = rest])
  BY <1>5 DEF Sound, Client, rest
<1> QED
  BY <1>6, <1>7 DEF rest

-----------------------------------------------------------------------------
(***************************************************************************)
(* Replacing the record of one client.                                     *)
(***************************************************************************)

\* One descriptor d gets the record r, and may join or leave clients.
LEMMA ReplaceOne ==
  ASSUME IInv, NEW d \in Fds, NEW r \in Client,
         client' = [client EXCEPT ![d] = r],
         clients' \subseteq Fds,
         clients' \ {d} = clients \ {d},
         d \in clients' => Sound(r),
         d \notin clients' => r = NewClient,
         d \in clients' => \A e \in clients \ {d} :
                             r.nickname = client[e].nickname => r.nickname = ""
  PROVE  IInv'
<1> USE DEF IInv
<1>1. \A e \in Fds : client'[e] = IF e = d THEN r ELSE client[e]
  BY DEF TypeOK
<1>2. TypeOK'
  BY <1>1 DEF TypeOK
<1>3. NickUnique'
  <2> SUFFICES ASSUME NEW a \in clients', NEW b \in clients',
                      client'[a].nickname = client'[b].nickname,
                      client'[a].nickname # ""
               PROVE  a = b
    BY DEF NickUnique
  <2>1. CASE a = d /\ b # d
    BY <2>1, <1>1
  <2>2. CASE b = d /\ a # d
    BY <2>2, <1>1
  <2>3. CASE a # d /\ b # d
    BY <2>3, <1>1 DEF NickUnique
  <2> QED
    BY <2>1, <2>2, <2>3
<1>4. (\A e \in clients : Sound(client[e]))'
  <2> SUFFICES ASSUME NEW e \in clients' PROVE Sound(client'[e])
    OBVIOUS
  <2>1. CASE e = d
    BY <2>1, <1>1
  <2>2. CASE e # d
    BY <2>2, <1>1
  <2> QED
    BY <2>1, <2>2
<1> QED
  BY <1>2, <1>3, <1>4

\* A connected client gets a sound record under the nickname it has.
LEMMA KeepName ==
  ASSUME IInv, NEW d \in clients, NEW r \in Client, Sound(r),
         r.nickname = client[d].nickname,
         client' = [client EXCEPT ![d] = r],
         UNCHANGED clients
  PROVE  IInv'
<1>1. \A e \in clients \ {d} :
        r.nickname = client[e].nickname => r.nickname = ""
  BY DEF IInv, NickUnique
<1>2. d \in Fds /\ clients \subseteq Fds
  BY DEF IInv, TypeOK
<1> QED
  BY <1>1, <1>2, ReplaceOne

\* A connected client is sent a message that names its sender.
LEMMA SendOne ==
  ASSUME IInv, NEW d \in clients, NEW m \in Message, Identified(m),
         client' = [client EXCEPT ![d].writeBuffer = Append(@, m)],
         UNCHANGED clients
  PROVE  IInv'
<1> DEFINE r == [client[d] EXCEPT !.writeBuffer = Append(@, m)]
<1>1. client[d] \in Client /\ Sound(client[d])
  BY DEF IInv, TypeOK
<1>2. r \in Client /\ Sound(r)
  BY <1>1, AppendSound
<1>3. r.nickname = client[d].nickname
  BY <1>1 DEF Client
<1>4. client' = [client EXCEPT ![d] = r]
  OBVIOUS
<1> HIDE DEF r
<1> QED
  BY <1>2, <1>3, <1>4, KeepName

\* Messages of the server itself name no sender and need none.
LEMMA ServerMsgIdentified ==
  ASSUME NEW code \in Codes \ {"PRIVMSG"}
  PROVE  ServerMsg(code) \in Message /\ Identified(ServerMsg(code))
  BY DEF ServerMsg, Message, Identified, Text

LEMMA ReplyInv ==
  ASSUME IInv, NEW c \in clients, NEW code \in Codes \ {"PRIVMSG"},
         reply(c, code), UNCHANGED clients
  PROVE  IInv'
  BY ServerMsgIdentified, SendOne DEF reply

\* A client is sent a message and marked for disconnection.
LEMMA MarkOne ==
  ASSUME IInv, NEW c \in clients, NEW code \in Codes \ {"PRIVMSG"},
         client' = [client EXCEPT ![c].writeBuffer = Append(@, ServerMsg(code)),
                                  ![c].shouldDisconnect = TRUE],
         UNCHANGED clients
  PROVE  IInv'
<1> DEFINE r == [client[c] EXCEPT !.writeBuffer = Append(@, ServerMsg(code)),
                                  !.shouldDisconnect = TRUE]
<1>1. client[c] \in Client /\ Sound(client[c]) /\ c \in Fds /\ client \in [Fds -> Client]
  BY DEF IInv, TypeOK
<1>2. r \in Client /\ Sound(r)
  BY <1>1, MarkSound, ServerMsgIdentified
<1>3. r.nickname = client[c].nickname
  BY <1>1 DEF Client
<1>4. client' = [client EXCEPT ![c] = r]
  BY <1>1
<1> HIDE DEF r
<1> QED
  BY <1>2, <1>3, <1>4, KeepName

-----------------------------------------------------------------------------
(***************************************************************************)
(* The handlers.                                                           *)
(***************************************************************************)

\* A handler that checks for a parameter reads one the parser has left.
LEMMA FirstParam ==
  ASSUME NEW cmd \in Cmds,
         cmd.params # <<>> \/ Len(cmd.params) >= 4
  PROVE  cmd.params[1] \in Text
<1>1. cmd.params \in Seq(Text)
  BY CommandsAssumption DEF GoodConstants, ParsedCommand
<1>2. 1 \in 1..Len(cmd.params)
  BY <1>1, EmptySeq
<1> QED
  BY <1>1, <1>2, ElementOfSeq

LEMMA UserMsgType ==
  ASSUME IInv, NEW c \in clients, NEW code \in Codes
  PROVE  UserMsg(c, code) \in Message
  BY DEF IInv, TypeOK, UserMsg, Message, Client

LEMMA PassInv ==
  ASSUME IInv, NEW c \in clients, NEW params,
         handlePass(c, params), UNCHANGED clients
  PROVE  IInv'
<1>1. CASE \E code \in {"461", "462"} : reply(c, code)
  BY <1>1, ReplyInv DEF Codes
<1>2. CASE client' = [client EXCEPT ![c].isAuthenticated = TRUE]
  <2> DEFINE r == [client[c] EXCEPT !.isAuthenticated = TRUE]
  <2>1. client[c] \in Client /\ Sound(client[c])
    BY DEF IInv, TypeOK
  <2>2. /\ r \in Client
        /\ r.isAuthenticated
        /\ r.shouldDisconnect = client[c].shouldDisconnect
        /\ r.writeBuffer = client[c].writeBuffer
        /\ r.nickname = client[c].nickname
    BY <2>1 DEF Client
  <2>3. client' = [client EXCEPT ![c] = r]
    BY <1>2
  <2> HIDE DEF r
  <2>4. Sound(r)
    BY <2>1, <2>2, IdentitySound
  <2> QED
    BY <2>2, <2>3, <2>4, KeepName
<1>3. CASE client' = [client EXCEPT ![c].writeBuffer = Append(@, ServerMsg("464")),
                                    ![c].shouldDisconnect = TRUE]
  <2>1. "464" \in Codes \ {"PRIVMSG"}
    BY DEF Codes
  <2> QED
    BY <1>3, <2>1, MarkOne
<1> QED
  BY <1>1, <1>2, <1>3 DEF handlePass

\* An authenticated client takes a name nobody has, with or without a reply.
LEMMA RenameInv ==
  ASSUME IInv, NEW c \in clients, NEW nick \in Text,
         ~isNicknameTaken(nick), client[c].isAuthenticated,
         client' = [client EXCEPT ![c].nickname = nick,
                                  ![c].writeBuffer = @ \o nickReply(c, nick)],
         UNCHANGED clients
  PROVE  IInv'
<1> DEFINE old == client[c].writeBuffer
           base == [client[c] EXCEPT !.nickname = nick]
           r == [base EXCEPT !.writeBuffer = old \o nickReply(c, nick)]
<1>1. /\ client[c] \in Client /\ Sound(client[c]) /\ old \in Seq(Message)
      /\ client \in [Fds -> Client] /\ clients \subseteq Fds /\ c \in Fds
  BY DEF IInv, TypeOK, Client
<1>2. /\ base \in Client
      /\ base.isAuthenticated
      /\ base.shouldDisconnect = client[c].shouldDisconnect
      /\ base.writeBuffer = old
      /\ base.nickname = nick
  BY <1>1 DEF Client
<1>3. client' = [client EXCEPT ![c] = r]
  BY <1>1
<1>4. nickReply(c, nick) = <<>>
        \/ \E m \in Message : Identified(m) /\ nickReply(c, nick) = <<m>>
  <2>1. UserMsg(c, "NICK") \in Message /\ Identified(UserMsg(c, "NICK"))
    BY UserMsgType DEF Codes, UserMsg, Identified
  <2>2. ServerMsg("001") \in Message /\ Identified(ServerMsg("001"))
    BY ServerMsgIdentified DEF Codes
  <2> QED
    BY <2>1, <2>2 DEF nickReply
<1> HIDE DEF base
<1>5. Sound(base)
  BY <1>1, <1>2, IdentitySound
<1>6. r \in Client /\ Sound(r) /\ r.nickname = nick
  <2>1. CASE nickReply(c, nick) = <<>>
    <3>1. r = base
      BY <2>1, <1>1, <1>2, ConcatEmptySeq DEF Client
    <3> QED
      BY <3>1, <1>2, <1>5
  <2>2. ASSUME NEW m \in Message, Identified(m), nickReply(c, nick) = <<m>>
        PROVE  r \in Client /\ Sound(r) /\ r.nickname = nick
    <3>1. old \o nickReply(c, nick) = Append(base.writeBuffer, m)
      BY <2>2, <1>1, <1>2, AppendIsConcat
    <3>2. r = [base EXCEPT !.writeBuffer = Append(@, m)]
      BY <3>1
    <3>3. r \in Client /\ Sound(r)
      BY <3>2, <1>2, <1>5, <2>2, AppendSound
    <3> QED
      BY <3>2, <3>3, <1>2 DEF Client
  <2> QED
    BY <2>1, <2>2, <1>4
<1> HIDE DEF r
<1>7. \A e \in clients \ {c} : r.nickname # client[e].nickname
  BY <1>6 DEF isNicknameTaken
<1> QED
  BY <1>1, <1>3, <1>6, <1>7, ReplaceOne

LEMMA NickInv ==
  ASSUME IInv, NEW c \in clients, NEW cmd \in Cmds,
         handleNick(c, cmd.params), UNCHANGED clients
  PROVE  IInv'
<1>1. CASE \E code \in {"433", "451", "461"} : reply(c, code)
  BY <1>1, ReplyInv DEF Codes
<1>2. CASE /\ cmd.params # <<>>
           /\ ~isNicknameTaken(cmd.params[1])
           /\ client[c].isAuthenticated
           /\ client' = [client EXCEPT
                ![c].nickname = cmd.params[1],
                ![c].writeBuffer = @ \o nickReply(c, cmd.params[1])]
  BY <1>2, FirstParam, RenameInv
<1> QED
  BY <1>1, <1>2 DEF handleNick

\* An authenticated client takes a user name, with or without the welcome.
LEMMA UserInv ==
  ASSUME IInv, NEW c \in clients, NEW cmd \in Cmds,
         handleUser(c, cmd.params), UNCHANGED clients
  PROVE  IInv'
<1> DEFINE old == client[c].writeBuffer
           base == [client[c] EXCEPT !.username = cmd.params[1]]
           welcomed == [base EXCEPT !.writeBuffer = Append(@, ServerMsg("001"))]
<1>1. CASE \E code \in {"451", "461", "462"} : reply(c, code)
  BY <1>1, ReplyInv DEF Codes
<1>2. ASSUME client[c].isAuthenticated,
             Len(cmd.params) >= 4,
             client' = [client EXCEPT
                ![c].username = cmd.params[1],
                ![c].writeBuffer = IF client[c].nickname = "" THEN @
                                   ELSE Append(@, ServerMsg("001"))]
      PROVE  IInv'
  <2>1. /\ client[c] \in Client /\ Sound(client[c]) /\ old \in Seq(Message)
        /\ client \in [Fds -> Client] /\ clients \subseteq Fds /\ c \in Fds
    BY DEF IInv, TypeOK, Client
  <2>2. cmd.params[1] \in Text
    BY <1>2, FirstParam
  <2>3. /\ base \in Client
        /\ base.isAuthenticated
        /\ base.shouldDisconnect = client[c].shouldDisconnect
        /\ base.writeBuffer = old
        /\ base.nickname = client[c].nickname
    BY <2>1, <2>2, <1>2 DEF Client
  <2>4. \/ client' = [client EXCEPT ![c] = base]
        \/ client' = [client EXCEPT ![c] = welcomed]
    BY <2>1, <1>2 DEF Client
  <2> HIDE DEF base
  <2>5. Sound(base)
    BY <2>1, <2>3, IdentitySound
  <2>6. ServerMsg("001") \in Message /\ Identified(ServerMsg("001"))
    BY ServerMsgIdentified DEF Codes
  <2>7. welcomed \in Client /\ Sound(welcomed)
    BY <2>3, <2>5, <2>6, AppendSound
  <2>8. welcomed.nickname = client[c].nickname
    BY <2>3 DEF Client
  <2> HIDE DEF welcomed
  <2> QED
    BY <2>3, <2>4, <2>5, <2>7, <2>8, KeepName
<1> QED
  BY <1>1, <1>2 DEF handleUser

\* A private message names a sender because only registered clients send it.
LEMMA PrivMsgInv ==
  ASSUME IInv, NEW c \in clients, NEW params, isRegistered(c),
         handlePrivMsg(c, params), UNCHANGED clients
  PROVE  IInv'
<1>1. CASE \E code \in {"401", "403", "412", "461"} : reply(c, code)
  BY <1>1, ReplyInv DEF Codes
<1>2. ASSUME NEW d \in clients,
             client' = [client EXCEPT
               ![d].writeBuffer = Append(@, UserMsg(c, "PRIVMSG"))]
      PROVE  IInv'
  <2>1. UserMsg(c, "PRIVMSG") \in Message
    BY UserMsgType DEF Codes
  <2>2. Identified(UserMsg(c, "PRIVMSG"))
    BY DEF Identified, UserMsg, isRegistered
  <2> QED
    BY <1>2, <2>1, <2>2, SendOne
<1> QED
  BY <1>1, <1>2 DEF handlePrivMsg, getClientByNick

\* A step that leaves everything as it is preserves the invariant.
LEMMA Stutter ==
  ASSUME IInv, UNCHANGED vars
  PROVE  IInv'
  BY DEF vars, IInv, TypeOK, NickUnique

LEMMA ProcessCommandInv ==
  ASSUME IInv, NEW c \in clients, NEW cmd \in Cmds,
         processCommand(c, cmd), UNCHANGED clients
  PROVE  IInv'
<1>1. CASE handlePass(c, cmd.params)
  BY <1>1, PassInv
<1>2. CASE handleNick(c, cmd.params)
  BY <1>2, NickInv
<1>3. CASE handleUser(c, cmd.params)
  BY <1>3, UserInv
<1>4. CASE UNCHANGED client
  BY <1>4, Stutter DEF vars
<1>5. CASE \E code \in Codes \ {"PRIVMSG"} : reply(c, code)
  BY <1>5, ReplyInv
<1>6. CASE handleQuit(c)
  <2>1. "ERROR" \in Codes \ {"PRIVMSG"}
    BY DEF Codes
  <2> QED
    BY <1>6, <2>1, MarkOne DEF handleQuit
<1>7. CASE isRegistered(c) /\ handlePrivMsg(c, cmd.params)
  BY <1>7, PrivMsgInv
<1> QED
  <2>1. {"403", "409", "421", "451", "461", "PONG"} \subseteq Codes \ {"PRIVMSG"}
    BY DEF Codes
  <2>2. CASE isRegistered(c) /\ registeredCommand(c, cmd)
    BY <2>1, <2>2, <1>4, <1>5, <1>6, <1>7
       DEF registeredCommand, isChannelCommand, Join, Topic, handlePing, handlePong
  <2> QED
    BY <2>1, <2>2, <1>1, <1>2, <1>3, <1>4, <1>5 DEF processCommand

-----------------------------------------------------------------------------
(***************************************************************************)
(* The life of a connection, and the theorems.                             *)
(***************************************************************************)

LEMMA AcceptInv ==
  ASSUME IInv, NEW c \in Fds, acceptClient(c)
  PROVE  IInv'
<1>1. client[c] = NewClient /\ client \in [Fds -> Client] /\ clients \subseteq Fds
  BY DEF IInv, TypeOK, acceptClient
<1>2. client' = [client EXCEPT ![c] = NewClient]
  BY <1>1 DEF acceptClient
<1>3. clients' \subseteq Fds /\ clients' \ {c} = clients \ {c}
  BY <1>1 DEF acceptClient
<1>4. NewClient.nickname = ""
  BY DEF NewClient
<1> QED
  BY <1>2, <1>3, <1>4, NewClientSound, ReplaceOne

LEMMA ClearInv ==
  ASSUME IInv, NEW c \in Fds, clearClient(c)
  PROVE  IInv'
<1>1. clients' \subseteq Fds /\ clients' \ {c} = clients \ {c} /\ c \notin clients'
  BY DEF IInv, TypeOK, clearClient
<1> QED
  BY <1>1, NewClientSound, ReplaceOne DEF clearClient

LEMMA SendInv ==
  ASSUME IInv, NEW c \in Fds, sendOutput(c)
  PROVE  IInv'
<1> DEFINE old == client[c].writeBuffer
           rest(sent) == SubSeq(old, sent + 1, Len(old))
<1>1. CASE clearClient(c)
  BY <1>1, ClearInv
<1>2. ASSUME NEW sent \in 0..Len(old),
             rest(sent) # <<>> \/ ~client[c].shouldDisconnect,
             client' = [client EXCEPT ![c].writeBuffer = rest(sent)],
             UNCHANGED clients
      PROVE  IInv'
  <2> DEFINE r == [client[c] EXCEPT !.writeBuffer = rest(sent)]
  <2>1. c \in clients /\ client[c] \in Client /\ Sound(client[c])
    BY DEF IInv, TypeOK, sendOutput
  <2>2. r \in Client /\ Sound(r)
    BY <1>2, <2>1, SendSound
  <2>3. r.nickname = client[c].nickname
    BY <2>1 DEF Client
  <2>4. client' = [client EXCEPT ![c] = r]
    BY <1>2
  <2> HIDE DEF r
  <2> QED
    BY <1>2, <2>1, <2>2, <2>3, <2>4, KeepName
<1> QED
  BY <1>1, <1>2 DEF sendOutput

LEMMA InitInv == Init => IInv
  BY NewClientSound DEF Init, IInv, TypeOK, NickUnique

LEMMA NextInv == IInv /\ [Next]_vars => IInv'
<1> SUFFICES ASSUME IInv, [Next]_vars PROVE IInv'
  OBVIOUS
<1>1. ASSUME NEW c \in Fds, acceptClient(c) PROVE IInv'
  BY <1>1, AcceptInv
<1>2. ASSUME NEW c \in Fds, NEW cmd \in Cmds, runCommand(c, cmd) PROVE IInv'
  BY <1>2, ProcessCommandInv DEF runCommand
<1>3. ASSUME NEW c \in Fds, sendOutput(c) PROVE IInv'
  BY <1>3, SendInv
<1>4. ASSUME NEW c \in Fds, clearClient(c) PROVE IInv'
  BY <1>4, ClearInv
<1>5. CASE UNCHANGED vars
  BY <1>5, Stutter
<1> QED
  BY <1>1, <1>2, <1>3, <1>4, <1>5 DEF Next

\* The inductive invariant holds in every reachable state.
THEOREM Invariance == Spec => []IInv
  BY InitInv, NextInv, PTL DEF Spec

\* Every variable keeps its type, and nothing of a connection that has ended
\* is left for the next one on the same descriptor.
THEOREM TypeCorrect == Spec => []TypeOK
<1>1. IInv => TypeOK
  BY DEF IInv
<1> QED
  BY <1>1, Invariance, PTL

\* No two connected clients ever hold the same non-empty nickname.
THEOREM NicknamesUnique == Spec => []NickUnique
<1>1. IInv => NickUnique
  BY DEF IInv
<1> QED
  BY <1>1, Invariance, PTL

\* A client marked for disconnection always has output that will make poll
\* report it, so the loop gets to drop it.
THEOREM DoomedReachable == Spec => []DoomedHasOutput
<1>1. IInv => DoomedHasOutput
  BY DEF IInv, Sound, DoomedHasOutput
<1> QED
  BY <1>1, Invariance, PTL

\* Without the password a connection never gets a nickname or a user name.
THEOREM PasswordFirst == Spec => []IdentityNeedsPassword
<1>1. IInv => IdentityNeedsPassword
  BY DEF IInv, Sound, IdentityNeedsPassword
<1> QED
  BY <1>1, Invariance, PTL

\* No private message waits anywhere without a sender's nick and user name.
THEOREM SendersIdentified == Spec => []SenderIdentified
<1>1. IInv => SenderIdentified
  BY DEF IInv, Sound, Identified, SenderIdentified
<1> QED
  BY <1>1, Invariance, PTL

-----------------------------------------------------------------------------
(***************************************************************************)
(* What one step does to a client that is there before and after it.       *)
(***************************************************************************)

Registers(c) == ~isRegistered(c) /\ isRegistered(c)'

\* It is sent nothing and is not registered by the step.
Quiet(c) ==
  /\ client'[c].writeBuffer = client[c].writeBuffer
  /\ ~Registers(c)

\* It is sent m.
Gets(c, m) ==
  /\ client'[c].writeBuffer = Append(client[c].writeBuffer, m)
  /\ m.code = "001" <=> Registers(c)
  /\ m.code \in {"PRIVMSG", "NICK"} =>
       \E d \in clients : isRegistered(d) /\ m = UserMsg(d, m.code)

\* Some of its output leaves.
Sends(c) ==
  /\ \E sent \in 0..Len(client[c].writeBuffer) :
       client'[c].writeBuffer =
         SubSeq(client[c].writeBuffer, sent + 1, Len(client[c].writeBuffer))
  /\ ~Registers(c)

Serves(c) == Quiet(c) \/ (\E m \in Message : Gets(c, m)) \/ Sends(c)

\* Whoever keeps its record is not served.
LEMMA OthersQuiet ==
  ASSUME NEW c, client'[c] = client[c]
  PROVE  Serves(c)
  BY DEF Serves, Quiet, Registers, isRegistered

\* A message of the server that leaves the identities alone.
LEMMA ServerMsgServes ==
  ASSUME IInv, NEW c \in clients, NEW d \in clients,
         NEW code \in Codes \ {"001", "PRIVMSG", "NICK"},
         NEW mark \in BOOLEAN,
         client' = [client EXCEPT ![d].writeBuffer = Append(@, ServerMsg(code)),
                                  ![d].shouldDisconnect = mark]
  PROVE  Serves(c)
<1>1. client \in [Fds -> Client] /\ d \in Fds /\ c \in Fds
  BY DEF IInv, TypeOK
<1>2. CASE c # d
  BY <1>1, <1>2, OthersQuiet
<1>3. CASE c = d
  <2>1. /\ client'[c].writeBuffer = Append(client[c].writeBuffer, ServerMsg(code))
        /\ client'[c].isAuthenticated = client[c].isAuthenticated
        /\ client'[c].nickname = client[c].nickname
        /\ client'[c].username = client[c].username
    BY <1>1, <1>3 DEF Client
  <2>2. ~Registers(c)
    BY <2>1 DEF Registers, isRegistered
  <2>3. ServerMsg(code) \in Message /\ ServerMsg(code).code = code
    BY DEF ServerMsg, Message, Text
  <2> QED
    BY <2>1, <2>2, <2>3 DEF Serves, Gets
<1> QED
  BY <1>2, <1>3

LEMMA ReplyServes ==
  ASSUME IInv, NEW c \in clients, NEW d \in clients,
         NEW code \in Codes \ {"001", "PRIVMSG", "NICK"}, reply(d, code)
  PROVE  Serves(c)
<1>1. client \in [Fds -> Client] /\ d \in Fds
  BY DEF IInv, TypeOK
<1> DEFINE mark == client[d].shouldDisconnect
<1>2. mark \in BOOLEAN
  BY <1>1 DEF Client
<1>3. client' = [client EXCEPT ![d].writeBuffer = Append(@, ServerMsg(code)),
                               ![d].shouldDisconnect = mark]
  BY <1>1 DEF reply, Client
<1> HIDE DEF mark
<1> QED
  BY <1>2, <1>3, ServerMsgServes

LEMMA PassServes ==
  ASSUME IInv, NEW c \in clients, NEW d \in clients, NEW params,
         handlePass(d, params)
  PROVE  Serves(c)
<1>1. client \in [Fds -> Client] /\ d \in Fds /\ c \in Fds
  BY DEF IInv, TypeOK
<1>2. CASE \E code \in {"461", "462"} : reply(d, code)
  BY <1>2, ReplyServes DEF Codes
<1>3. CASE ~client[d].isAuthenticated
           /\ client' = [client EXCEPT ![d].isAuthenticated = TRUE]
  <2>1. CASE c # d
    BY <1>1, <1>3, <2>1, OthersQuiet
  <2>2. CASE c = d
    <3>1. client[d].nickname = ""
      BY <1>3 DEF IInv, Sound
    <3>2. client'[d].writeBuffer = client[d].writeBuffer
          /\ client'[d].nickname = client[d].nickname
      BY <1>1, <1>3 DEF Client
    <3> QED
      BY <2>2, <3>1, <3>2 DEF Serves, Quiet, Registers, isRegistered
  <2> QED
    BY <2>1, <2>2
<1>4. CASE client' = [client EXCEPT ![d].writeBuffer = Append(@, ServerMsg("464")),
                                    ![d].shouldDisconnect = TRUE]
  BY <1>4, ServerMsgServes DEF Codes
<1> QED
  BY <1>2, <1>3, <1>4 DEF handlePass

LEMMA NickServes ==
  ASSUME IInv, NEW c \in clients, NEW d \in clients, NEW cmd \in Cmds,
         handleNick(d, cmd.params)
  PROVE  Serves(c)
<1> DEFINE nick == cmd.params[1]
<1>1. client \in [Fds -> Client] /\ d \in Fds /\ c \in Fds
      /\ client[d].writeBuffer \in Seq(Message)
  BY DEF IInv, TypeOK, Client
<1>2. CASE \E code \in {"433", "451", "461"} : reply(d, code)
  BY <1>2, ReplyServes DEF Codes
<1>3. ASSUME client[d].isAuthenticated,
             client' = [client EXCEPT ![d].nickname = nick,
                                      ![d].writeBuffer = @ \o nickReply(d, nick)]
      PROVE  Serves(c)
  <2>1. CASE c # d
    BY <1>1, <1>3, <2>1, OthersQuiet
  <2>2. CASE c = d
    <3>1. /\ client'[c].writeBuffer = client[c].writeBuffer \o nickReply(c, nick)
          /\ client'[c].nickname = nick
          /\ client'[c].username = client[c].username
          /\ client'[c].isAuthenticated
      BY <1>1, <1>3, <2>2 DEF Client
    <3>2. Registers(c) <=> ~isRegistered(c) /\ nick # "" /\ client[c].username # ""
      BY <3>1 DEF Registers, isRegistered
    <3>3. CASE isRegistered(c)
      <4>1. UserMsg(c, "NICK") \in Message /\ UserMsg(c, "NICK").code = "NICK"
        BY UserMsgType DEF Codes, UserMsg
      <4>2. client'[c].writeBuffer = Append(client[c].writeBuffer, UserMsg(c, "NICK"))
        BY <1>1, <2>2, <3>1, <3>3, <4>1, AppendIsConcat DEF nickReply
      <4> QED
        BY <3>2, <3>3, <4>1, <4>2 DEF Serves, Gets
    <3>4. CASE ~isRegistered(c) /\ nick # "" /\ client[c].username # ""
      <4>1. ServerMsg("001") \in Message /\ ServerMsg("001").code = "001"
        BY DEF ServerMsg, Message, Codes, Text
      <4>2. client'[c].writeBuffer = Append(client[c].writeBuffer, ServerMsg("001"))
        BY <1>1, <2>2, <3>1, <3>4, <4>1, AppendIsConcat DEF nickReply
      <4> QED
        BY <3>2, <3>4, <4>1, <4>2 DEF Serves, Gets
    <3>5. CASE ~isRegistered(c) /\ ~(nick # "" /\ client[c].username # "")
      <4>1. client'[c].writeBuffer = client[c].writeBuffer
        BY <1>1, <2>2, <3>1, <3>5, ConcatEmptySeq DEF nickReply
      <4> QED
        BY <3>2, <3>5, <4>1 DEF Serves, Quiet
    <3> QED
      BY <3>3, <3>4, <3>5
  <2> QED
    BY <2>1, <2>2
<1> QED
  BY <1>2, <1>3 DEF handleNick

LEMMA UserServes ==
  ASSUME IInv, NEW c \in clients, NEW d \in clients, NEW cmd \in Cmds,
         handleUser(d, cmd.params)
  PROVE  Serves(c)
<1>1. client \in [Fds -> Client] /\ d \in Fds /\ c \in Fds
  BY DEF IInv, TypeOK
<1>2. CASE \E code \in {"451", "461", "462"} : reply(d, code)
  BY <1>2, ReplyServes DEF Codes
<1>3. ASSUME client[d].isAuthenticated, client[d].username = "",
             Len(cmd.params) >= 4,
             client' = [client EXCEPT
                ![d].username = cmd.params[1],
                ![d].writeBuffer = IF client[d].nickname = "" THEN @
                                   ELSE Append(@, ServerMsg("001"))]
      PROVE  Serves(c)
  <2>1. CASE c # d
    BY <1>1, <1>3, <2>1, OthersQuiet
  <2>2. CASE c = d
    <3>1. cmd.params[1] # ""
      <4>1. /\ cmd.params \in Seq(Text)
            /\ \A k \in 1..(Len(cmd.params) - 1) : cmd.params[k] # ""
        BY CommandsAssumption DEF GoodConstants, ParsedCommand
      <4>2. 1 \in 1..(Len(cmd.params) - 1)
        <5>1. Len(cmd.params) \in Nat
          BY <4>1, LenProperties
        <5>2. Len(cmd.params) >= 4
          BY <1>3
        <5> QED
          BY <5>1, <5>2
      <4> QED
        BY <4>1, <4>2
    <3>2. /\ client'[c].writeBuffer =
               IF client[c].nickname = "" THEN client[c].writeBuffer
               ELSE Append(client[c].writeBuffer, ServerMsg("001"))
          /\ client'[c].nickname = client[c].nickname
          /\ client'[c].username = cmd.params[1]
          /\ client'[c].isAuthenticated
      BY <1>1, <1>3, <2>2 DEF Client
    <3>3. Registers(c) <=> client[c].nickname # ""
      BY <1>3, <2>2, <3>1, <3>2 DEF Registers, isRegistered
    <3>4. ServerMsg("001") \in Message /\ ServerMsg("001").code = "001"
      BY DEF ServerMsg, Message, Codes, Text
    <3> QED
      BY <3>2, <3>3, <3>4 DEF Serves, Quiet, Gets
  <2> QED
    BY <2>1, <2>2
<1> QED
  BY <1>2, <1>3 DEF handleUser

LEMMA PrivMsgServes ==
  ASSUME IInv, NEW c \in clients, NEW d \in clients, NEW params,
         isRegistered(d), handlePrivMsg(d, params)
  PROVE  Serves(c)
<1>1. client \in [Fds -> Client] /\ clients \subseteq Fds
  BY DEF IInv, TypeOK
<1>2. CASE \E code \in {"401", "403", "412", "461"} : reply(d, code)
  BY <1>2, ReplyServes DEF Codes
<1>3. ASSUME NEW e \in clients,
             client' = [client EXCEPT
               ![e].writeBuffer = Append(@, UserMsg(d, "PRIVMSG"))]
      PROVE  Serves(c)
  <2>1. CASE c # e
    BY <1>1, <1>3, <2>1, OthersQuiet
  <2>2. CASE c = e
    <3>1. /\ client'[c].writeBuffer = Append(client[c].writeBuffer, UserMsg(d, "PRIVMSG"))
          /\ client'[c].isAuthenticated = client[c].isAuthenticated
          /\ client'[c].nickname = client[c].nickname
          /\ client'[c].username = client[c].username
      BY <1>1, <1>3, <2>2 DEF Client
    <3>2. ~Registers(c)
      BY <3>1 DEF Registers, isRegistered
    <3>3. UserMsg(d, "PRIVMSG") \in Message /\ UserMsg(d, "PRIVMSG").code = "PRIVMSG"
      BY UserMsgType DEF Codes, UserMsg
    <3> QED
      BY <3>1, <3>2, <3>3 DEF Serves, Gets
  <2> QED
    BY <2>1, <2>2
<1> QED
  BY <1>2, <1>3 DEF handlePrivMsg, getClientByNick

LEMMA CommandServes ==
  ASSUME IInv, NEW c \in clients, NEW d \in clients, NEW cmd \in Cmds,
         processCommand(d, cmd)
  PROVE  Serves(c)
<1>1. CASE handlePass(d, cmd.params)
  BY <1>1, PassServes
<1>2. CASE handleNick(d, cmd.params)
  BY <1>2, NickServes
<1>3. CASE handleUser(d, cmd.params)
  BY <1>3, UserServes
<1>4. CASE UNCHANGED client
  BY <1>4, OthersQuiet
<1>5. CASE \E code \in Codes \ {"001", "PRIVMSG", "NICK"} : reply(d, code)
  BY <1>5, ReplyServes
<1>6. CASE handleQuit(d)
  BY <1>6, ServerMsgServes DEF handleQuit, Codes
<1>7. CASE isRegistered(d) /\ handlePrivMsg(d, cmd.params)
  BY <1>7, PrivMsgServes
<1> QED
  <2>1. {"403", "409", "421", "451", "461", "PONG"} \subseteq Codes \ {"001", "PRIVMSG", "NICK"}
    BY DEF Codes
  <2>2. CASE isRegistered(d) /\ registeredCommand(d, cmd)
    BY <2>1, <2>2, <1>4, <1>5, <1>6, <1>7
       DEF registeredCommand, isChannelCommand, Join, Topic, handlePing, handlePong
  <2> QED
    BY <2>1, <2>2, <1>1, <1>2, <1>3, <1>4, <1>5 DEF processCommand

LEMMA SendServes ==
  ASSUME IInv, NEW c \in clients, NEW d \in Fds, sendOutput(d), c \in clients'
  PROVE  Serves(c)
<1>1. client \in [Fds -> Client] /\ c \in Fds
  BY DEF IInv, TypeOK
<1>2. CASE c # d
  BY <1>1, <1>2, OthersQuiet DEF sendOutput, clearClient
<1>3. CASE c = d
  <2>1. PICK sent \in 0..Len(client[c].writeBuffer) :
          client' = [client EXCEPT ![c].writeBuffer =
            SubSeq(client[c].writeBuffer, sent + 1, Len(client[c].writeBuffer))]
    BY <1>3 DEF sendOutput, clearClient
  <2>2. /\ client'[c].writeBuffer =
             SubSeq(client[c].writeBuffer, sent + 1, Len(client[c].writeBuffer))
        /\ client'[c].isAuthenticated = client[c].isAuthenticated
        /\ client'[c].nickname = client[c].nickname
        /\ client'[c].username = client[c].username
    BY <1>1, <2>1 DEF Client
  <2> QED
    BY <2>2 DEF Serves, Sends, Registers, isRegistered
<1> QED
  BY <1>2, <1>3

LEMMA StepServes ==
  ASSUME IInv, [Next]_vars, NEW c \in clients \cap clients'
  PROVE  Serves(c)
<1>1. client \in [Fds -> Client] /\ c \in Fds
  BY DEF IInv, TypeOK
<1>2. ASSUME NEW d \in Fds, acceptClient(d) \/ clearClient(d) PROVE Serves(c)
  BY <1>1, <1>2, OthersQuiet DEF acceptClient, clearClient
<1>3. ASSUME NEW d \in Fds, NEW cmd \in Cmds, runCommand(d, cmd) PROVE Serves(c)
  BY <1>3, CommandServes DEF runCommand
<1>4. ASSUME NEW d \in Fds, sendOutput(d) PROVE Serves(c)
  BY <1>4, SendServes
<1>5. CASE UNCHANGED vars
  BY <1>5, OthersQuiet DEF vars
<1> QED
  BY <1>2, <1>3, <1>4, <1>5 DEF Next

\* The three ways to be served, as sequences.
LEMMA GetsAdds ==
  ASSUME IInv, NEW c \in clients, NEW m \in Message, Gets(c, m)
  PROVE  LET old == client[c].writeBuffer
             new == client'[c].writeBuffer
         IN  /\ Len(new) = Len(old) + 1
             /\ SubSeq(new, 1, Len(old)) = old
             /\ Adds(c)
             /\ Added(c) = m
<1> DEFINE old == client[c].writeBuffer
           new == client'[c].writeBuffer
<1>1. old \in Seq(Message) /\ Len(old) \in Nat
  BY DEF IInv, TypeOK, Client
<1>2. /\ new \in Seq(Message)
      /\ Len(new) = Len(old) + 1
      /\ \A k \in 1..Len(old) : new[k] = old[k]
      /\ new[Len(old) + 1] = m
  BY <1>1, AppendProperties DEF Gets
<1>3. Adds(c) /\ Added(c) = m
  BY <1>1, <1>2 DEF Adds, Added
<1> HIDE DEF new
<1>4. SubSeq(new, 1, Len(old)) = old
  <2>1. \A k \in 1..Len(old) : new[k] \in Message
    BY <1>1, <1>2
  <2>2. /\ SubSeq(new, 1, Len(old)) \in Seq(Message)
        /\ Len(SubSeq(new, 1, Len(old))) = Len(old)
        /\ \A k \in 1..Len(old) : SubSeq(new, 1, Len(old))[k] = new[k]
    BY <1>1, <2>1, SubSeqProperties
  <2> QED
    BY <1>1, <1>2, <2>2, SeqEqual
<1> QED
  BY <1>2, <1>3, <1>4 DEF new

LEMMA SendsRemoves ==
  ASSUME IInv, NEW c \in clients, Sends(c)
  PROVE  LET old == client[c].writeBuffer
             new == client'[c].writeBuffer
         IN  /\ ~Adds(c)
             /\ \/ new = old
                \/ /\ Len(new) < Len(old)
                   /\ new = SubSeq(old, Len(old) - Len(new) + 1, Len(old))
<1> DEFINE old == client[c].writeBuffer
           new == client'[c].writeBuffer
<1>1. old \in Seq(Message) /\ Len(old) \in Nat
  BY DEF IInv, TypeOK, Client
<1>2. PICK sent \in 0..Len(old) : new = SubSeq(old, sent + 1, Len(old))
  BY DEF Sends
<1>3. \A k \in (sent + 1)..Len(old) : old[k] \in Message
  BY <1>1
<1>4. /\ new \in Seq(Message)
      /\ Len(new) = Len(old) - sent
      /\ \A k \in 1..(Len(old) - sent) : new[k] = old[sent + k]
  <2>1. /\ new \in Seq(Message)
        /\ Len(new) = IF sent + 1 <= Len(old) THEN Len(old) - (sent + 1) + 1 ELSE 0
        /\ \A k \in 1..(Len(old) - (sent + 1) + 1) : new[k] = old[sent + 1 + k - 1]
    BY <1>1, <1>2, <1>3, SubSeqProperties
  <2> HIDE DEF new
  <2> QED
    BY <1>1, <2>1
<1>5. ~Adds(c)
  BY <1>1, <1>4 DEF Adds
<1> HIDE DEF new
<1>6. CASE sent = 0
  <2>1. new = old
    BY <1>1, <1>4, <1>6, SeqEqual
  <2> QED
    BY <1>5, <2>1 DEF new
<1>7. CASE sent > 0
  <2>1. Len(new) < Len(old) /\ Len(old) - Len(new) = sent
    BY <1>1, <1>4, <1>7
  <2> QED
    BY <1>2, <1>5, <2>1 DEF new
<1>8. sent = 0 \/ sent > 0
  BY <1>1
<1> QED
  BY <1>6, <1>7, <1>8

-----------------------------------------------------------------------------
(***************************************************************************)
(* Theorems about the steps.                                               *)
(***************************************************************************)

\* The welcome is sent exactly by the step that completes a registration.
THEOREM WelcomedWhenRegistered == Spec => WelcomeOnRegistration
<1>1. ASSUME IInv, [Next]_vars, NEW c \in clients \cap clients'
      PROVE  (Adds(c) /\ Added(c).code = "001") <=> Registers(c)
  <2>1. CASE Quiet(c)
    <3>1. client'[c].writeBuffer \in Seq(Message)
      BY <1>1, <2>1 DEF Quiet, IInv, TypeOK, Client
    <3> QED
      BY <2>1, <3>1 DEF Quiet, Adds
  <2>2. ASSUME NEW m \in Message, Gets(c, m)
        PROVE  (Adds(c) /\ Added(c).code = "001") <=> Registers(c)
    <3>1. Adds(c) /\ Added(c) = m
      BY <1>1, <2>2, GetsAdds
    <3> QED
      BY <2>2, <3>1 DEF Gets
  <2>3. CASE Sends(c)
    <3>1. ~Adds(c)
      BY <1>1, <2>3, SendsRemoves
    <3> QED
      BY <2>3, <3>1 DEF Sends
  <2> QED
    BY <1>1, <2>1, <2>2, <2>3, StepServes DEF Serves
<1>2. IInv /\ [Next]_vars =>
        [\A c \in clients \cap clients' :
           (Adds(c) /\ Added(c).code = "001")
             <=> (~isRegistered(c) /\ isRegistered(c)')]_vars
  BY <1>1 DEF Registers
<1> QED
  BY <1>2, Invariance, PTL DEF Spec, WelcomeOnRegistration

\* A message under a user's prefix carries the identity that some registered
\* client has in the state in which it is sent.
THEOREM SourcesLive == Spec => SourceIsLive
<1>1. ASSUME IInv, [Next]_vars, NEW c \in clients \cap clients',
             Adds(c), Added(c).code \in {"PRIVMSG", "NICK"}
      PROVE  \E d \in clients : isRegistered(d) /\ Added(c) = UserMsg(d, Added(c).code)
  <2>1. CASE Quiet(c)
    <3>1. client'[c].writeBuffer \in Seq(Message)
      BY <1>1, <2>1 DEF Quiet, IInv, TypeOK, Client
    <3> QED
      BY <1>1, <2>1, <3>1 DEF Quiet, Adds
  <2>2. ASSUME NEW m \in Message, Gets(c, m)
        PROVE  \E d \in clients : isRegistered(d) /\ Added(c) = UserMsg(d, Added(c).code)
    <3>1. Added(c) = m
      BY <1>1, <2>2, GetsAdds
    <3> QED
      BY <1>1, <2>2, <3>1 DEF Gets
  <2>3. CASE Sends(c)
    BY <1>1, <2>3, SendsRemoves
  <2> QED
    BY <1>1, <2>1, <2>2, <2>3, StepServes DEF Serves
<1>2. IInv /\ [Next]_vars =>
        [\A c \in clients \cap clients' :
           (Adds(c) /\ Added(c).code \in {"PRIVMSG", "NICK"}) =>
             \E d \in clients : isRegistered(d) /\ Added(c) = UserMsg(d, Added(c).code)]_vars
  BY <1>1
<1> QED
  BY <1>2, Invariance, PTL DEF Spec, SourceIsLive

\* Output is a queue: a step appends one message or removes some in front.
THEOREM OutputQueued == Spec => OutputIsFifo
<1> DEFINE Fifo(c) ==
      LET old == client[c].writeBuffer
          new == client'[c].writeBuffer
      IN \/ new = old
         \/ Len(new) = Len(old) + 1 /\ SubSeq(new, 1, Len(old)) = old
         \/ Len(new) < Len(old)
            /\ new = SubSeq(old, Len(old) - Len(new) + 1, Len(old))
<1>1. ASSUME IInv, [Next]_vars, NEW c \in clients \cap clients'
      PROVE  Fifo(c)
  <2>1. CASE Quiet(c)
    BY <2>1 DEF Quiet
  <2>2. ASSUME NEW m \in Message, Gets(c, m) PROVE Fifo(c)
    BY <1>1, <2>2, GetsAdds
  <2>3. CASE Sends(c)
    BY <1>1, <2>3, SendsRemoves
  <2> QED
    BY <1>1, <2>1, <2>2, <2>3, StepServes DEF Serves
<1>2. IInv /\ [Next]_vars => [\A c \in clients \cap clients' : Fifo(c)]_vars
  BY <1>1
<1> QED
  BY <1>2, Invariance, PTL DEF Spec, OutputIsFifo
=============================================================================
