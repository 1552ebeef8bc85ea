------------------------------ MODULE Commands ------------------------------
(***************************************************************************)
(* The command layer of ircserv: what one parsed command line does to the  *)
(* per-connection state of the server (src/src/AuthCommands.cpp,           *)
(* src/src/CommandHandler.cpp, src/inc/Client.hpp), and the life of a      *)
(* connection from accept() to close() seen without the poll loop.         *)
(*                                                                         *)
(* This is the abstract specification of the server: at any moment any     *)
(* connected client may be accepted, run a command, have some of its       *)
(* output sent, or go away.  Module Server is the poll loop that           *)
(* implements it.                                                          *)
(*                                                                         *)
(* Data are abstracted to what the handlers compare: a parameter is a      *)
(* word, a reply is its numeric or verb with the prefix it carries.        *)
(***************************************************************************)
EXTENDS Naturals, Sequences

CONSTANTS
  Fds,           \* descriptors accept() may return
  Words,         \* the non-empty words that occur as parameters
  ChannelWords,  \* the words whose first character is '#'
  Password,      \* the word the server was started with
  Cmds           \* the parsed commands clients may send

Text == Words \cup {""}

\* The commands the parser passes on; every other first word is "UNKNOWN",
\* NAMES among them, and an empty line is the command "".
CommandNames ==
  {"PASS", "PING", "PONG", "QUIT", "NICK", "USER", "PRIVMSG", "JOIN", "PART",
   "TOPIC", "INVITE", "KICK", "MODE", "CAP", "UNKNOWN", ""}

\* Only the trailing parameter (after " :"), always the last, may be empty:
\* the words split at spaces are kept when they are not.
ParsedCommand(cmd) ==
  /\ cmd.command \in CommandNames
  /\ cmd.params \in Seq(Text)
  /\ \A k \in 1..(Len(cmd.params) - 1) : cmd.params[k] # ""

\* What the constants may be.
GoodConstants ==
  /\ "" \notin Words
  /\ ChannelWords \subseteq Words
  /\ Password \in Words
  /\ \A cmd \in Cmds : ParsedCommand(cmd)

ASSUME CommandsAssumption == GoodConstants

VARIABLES
  clients,  \* the descriptors with an entry in Server::_clients
  client    \* the Client of each descriptor, NewClient where there is none

vars == <<clients, client>>

-----------------------------------------------------------------------------
(***************************************************************************)
(* Clients and the messages in their write buffers.                        *)
(***************************************************************************)

Codes == {"001", "401", "403", "409", "412", "421", "433", "451", "461",
          "462", "464", "PONG", "ERROR", "NICK", "PRIVMSG"}

\* A message with the nick and user of its prefix; the server's own replies
\* name no user.
Message == [code : Codes, nick : Text, user : Text]

Client == [nickname : Text, username : Text,
           isAuthenticated : BOOLEAN, shouldDisconnect : BOOLEAN,
           writeBuffer : Seq(Message)]

NewClient == [nickname |-> "", username |-> "",
              isAuthenticated |-> FALSE, shouldDisconnect |-> FALSE,
              writeBuffer |-> <<>>]

\* Mutant: the password alone makes a client registered.
isRegisteredByPassword(c) == client[c].isAuthenticated

isRegistered(c) ==
  /\ client[c].isAuthenticated
  /\ client[c].nickname # ""
  /\ client[c].username # ""

\* Mutant: only registered clients own their nicknames.
isNicknameTakenByRegistered(nick) ==
  \E d \in clients : isRegistered(d) /\ client[d].nickname = nick

isNicknameTaken(nick) == \E d \in clients : client[d].nickname = nick

\* The clients getClientByNick may return.
getClientByNick(nick) == {d \in clients : client[d].nickname = nick}

ServerMsg(code) == [code |-> code, nick |-> "", user |-> ""]

UserMsg(c, code) ==
  [code |-> code, nick |-> client[c].nickname, user |-> client[c].username]

reply(c, code) ==
  client' = [client EXCEPT ![c].writeBuffer = Append(@, ServerMsg(code))]

-----------------------------------------------------------------------------
(***************************************************************************)
(* Registration: PASS, NICK and USER.                                      *)
(***************************************************************************)

handlePass(c, params) ==
  \/ /\ params = <<>>
     /\ reply(c, "461")
  \/ /\ params # <<>>
     /\ client[c].isAuthenticated
     /\ reply(c, "462")
  \/ /\ params # <<>>
     /\ ~client[c].isAuthenticated
     /\ params[1] = Password
     /\ client' = [client EXCEPT ![c].isAuthenticated = TRUE]
  \/ /\ params # <<>>
     /\ ~client[c].isAuthenticated
     /\ params[1] # Password
     /\ client' = [client EXCEPT
                     ![c].writeBuffer = Append(@, ServerMsg("464")),
                     ![c].shouldDisconnect = TRUE]

\* Mutant: the welcome does not wait for USER.
nickReplyEager(c, nick) ==
  IF isRegistered(c) THEN <<UserMsg(c, "NICK")>> ELSE <<ServerMsg("001")>>

\* Mutant: the confirmation is built after the nickname was set.
nickReplyNewName(c, nick) ==
  IF isRegistered(c) THEN <<[UserMsg(c, "NICK") EXCEPT !.nick = nick]>>
  ELSE IF nick # "" /\ client[c].username # "" THEN <<ServerMsg("001")>>
  ELSE <<>>

\* What NICK answers an authenticated client: a renaming is confirmed under
\* the old name, the name that completes the registration is welcomed.
nickReply(c, nick) ==
  IF isRegistered(c) THEN <<UserMsg(c, "NICK")>>
  ELSE IF nick # "" /\ client[c].username # "" THEN <<ServerMsg("001")>>
  ELSE <<>>

handleNick(c, params) ==
  \/ /\ params = <<>>
     /\ reply(c, "461")
  \/ /\ params # <<>>
     /\ isNicknameTaken(params[1])
     /\ reply(c, "433")
  \/ /\ params # <<>>
     /\ ~isNicknameTaken(params[1])
     /\ ~client[c].isAuthenticated
     /\ reply(c, "451")
  \/ /\ params # <<>>
     /\ ~isNicknameTaken(params[1])
     /\ client[c].isAuthenticated
     /\ client' = [client EXCEPT
                     ![c].nickname = params[1],
                     ![c].writeBuffer = @ \o nickReply(c, params[1])]

\* Mutant: USER does not ask for the password.
handleUserUnasked(c, params) ==
  /\ client[c].username = ""
  /\ Len(params) >= 4
  /\ client' = [client EXCEPT ![c].username = params[1]]

handleUser(c, params) ==
  \/ /\ ~client[c].isAuthenticated
     /\ reply(c, "451")
  \/ /\ client[c].isAuthenticated
     /\ client[c].username # ""
     /\ reply(c, "462")
  \/ /\ client[c].isAuthenticated
     /\ client[c].username = ""
     /\ Len(params) < 4
     /\ reply(c, "461")
  \/ /\ client[c].isAuthenticated
     /\ client[c].username = ""
     /\ Len(params) >= 4
     /\ client' = [client EXCEPT
                     ![c].username = params[1],
                     ![c].writeBuffer = IF client[c].nickname = "" THEN @
                                        ELSE Append(@, ServerMsg("001"))]

-----------------------------------------------------------------------------
(***************************************************************************)
(* The commands of a registered client.                                    *)
(***************************************************************************)

handlePing(c, params) ==
  reply(c, IF params = <<>> THEN "409" ELSE "PONG")

handlePong == UNCHANGED client

\* Mutant: QUIT marks the client and says nothing.
handleQuitSilent(c) == client' = [client EXCEPT ![c].shouldDisconnect = TRUE]

handleQuit(c) ==
  client' = [client EXCEPT ![c].writeBuffer = Append(@, ServerMsg("ERROR")),
                           ![c].shouldDisconnect = TRUE]

hasText(params) == Len(params) >= 2 /\ params[2] # ""

handlePrivMsg(c, params) ==
  \/ /\ params = <<>>
     /\ reply(c, "461")
  \/ /\ params # <<>>
     /\ ~hasText(params)
     /\ reply(c, "412")
  \/ /\ hasText(params)
     /\ params[1] \in ChannelWords
     /\ reply(c, "403")
  \/ /\ hasText(params)
     /\ params[1] \notin ChannelWords
     /\ getClientByNick(params[1]) = {}
     /\ reply(c, "401")
  \/ /\ hasText(params)
     /\ params[1] \notin ChannelWords
     /\ \E d \in getClientByNick(params[1]) :
          client' = [client EXCEPT
            ![d].writeBuffer = Append(@, UserMsg(c, "PRIVMSG"))]

\* TOPIC finds no channel: nothing in the program creates a Channel, so
\* Server::_channels is empty.
Topic(c, params) == reply(c, IF params = <<>> THEN "461" ELSE "403")

\* JOIN throws for any number of parameters (it differs from 1 or from 2), which
\* leaves the command to the handlers below; none of them takes it.
Join(c, params) ==
  /\ Len(params) # 1 \/ Len(params) # 2
  /\ UNCHANGED client

\* INVITE, KICK, MODE and PART are stubs.
isChannelCommand(c, cmd) ==
  \/ cmd.command \in {"INVITE", "KICK", "MODE", "PART"} /\ UNCHANGED client
  \/ cmd.command = "JOIN" /\ Join(c, cmd.params)
  \/ cmd.command = "TOPIC" /\ Topic(c, cmd.params)

registeredCommand(c, cmd) ==
  \/ isChannelCommand(c, cmd)
  \/ cmd.command = "PING" /\ handlePing(c, cmd.params)
  \/ cmd.command = "QUIT" /\ handleQuit(c)
  \/ cmd.command = "PRIVMSG" /\ handlePrivMsg(c, cmd.params)
  \/ cmd.command = "UNKNOWN" /\ reply(c, "421")
  \/ cmd.command = "PONG" /\ handlePong
  \/ cmd.command = "" /\ UNCHANGED client

processCommand(c, cmd) ==
  \/ cmd.command = "PASS" /\ handlePass(c, cmd.params)
  \/ cmd.command = "NICK" /\ handleNick(c, cmd.params)
  \/ cmd.command = "USER" /\ handleUser(c, cmd.params)
  \/ cmd.command = "CAP" /\ UNCHANGED client
  \/ /\ cmd.command \notin {"PASS", "NICK", "USER", "CAP"}
     /\ \/ ~isRegistered(c) /\ reply(c, "451")
        \/ isRegistered(c) /\ registeredCommand(c, cmd)

-----------------------------------------------------------------------------
(***************************************************************************)
(* The life of a connection.                                               *)
(***************************************************************************)

Init ==
  /\ clients = {}
  /\ client = [c \in Fds |-> NewClient]

acceptClient(c) ==
  /\ c \notin clients
  /\ clients' = clients \cup {c}
  /\ UNCHANGED client

runCommand(c, cmd) ==
  /\ c \in clients
  /\ processCommand(c, cmd)
  /\ UNCHANGED clients

\* Mutant: the Client object survives its connection.
clearClientKeepsObject(c) ==
  /\ c \in clients
  /\ clients' = clients \ {c}
  /\ UNCHANGED client

clearClient(c) ==
  /\ c \in clients
  /\ clients' = clients \ {c}
  /\ client' = [client EXCEPT ![c] = NewClient]

\* Mutant: what was sent is erased from the wrong end.
sendOutputWrongEnd(c) ==
  /\ c \in clients
  /\ \E sent \in 0..Len(client[c].writeBuffer) :
       client' = [client EXCEPT ![c].writeBuffer =
                    SubSeq(@, 1, Len(@) - sent)]
  /\ UNCHANGED clients

\* One send(): nothing, a part or all of the buffer leaves.  A client marked
\* for disconnection is dropped as soon as its buffer is empty.
sendOutput(c) ==
  /\ c \in clients
  /\ \E sent \in 0..Len(client[c].writeBuffer) :
       LET rest == SubSeq(client[c].writeBuffer, sent + 1,
                          Len(client[c].writeBuffer))
       IN \/ /\ rest = <<>> /\ client[c].shouldDisconnect
             /\ clearClient(c)
          \/ /\ rest # <<>> \/ ~client[c].shouldDisconnect
             /\ client' = [client EXCEPT ![c].writeBuffer = rest]
             /\ UNCHANGED clients

Next ==
  \E c \in Fds :
    \/ acceptClient(c)
    \/ \E cmd \in Cmds : runCommand(c, cmd)
    \/ sendOutput(c)
    \/ clearClient(c)

Spec == Init /\ [][Next]_vars

-----------------------------------------------------------------------------
(***************************************************************************)
(* Properties.                                                             *)
(***************************************************************************)

\* Every variable has its type, and a descriptor without a client carries no
\* left-over state into its next connection.
TypeOK ==
  /\ clients \subseteq Fds
  /\ client \in [Fds -> Client]
  /\ \A c \in Fds \ clients : client[c] = NewClient

\* No two connected clients hold the same non-empty nickname, whatever the
\* order of NICK commands, renamings and disconnections: handleNick relies on
\* it for getClientByNick to have one answer.
NickUnique ==
  \A c, d \in clients :
    client[c].nickname = client[d].nickname /\ client[c].nickname # "" => c = d

\* A client marked for disconnection still has something to send.  The loop
\* asks poll for POLLOUT only when there is output, and only the POLLOUT branch
\* drops a marked client: one with an empty buffer would never be dropped.
DoomedHasOutput ==
  \A c \in clients :
    client[c].shouldDisconnect => client[c].writeBuffer # <<>>

\* A connection that has not given the password has neither a nickname nor a
\* user name, so it cannot keep a nickname from others or be sent messages.
IdentityNeedsPassword ==
  \A c \in clients :
    ~client[c].isAuthenticated =>
      client[c].nickname = "" /\ client[c].username = ""

\* Every private message waiting in a buffer names a sender that was
\* registered: the gate of processCommand held when it was forwarded, even if
\* the sender has since been renamed or has left.
SenderIdentified ==
  \A c \in clients : \A k \in 1..Len(client[c].writeBuffer) :
    client[c].writeBuffer[k].code = "PRIVMSG" =>
      /\ client[c].writeBuffer[k].nick # ""
      /\ client[c].writeBuffer[k].user # ""

\* This step adds a message, Added(c), at the end of c's buffer.
Adds(c) == Len(client'[c].writeBuffer) > Len(client[c].writeBuffer)
Added(c) == client'[c].writeBuffer[Len(client'[c].writeBuffer)]

\* The welcome 001 is sent exactly by the step that completes a registration,
\* whichever of NICK and USER came last.
WelcomeOnRegistration ==
  [][\A c \in clients \cap clients' :
       (Adds(c) /\ Added(c).code = "001")
         <=> (~isRegistered(c) /\ isRegistered(c)')]_vars

\* A message that reaches a buffer under a user's prefix carries the identity
\* some registered client has at that moment: nobody speaks for a client that
\* has left, or under a name it no longer holds.
SourceIsLive ==
  [][\A c \in clients \cap clients' :
       (Adds(c) /\ Added(c).code \in {"PRIVMSG", "NICK"}) =>
         \E d \in clients : isRegistered(d) /\ Added(c) = UserMsg(d, Added(c).code)]_vars

\* Output is a queue: a step adds one message behind what waits or removes
\* messages from the front, it never drops, repeats or reorders the others.
OutputIsFifo ==
  [][\A c \in clients \cap clients' :
       LET old == client[c].writeBuffer
           new == client'[c].writeBuffer
       IN \/ new = old
          \/ Len(new) = Len(old) + 1 /\ SubSeq(new, 1, Len(old)) = old
          \/ Len(new) < Len(old)
             /\ new = SubSeq(old, Len(old) - Len(new) + 1, Len(old))]_vars

-----------------------------------------------------------------------------
(***************************************************************************)
(* What the code's comments say and the code does not do.                  *)
(***************************************************************************)

\* A connection is welcomed once: handleNick and handleUser welcome a client
\* that was not registered before.  An empty nickname, which handleNick
\* accepts, undoes a registration, and the next NICK completes it again.
WelcomedOnce ==
  \A c \in clients : \A j, k \in 1..Len(client[c].writeBuffer) :
    client[c].writeBuffer[j].code = "001" /\ client[c].writeBuffer[k].code = "001"
      => j = k

\* PRIVMSG with a text to the nickname a connected client holds is forwarded
\* to that client; only channels are turned away.  handlePrivMsg tells a
\* channel by the '#' in front, which handleNick accepts in a nickname.
NicknameReachable ==
  [][\A c, d \in clients : \A cmd \in Cmds :
       (/\ runCommand(c, cmd)
        /\ isRegistered(c)
        /\ cmd.command = "PRIVMSG"
        /\ hasText(cmd.params)
        /\ cmd.params[1] = client[d].nickname)
       => Adds(d) /\ Added(d).code = "PRIVMSG"]_vars
=============================================================================
