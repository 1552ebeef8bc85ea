------------------------------ MODULE MCServer ------------------------------
(***************************************************************************)
(* Small instances of Server for TLC.  MaxOut bounds the messages one      *)
(* write buffer holds, with those the commands already read will add.      *)
(***************************************************************************)
EXTENDS Server, TLC

CONSTANT MaxOut

cmd(name, params) == [command |-> name, params |-> params]

MCWords == {"ann", "bob", "pass", "hi"}

pass == cmd("PASS", <<"pass">>)
wrong == cmd("PASS", <<"hi">>)
user == cmd("USER", <<"hi", "hi", "hi", "">>)
nick(name) == cmd("NICK", <<name>>)
privmsg == cmd("PRIVMSG", <<"ann", "hi">>)
quit == cmd("QUIT", <<>>)

\* A client that fails to log in, and goes on sending.
LoginCmds == {pass, wrong}
LoginBatches == {<<>>, <<pass>>, <<wrong>>, <<wrong, pass>>}

\* Clients that log in and write to each other.
ChatCmds == {pass, user, nick("ann"), nick("bob"), privmsg, quit}
ChatBatches ==
  {<<pass, user>>, <<nick("ann")>>, <<nick("bob")>>, <<privmsg, quit>>}

\* Clients that have logged in write to each other and leave.
TalkCmds == {privmsg, quit}
TalkBatches == {<<privmsg>>, <<quit>>, <<quit, privmsg>>}

\* A client that has logged in joins a channel.
JoinCmds == {cmd("JOIN", <<"hi">>)}
JoinBatches == {<<cmd("JOIN", <<"hi">>)>>}

\* Whether line, run for d, appends its answer to c's buffer.
answers(d, line, c) ==
  IF /\ line.command = "PRIVMSG"
     /\ C!isRegistered(d)
     /\ C!isNicknameTaken(line.params[1])
  THEN c \in C!getClientByNick(line.params[1])
  ELSE c = d

\* Commands are read as long as every buffer they answer into has room, so the
\* bound never stops the loop between two commands of a batch.
BoundedNext ==
  /\ Next
  /\ \A c, d \in Fds :
       Len(client'[c].writeBuffer)
         + Len(SelectSeq(readBuffer'[d], LAMBDA line : answers(d, line, c))) <= MaxOut

BoundedSpec == Init /\ [][BoundedNext]_vars /\ WF_vars(LoopStep)

\* Without fairness nothing is lost if a command that has no room for its
\* output blocks the loop: for the run that checks safety only.
RoomyNext ==
  /\ Next
  /\ \A c \in Fds : Len(client'[c].writeBuffer) <= MaxOut

SafetySpec == Init /\ [][RoomyNext]_vars

\* A later start: ann and bob are registered and the loop is about to poll.
loggedIn(name) ==
  [C!NewClient EXCEPT !.nickname = name, !.username = "hi", !.isAuthenticated = TRUE]

ann == CHOOSE fd \in Fds : TRUE
bob == CHOOSE fd \in Fds \ {ann} : TRUE

TalkInit ==
  /\ clients = {ann, bob}
  /\ client = [fd \in Fds |-> loggedIn(IF fd = ann THEN "ann" ELSE "bob")]
  /\ readBuffer = [fd \in Fds |-> <<>>]
  /\ pollfds = <<newPollfd(ServerSocket), newPollfd(ann), newPollfd(bob)>>
  /\ i = 4
  /\ pc = "loop"
  /\ signal = FALSE
  /\ open = {ServerSocket, ann, bob}
  /\ due = {}

\* Whoever knocks is not accepted, and no signal comes; poll may still fail.
TalkNext ==
  /\ BoundedNext
  /\ clients' \subseteq clients
  /\ ~signal'

TalkSpec == TalkInit /\ [][TalkNext]_vars /\ WF_vars(LoopStep) /\ PeersRead

Symmetry == Permutations(Fds)
=============================================================================
