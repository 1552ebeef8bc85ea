---------------------------- MODULE ProcessProofs ----------------------------
(***************************************************************************)
(* Proofs about Process: the process as main runs it implements Server,    *)
(* keeps what is proved of the loop and of the commands, and serves what   *)
(* it was asked to serve, for any arguments and with signals at any        *)
(* moment.                                                                 *)
(***************************************************************************)
EXTENDS Process, ServerProofs

\* The state main is in until initServer has run: nothing is set up, but a
\* signal may have been recorded.
Before ==
  /\ boundPort = 0
  /\ C!Init
  /\ readBuffer = [fd \in Fds |-> <<>>]
  /\ i = 1
  /\ pc = "loop"
  /\ signal \in BOOLEAN
  /\ due = {}

\* The arguments have passed the checks.
Accepted ==
  /\ args.password = Password
  /\ acceptsPort(atoi(args.port))

\* The handlers that are installed are the first of Signals.
Prefixes == {SubSeq(Signals, 1, n) : n \in 0..Len(Signals)}

\* The inductive invariant.
ProcInv ==
  /\ args \in Arguments
  /\ phase \in Phases
  /\ handlers \in Prefixes
  /\ boundPort \in {0} \cup 1024..MaxPort
  /\ phase \in {"arguments", "signals", "init"} => Before
  /\ phase \in {"signals", "init", "running"} => Accepted
  /\ phase = "arguments" => handlers = <<>>
  /\ phase = "signals" => Len(handlers) < Len(Signals)
  /\ phase = "running" => boundPort = atoi(args.port) /\ LoopInv /\ P!IInv

-----------------------------------------------------------------------------
(***************************************************************************)
(* The invariant.                                                          *)
(***************************************************************************)

\* The numbers main accepts fit the 16 bits of the constructor of Server.
LEMMA NarrowingIsExact ==
  ASSUME args \in Arguments, acceptsPort(atoi(args.port))
  PROVE  /\ uint16(atoi(args.port)) = atoi(args.port)
         /\ atoi(args.port) \in 1024..MaxPort
<1>1. atoi(args.port) \in Int
  BY ProcessAssumption DEF atoi
<1>2. MaxPort \in Nat
  BY DEF MaxPort
<1>3. atoi(args.port) \in 1024..MaxPort
  BY <1>1, <1>2 DEF acceptsPort
<1>4. \A n \in 1024..MaxPort : n % (MaxPort + 1) = n
  BY <1>2
<1> QED
  BY <1>3, <1>4 DEF uint16

\* Installing a handler makes the next prefix of Signals.
LEMMA NextPrefix ==
  ASSUME NEW h \in Prefixes, Len(h) < Len(Signals)
  PROVE  LET next == Append(h, Signals[Len(h) + 1])
         IN  next \in Prefixes /\ (Len(next) # Len(Signals) => Len(next) < Len(Signals))
<1>1. Signals \in Seq({"SIGINT", "SIGQUIT", "SIGPIPE"}) /\ Len(Signals) = 3
  BY DEF Signals
<1>2. PICK n \in 0..3 : h = SubSeq(Signals, 1, n)
  BY <1>1 DEF Prefixes
<1>3. h \in Seq({"SIGINT", "SIGQUIT", "SIGPIPE"}) /\ Len(h) = n
  <2>1. \A k \in 1..n : Signals[k] \in {"SIGINT", "SIGQUIT", "SIGPIPE"}
    BY <1>1, ElementOfSeq
  <2> QED
    BY <1>1, <1>2, <2>1, SubSeqProperties
<1>4. n + 1 \in 1..Len(Signals) /\ (n + 1) - 1 = n
  BY <1>1, <1>3
<1>5. SubSeq(Signals, 1, n + 1) = h \o <<Signals[n + 1]>>
  BY <1>1, <1>2, <1>4, SubSeqRecursiveSecond
<1>6. Signals[n + 1] \in {"SIGINT", "SIGQUIT", "SIGPIPE"}
  BY <1>1, <1>4, ElementOfSeq
<1>7. /\ Append(h, Signals[n + 1]) = SubSeq(Signals, 1, n + 1)
      /\ Len(Append(h, Signals[n + 1])) = n + 1
  BY <1>3, <1>5, <1>6, AppendIsConcat, AppendProperties
<1> QED
  BY <1>1, <1>3, <1>4, <1>7 DEF Prefixes

\* A process that has installed no handler has one to install.
LEMMA NoneInstalled == \A h : h = <<>> => Len(h) < Len(Signals)
<1>1. Len(Signals) = 3
  BY DEF Signals
<1> QED
  BY <1>1, EmptySeq

\* The invariant holds at the first instruction.
LEMMA InitProc == ProcessInit => ProcInv
<1>1. <<>> \in Prefixes
  <2>1. SubSeq(Signals, 1, 0) = <<>>
    BY SubSeqEmpty
  <2>2. 0 \in 0..Len(Signals)
    BY DEF Signals
  <2> QED
    BY <2>1, <2>2 DEF Prefixes
<1> QED
  BY <1>1 DEF ProcessInit, ProcInv, Phases, Before

\* Only a port and a password that pass the checks go on.
LEMMA CheckArguments ==
  ASSUME ProcInv, checkArguments
  PROVE  ProcInv'
<1> USE DEF checkArguments
<1>1. UNCHANGED <<args, handlers, boundPort>> /\ UNCHANGED vars
  OBVIOUS
<1>2. Before'
  BY DEF ProcInv, Before, vars, loopVars, C!Init
<1>3. phase' = "signals" => Accepted'
  BY ProcessAssumption DEF ProcInv, Accepted
<1> QED
  BY <1>2, <1>3, NoneInstalled DEF ProcInv, Phases

\* One more handler, until there are all of them.
LEMMA InstallHandler ==
  ASSUME ProcInv, installHandler
  PROVE  ProcInv'
<1> USE DEF installHandler
<1>1. handlers \in Prefixes /\ Len(handlers) < Len(Signals)
  BY DEF ProcInv
<1>2. handlers' \in Prefixes /\ (phase' = "signals" => Len(handlers') < Len(Signals))
  BY <1>1, NextPrefix
<1>3. Before'
  BY DEF ProcInv, Before, vars, loopVars, C!Init
<1>4. Accepted'
  BY DEF ProcInv, Accepted
<1> QED
  BY <1>2, <1>3, <1>4 DEF ProcInv, Phases

\* The loop starts from a server without clients.
LEMMA InitServer ==
  ASSUME ProcInv, initServer
  PROVE  ProcInv'
<1> USE DEF initServer
<1>1. Fresh => LoopInv /\ P!IInv
  BY LoopInit, ClientsInit
<1>2. Fresh'
  BY DEF ProcInv, Before, Fresh, C!Init
<1>3. (Fresh => LoopInv /\ P!IInv)'
  BY LoopInit, ClientsInit, PTL
<1>4. boundPort' = atoi(args'.port) /\ boundPort' \in 1024..MaxPort
  BY NarrowingIsExact DEF ProcInv, Accepted
<1>5. Accepted'
  BY DEF ProcInv, Accepted
<1> QED
  BY <1>2, <1>3, <1>4, <1>5 DEF ProcInv, Phases

\* A step of the loop inside the process.
LEMMA LoopStepInv ==
  ASSUME ProcInv, phase = "running", Next, UNCHANGED mainVars
  PROVE  ProcInv'
<1>1. LoopInv' /\ P!IInv'
  BY LoopNext, ClientsNext DEF ProcInv
<1> QED
  BY <1>1 DEF ProcInv, mainVars, Accepted

\* A signal kills, or is recorded by the handler that is there.
LEMMA Raise ==
  ASSUME ProcInv, NEW sig, raise(sig)
  PROVE  ProcInv'
<1>1. CASE signalHandler /\ UNCHANGED mainVars
  <2>1. CASE phase = "running"
    BY <1>1, <2>1, LoopStepInv DEF Next
  <2>2. CASE phase # "running"
    <3>1. phase \in {"arguments", "signals", "init"} => Before'
      BY <1>1 DEF ProcInv, Before, signalHandler, mainVars, C!Init
    <3> QED
      BY <1>1, <2>2, <3>1 DEF ProcInv, mainVars, Accepted
  <2> QED
    BY <2>1, <2>2
<1>2. CASE phase' = "killed" /\ UNCHANGED <<args, handlers, boundPort>>
  BY <1>2 DEF ProcInv, Phases
<1> QED
  BY <1>1, <1>2 DEF raise

\* Every step of the process preserves the invariant.
LEMMA ProcNext == ProcInv /\ [ProcessNext]_<<mainVars, vars>> => ProcInv'
<1> SUFFICES ASSUME ProcInv, [ProcessNext]_<<mainVars, vars>> PROVE ProcInv'
  OBVIOUS
<1>1. CASE initServerFails \/ returnFromMain
  BY <1>1 DEF initServerFails, returnFromMain, ProcInv, Phases
<1>2. CASE runServer
  BY <1>2, LoopStepInv DEF runServer, Next
<1>3. CASE kernel
  BY <1>3, LoopStepInv DEF kernel, Next
<1>4. ASSUME NEW sig, raise(sig) PROVE ProcInv'
  BY <1>4, Raise
<1>5. CASE UNCHANGED <<mainVars, vars>>
  <2>1. CASE phase = "running"
    <3>1. LoopInv' /\ P!IInv'
      BY <1>5, <2>1, LoopNext, ClientsNext DEF ProcInv
    <3> QED
      BY <1>5, <2>1, <3>1 DEF ProcInv, mainVars, Accepted
  <2>2. CASE phase # "running"
    <3>1. Before => Before'
      BY <1>5 DEF Before, mainVars, vars, loopVars, C!Init
    <3> QED
      BY <1>5, <2>2, <3>1 DEF ProcInv, mainVars, Accepted
  <2> QED
    BY <2>1, <2>2
<1> QED
  BY <1>1, <1>2, <1>3, <1>4, <1>5, CheckArguments, InstallHandler, InitServer
  DEF ProcessNext, main

\* The inductive invariant of the process; in it, that of the loop.
THEOREM ProcessInvariance == ProcessSpec => []ProcInv
  BY InitProc, ProcNext, PTL DEF ProcessSpec

\* Every variable of the process keeps its type, and a socket is bound only to a
\* port that needs no privilege.
THEOREM ProcessTypeCorrect == ProcessSpec => []ProcessTypeOK
<1>1. ProcInv => ProcessTypeOK
  BY LoopTypes DEF ProcInv, ProcessTypeOK, Prefixes
<1> QED
  BY <1>1, ProcessInvariance, PTL

\* The server that runs has the password and the port main was given.
THEOREM RequestServed == ProcessSpec => []ServesAsRequested
<1>1. ProcInv => ServesAsRequested
  BY DEF ProcInv, ServesAsRequested, Accepted
<1> QED
  BY <1>1, ProcessInvariance, PTL

-----------------------------------------------------------------------------
(***************************************************************************)
(* The process implements Server.                                          *)
(***************************************************************************)

\* What S does to the clients is what the process does to them.
LEMMA SameClients ==
  /\ C!Init => S!C!Init
  /\ \A c \in Fds : C!acceptClient(c) => S!C!acceptClient(c)
  /\ \A c \in Fds : C!clearClient(c) => S!C!clearClient(c)
  /\ \A c \in Fds : \A cmd : C!processCommand(c, cmd) => S!C!processCommand(c, cmd)
<1>1. C!Init => S!C!Init
  BY DEF C!Init, S!C!Init, C!NewClient, S!C!NewClient
<1>2. ASSUME NEW c \in Fds
      PROVE  /\ C!acceptClient(c) => S!C!acceptClient(c)
             /\ C!clearClient(c) => S!C!clearClient(c)
  BY DEF C!acceptClient, S!C!acceptClient, C!clearClient, S!C!clearClient,
         C!NewClient, S!C!NewClient
<1>3. ASSUME NEW c \in Fds, NEW cmd
      PROVE  C!processCommand(c, cmd) => S!C!processCommand(c, cmd)
  BY Zenon
  DEF C!processCommand, S!C!processCommand, C!handlePass, S!C!handlePass,
      C!nickReply, S!C!nickReply, C!handleNick, S!C!handleNick, C!handleUser,
      S!C!handleUser, C!handlePing, S!C!handlePing, C!handlePong, S!C!handlePong,
      C!handleQuit, S!C!handleQuit, C!hasText, S!C!hasText, C!handlePrivMsg,
      S!C!handlePrivMsg, C!Topic, S!C!Topic, C!Join, S!C!Join, C!isChannelCommand,
      S!C!isChannelCommand, C!registeredCommand, S!C!registeredCommand, C!reply,
      S!C!reply, C!ServerMsg, S!C!ServerMsg, C!UserMsg, S!C!UserMsg,
      C!isRegistered, S!C!isRegistered, C!isNicknameTaken,
      S!C!isNicknameTaken, C!getClientByNick, S!C!getClientByNick
<1> QED
  BY <1>1, <1>2, <1>3

\* Once initServer has run S sees the variables themselves.
LEMMA SameLoop ==
  ASSUME serverPollfds = pollfds, serverPollfds' = pollfds',
         serverOpen = open, serverOpen' = open',
         Next
  PROVE  S!Next
<1> USE DEF S!Entry, Entry, S!Events, Events, S!newPollfd, newPollfd,
            S!scanning, scanning, S!writing, writing, S!nextEntry, nextEntry,
            S!toWrite, toWrite, S!handled, handled, S!without, without
<1>1. CASE startRound
  <2>1. S!startRound
    BY <1>1 DEF startRound, S!startRound
  <2> QED
    BY <2>1 DEF S!Next, S!LoopStep
<1>2. CASE leaveLoop \/ endRound \/ closeAll \/ acceptFails \/ nothingToAccept
  <2>1. S!leaveLoop \/ S!endRound \/ S!closeAll \/ S!acceptFails \/ S!nothingToAccept
    BY <1>2 DEF leaveLoop, S!leaveLoop, endRound, S!endRound, closeAll, S!closeAll,
       acceptFails, S!acceptFails, nothingToAccept, S!nothingToAccept
  <2> QED
    BY <2>1 DEF S!Next, S!LoopStep
<1>3. ASSUME NEW fd \in Fds, acceptClient(fd) PROVE S!Next
  <2>1. S!acceptClient(fd)
    BY <1>3, SameClients DEF acceptClient, S!acceptClient
  <2> QED
    BY <2>1 DEF S!Next, S!LoopStep
<1>4. ASSUME NEW fd \in Fds, dropCurrent(fd) PROVE S!dropCurrent(fd)
  BY <1>4, SameClients DEF dropCurrent, S!dropCurrent
<1>5. ASSUME NEW fd \in Fds, hangUp(fd) PROVE S!Next
  <2>1. S!hangUp(fd)
    BY <1>4, <1>5 DEF hangUp, S!hangUp
  <2> QED
    BY <2>1 DEF S!Next, S!LoopStep
<1>6. ASSUME NEW fd \in Fds,
             recvAgain(fd) \/ nothingToRead(fd) \/ commandsDone(fd) \/ notWritable(fd)
      PROVE  S!Next
  <2>1. S!recvAgain(fd) \/ S!nothingToRead(fd) \/ S!commandsDone(fd) \/ S!notWritable(fd)
    BY <1>6 DEF recvAgain, S!recvAgain, nothingToRead, S!nothingToRead,
       commandsDone, S!commandsDone, notWritable, S!notWritable
  <2> QED
    BY <2>1 DEF S!Next, S!LoopStep
<1>7. ASSUME NEW fd \in Fds, NEW batch \in Batches, recvData(fd, batch) PROVE S!Next
  <2>1. S!recvData(fd, batch)
    BY <1>7 DEF recvData, S!recvData
  <2> QED
    BY <2>1 DEF S!Next, S!LoopStep
<1>8. ASSUME NEW fd \in Fds, runCommand(fd) PROVE S!Next
  <2>1. S!runCommand(fd)
    BY <1>8, SameClients DEF runCommand, S!runCommand
  <2> QED
    BY <2>1 DEF S!Next, S!LoopStep
<1>9. ASSUME NEW fd \in Fds, NEW sent \in 0..Len(client[fd].writeBuffer),
             sendData(fd, sent)
      PROVE  S!Next
  <2>1. S!sendData(fd, sent)
    BY <1>4, <1>9 DEF sendData, S!sendData
  <2> QED
    BY <2>1 DEF S!Next, S!LoopStep
<1>10. CASE poll
  <2>1. PICK ready \in [DOMAIN pollfds -> SUBSET Events] : pollReturns(ready)
    BY <1>10 DEF poll
  <2>2. ready \in [DOMAIN serverPollfds -> SUBSET S!Events] /\ S!pollReturns(ready)
    BY <2>1 DEF pollReturns, S!pollReturns
  <2> QED
    BY <2>2 DEF S!Next, S!poll
<1>11. CASE pollFails \/ signalHandler
  <2>1. S!pollFails \/ S!signalHandler
    BY <1>11 DEF pollFails, S!pollFails, signalHandler, S!signalHandler
  <2> QED
    BY <2>1 DEF S!Next
<1> QED
  BY <1>1, <1>2, <1>3, <1>5, <1>6, <1>7, <1>8, <1>9, <1>10, <1>11 DEF Next, LoopStep

\* The steps of main up to initServer change nothing that S sees; in a step of
\* the loop the socket is bound before and after.
LEMMA ProcessSimulation ==
  ProcInv /\ [ProcessNext]_<<mainVars, vars>> => [S!Next]_(S!vars)
<1> SUFFICES ASSUME ProcInv, [ProcessNext]_<<mainVars, vars>> PROVE [S!Next]_(S!vars)
  OBVIOUS
<1> USE DEF S!vars, S!loopVars
<1>1. ASSUME UNCHANGED vars, UNCHANGED boundPort PROVE UNCHANGED S!vars
  BY <1>1 DEF vars, loopVars, serverPollfds, serverOpen
<1>2. CASE checkArguments \/ installHandler \/ returnFromMain
  BY <1>1, <1>2 DEF checkArguments, installHandler, returnFromMain
<1>3. CASE UNCHANGED <<mainVars, vars>>
  BY <1>1, <1>3 DEF mainVars
<1>4. CASE initServer
  <2>1. boundPort = 0 /\ boundPort' # 0
    BY <1>4, NarrowingIsExact DEF initServer, ProcInv, Before, Accepted
  <2>2. serverPollfds' = serverPollfds /\ serverOpen' = serverOpen
    BY <1>4, <2>1 DEF initServer, serverPollfds, serverOpen, newPollfd
  <2> QED
    BY <1>4, <2>2 DEF initServer
<1>5. CASE initServerFails
  <2>1. boundPort = 0 /\ boundPort' = 0
    BY <1>5 DEF initServerFails, ProcInv, Before
  <2>2. serverPollfds' = serverPollfds /\ serverOpen' = serverOpen
    BY <2>1 DEF serverPollfds, serverOpen, newPollfd
  <2> QED
    BY <1>5, <2>2 DEF initServerFails
<1>6. ASSUME phase = "running", Next, UNCHANGED mainVars PROVE S!Next
  <2>1. boundPort # 0 /\ boundPort' # 0
    BY <1>6, NarrowingIsExact DEF ProcInv, Accepted, mainVars
  <2>2. /\ serverPollfds = pollfds /\ serverPollfds' = pollfds'
        /\ serverOpen = open /\ serverOpen' = open'
    BY <2>1 DEF serverPollfds, serverOpen
  <2> QED
    BY <1>6, <2>2, SameLoop
<1>7. CASE runServer \/ kernel
  BY <1>6, <1>7 DEF runServer, kernel, Next
<1>8. ASSUME signalHandler, UNCHANGED mainVars PROVE S!Next
  <2>1. serverPollfds' = serverPollfds /\ serverOpen' = serverOpen
    BY <1>8 DEF signalHandler, mainVars, serverPollfds, serverOpen, newPollfd
  <2>2. S!signalHandler
    BY <1>8, <2>1 DEF signalHandler, S!signalHandler
  <2> QED
    BY <2>2 DEF S!Next
<1>9. ASSUME NEW sig, raise(sig) PROVE [S!Next]_(S!vars)
  BY <1>1, <1>8, <1>9 DEF raise
<1> QED
  BY <1>2, <1>3, <1>4, <1>5, <1>7, <1>9 DEF ProcessNext, main

\* From its first instruction on the process does what Server allows: whatever
\* signals come before it, initServer leaves the state the loop starts from.
THEOREM ProcessImplementsServer == ProcessSpec => ServerSpec
<1>1. ProcessInit => S!Init
  BY SameClients DEF ProcessInit, S!Init, serverPollfds, serverOpen, newPollfd, S!newPollfd
<1> QED
  BY <1>1, ProcessInvariance, ProcessSimulation, PTL DEF ProcessSpec, ServerSpec
-----------------------------------------------------------------------------
(***************************************************************************)
(* What is proved of the loop and of the commands holds in the process.    *)
(***************************************************************************)

\* A step of the process that touches the state of the loop is one of the loop,
\* or lies before it: then clients and read buffers stay as they are and no
\* scan is under way.
LEMMA StepOfProcess ==
  ASSUME ProcInv, [ProcessNext]_<<mainVars, vars>>
  PROVE  \/ phase = "running" /\ LoopInv /\ [Next]_vars
         \/ pc = "loop" /\ UNCHANGED <<clients, client, readBuffer, pc>>
         \/ UNCHANGED vars
<1>1. CASE UNCHANGED <<mainVars, vars>> \/ checkArguments \/ installHandler \/ returnFromMain
  BY <1>1 DEF checkArguments, installHandler, returnFromMain
<1>2. CASE initServer \/ initServerFails
  BY <1>2 DEF initServer, initServerFails, ProcInv, Before
<1>3. CASE runServer \/ kernel
  BY <1>3 DEF runServer, kernel, ProcInv, Next
<1>4. ASSUME NEW sig, raise(sig)
      PROVE  \/ phase = "running" /\ LoopInv /\ [Next]_vars
             \/ pc = "loop" /\ UNCHANGED <<clients, client, readBuffer, pc>>
             \/ UNCHANGED vars
  <2>1. CASE signalHandler
    <3>1. CASE phase = "running"
      BY <2>1, <3>1 DEF ProcInv, Next
    <3>2. CASE phase # "running"
      BY <1>4, <2>1, <3>2 DEF raise, ProcInv, Before, Phases, signalHandler
    <3> QED
      BY <3>1, <3>2
  <2>2. CASE ~signalHandler
    BY <1>4, <2>2 DEF raise
  <2> QED
    BY <2>1, <2>2
<1> QED
  BY <1>1, <1>2, <1>3, <1>4 DEF ProcessNext, main

\* The process implements Commands: what main does before the loop and behind
\* it touches no client.
THEOREM ProcessImplementsCommands == ProcessSpec => CommandsSpec
<1>1. ProcessInit => C!Init
  BY DEF ProcessInit
<1>2. ProcInv /\ [ProcessNext]_<<mainVars, vars>> => [C!Next]_(C!vars)
  <2>1. UNCHANGED <<clients, client>> => [C!Next]_(C!vars)
    BY DEF C!vars
  <2>2. UNCHANGED vars => UNCHANGED <<clients, client>>
    BY DEF vars
  <2> QED
    BY <2>1, <2>2, StepOfProcess, StepSimulation
<1> QED
  BY <1>1, <1>2, ProcessInvariance, PTL DEF ProcessSpec, CommandsSpec, C!Spec

\* Every connection keeps the promise of Inbox from the first instruction of
\* main to its last.
THEOREM ProcessKeepsInbox == ProcessSpec => InboxSpec
<1>1. ProcessInit => \A fd \in Fds : Inbox(fd)!Init
  BY DEF ProcessInit, Inbox!Init
<1>2. ProcInv /\ [ProcessNext]_<<mainVars, vars>> =>
        [\A fd \in Fds : [Inbox(fd)!Next]_(readBuffer[fd])]_readBuffer
  <2>1. UNCHANGED vars => UNCHANGED readBuffer
    BY DEF vars, loopVars
  <2>2. LoopInv /\ [Next]_vars => \A fd \in Fds : [Inbox(fd)!Next]_(readBuffer[fd])
    BY InboxStep
  <2> QED
    BY <2>1, <2>2, StepOfProcess
<1> QED
  BY <1>1, <1>2, ProcessInvariance, PTL DEF ProcessSpec, InboxSpec

\* What is promised of the commands is promised of the process: unique
\* nicknames, no identity without the password, a name on every private message,
\* output for every client that is to leave, one welcome for each registration,
\* nothing under an identity nobody has, and output in order.
THEOREM ProcessServesClients ==
  ProcessSpec =>
    /\ [](/\ P!NickUnique /\ P!DoomedHasOutput
          /\ P!IdentityNeedsPassword /\ P!SenderIdentified)
    /\ P!WelcomeOnRegistration
    /\ P!SourceIsLive
    /\ P!OutputIsFifo
<1>1. ProcessSpec => P!Spec
  <2>1. ProcessInit => P!Init
    BY DEF ProcessInit, C!Init, P!Init, C!NewClient, P!NewClient
  <2>2. [C!Next]_(C!vars) => [P!Next]_(P!vars)
    BY SameStep
  <2> QED
    BY <2>1, <2>2, ProcessImplementsCommands, PTL DEF ProcessSpec, CommandsSpec, C!Spec, P!Spec
<1> QED
  BY <1>1, SameAssumption, P!NicknamesUnique, P!DoomedReachable, P!PasswordFirst,
     P!SendersIdentified, P!WelcomedWhenRegistered, P!SourcesLive, P!OutputQueued, PTL

\* While the server runs, the loop's invariants hold, after any start of main
\* and any signals in the middle of it; and every scan gets on.
THEOREM ProcessKeepsLoop ==
  ProcessSpec =>
    /\ [](phase = "running" =>
            /\ PollSetMatchesClients /\ RoundServesEachEventOnce
            /\ NoCommandLeftBehind /\ NoDescriptorLeak /\ PollAsksForMarked)
    /\ RoundProgress
<1>1. ProcInv /\ phase = "running" =>
        /\ PollSetMatchesClients /\ RoundServesEachEventOnce
        /\ NoCommandLeftBehind /\ NoDescriptorLeak
  BY OwedIsAhead DEF ProcInv, LoopInv
<1>2. ProcessInit => AsksWhereOutputWaits
  BY DEF ProcessInit, AsksWhereOutputWaits
<1>3. ProcInv /\ AsksWhereOutputWaits /\ [ProcessNext]_<<mainVars, vars>> =>
        AsksWhereOutputWaits'
  <2>1. pc = "loop" /\ UNCHANGED pc => AsksWhereOutputWaits'
    BY DEF AsksWhereOutputWaits
  <2>2. AsksWhereOutputWaits /\ UNCHANGED vars => AsksWhereOutputWaits'
    BY DEF AsksWhereOutputWaits, vars, loopVars
  <2> QED
    BY <2>1, <2>2, StepOfProcess, AskingNext
<1>4. ProcInv /\ AsksWhereOutputWaits /\ phase = "running" => PollAsksForMarked
  BY MarkedAsked DEF ProcInv
<1>5. ProcInv /\ [ProcessNext]_<<mainVars, vars>> =>
        [(/\ pc \in {"scan", "commands", "write"}
          /\ LoopStep
          /\ ~endRound)
          => RoundShrinks]_vars
  BY StepOfProcess, RoundStep
<1> QED
  BY <1>1, <1>2, <1>3, <1>4, <1>5, ProcessInvariance, PTL DEF ProcessSpec, RoundProgress
=============================================================================
