------------------------------- MODULE Server -------------------------------
(***************************************************************************)
(* The poll loop of ircserv (src/src/Server.cpp): Server::runServer with   *)
(* acceptClient, receiveData, clearClient, closeAll and the signal         *)
(* handler, one action per stretch of code between two points where the    *)
(* kernel answers or a signal may be noticed.  The commands it runs are    *)
(* those of module Commands, whose specification it implements.            *)
(*                                                                         *)
(* The kernel is nondeterministic: poll reports any requested events,      *)
(* accept, recv and send have every outcome the code distinguishes.        *)
(***************************************************************************)
EXTENDS Naturals, Sequences

CONSTANTS
  Fds, Words, ChannelWords, Password, Cmds,  \* as in Commands
  ServerSocket,  \* the listening descriptor
  Batches        \* what one recv() may complete: a sequence of commands

VARIABLES
  clients,     \* keys of _clients
  client,      \* the Client of each key
  readBuffer,  \* the complete commands waiting in each client's _readBuffer
  pollfds,     \* _pollfds: fd, requested events, reported revents
  i,           \* the index of the scan over _pollfds
  pc,          \* where in runServer the thread is
  signal,      \* Server::_signal
  open,        \* the sockets open in the kernel
  due          \* history: the events poll reported that are not acted on yet

loopVars == <<readBuffer, pollfds, i, pc, signal, open, due>>
vars == <<clients, client, loopVars>>

C == INSTANCE Commands WITH clients <- clients, client <- client

ASSUME ServerAssumption ==
  /\ ServerSocket \notin Fds
  /\ Batches \subseteq Seq(Cmds)
  /\ C!GoodConstants

Inbox(fd) == INSTANCE Inbox WITH Command <- Cmds, pending <- readBuffer[fd]

Events == {"IN", "OUT"}
Places == {"loop", "poll", "scan", "commands", "write", "closing", "stopped"}

Pollfd == [fd : Fds \cup {ServerSocket},
           events : SUBSET Events, revents : SUBSET Events]

newPollfd(fd) == [fd |-> fd, events |-> {"IN"}, revents |-> {}]

Entry == pollfds[i]

\* Mutant: the entry behind the k-th is erased.
withoutNext(k) == SubSeq(pollfds, 1, k) \o SubSeq(pollfds, k + 2, Len(pollfds))

\* _pollfds without its k-th entry; the later ones shift left.
without(k) == SubSeq(pollfds, 1, k - 1) \o SubSeq(pollfds, k + 1, Len(pollfds))

Init ==
  /\ C!Init
  /\ readBuffer = [fd \in Fds |-> <<>>]
  /\ pollfds = <<newPollfd(ServerSocket)>>
  /\ i = 1
  /\ pc = "loop"
  /\ signal = FALSE
  /\ open = {ServerSocket}
  /\ due = {}

-----------------------------------------------------------------------------
(***************************************************************************)
(* The round: arm, poll, scan.                                             *)
(***************************************************************************)

\* Mutant: only clients marked for disconnection are asked about POLLOUT.
startRoundForMarked ==
  /\ pc = "loop"
  /\ ~signal
  /\ pollfds' = [k \in DOMAIN pollfds |->
       [pollfds[k] EXCEPT !.events =
          IF \/ pollfds[k].fd = ServerSocket
             \/ ~client[pollfds[k].fd].shouldDisconnect
          THEN {"IN"} ELSE {"IN", "OUT"}]]
  /\ pc' = "poll"
  /\ UNCHANGED <<clients, client, readBuffer, i, signal, open, due>>

\* Mutant: the loop does not look at _signal.
startRoundAnyway ==
  /\ pc = "loop"
  /\ pollfds' = [k \in DOMAIN pollfds |->
       [pollfds[k] EXCEPT !.events = {"IN", "OUT"}]]
  /\ pc' = "poll"
  /\ UNCHANGED <<clients, client, readBuffer, i, signal, open, due>>

\* while (!_signal): request POLLOUT exactly where output waits.
startRound ==
  /\ pc = "loop"
  /\ ~signal
  /\ pollfds' = [k \in DOMAIN pollfds |->
       [pollfds[k] EXCEPT !.events =
          IF \/ pollfds[k].fd = ServerSocket
             \/ client[pollfds[k].fd].writeBuffer = <<>>
          THEN {"IN"} ELSE {"IN", "OUT"}]]
  /\ pc' = "poll"
  /\ UNCHANGED <<clients, client, readBuffer, i, signal, open, due>>

leaveLoop ==
  /\ pc = "loop"
  /\ signal
  /\ pc' = "closing"
  /\ UNCHANGED <<clients, client, readBuffer, pollfds, i, signal, open, due>>

\* poll(..., -1) returns when at least one requested event is there.
pollReturns(ready) ==
  /\ pc = "poll"
  /\ \A k \in DOMAIN pollfds : ready[k] \subseteq pollfds[k].events
  /\ \E k \in DOMAIN pollfds : ready[k] # {}
  /\ pollfds' = [k \in DOMAIN pollfds |-> [pollfds[k] EXCEPT !.revents = ready[k]]]
  /\ due' = UNION {{pollfds[k].fd} \X ready[k] : k \in DOMAIN pollfds}
  /\ i' = 1
  /\ pc' = "scan"
  /\ UNCHANGED <<clients, client, readBuffer, signal, open>>

poll == \E ready \in [DOMAIN pollfds -> SUBSET Events] : pollReturns(ready)

\* poll fails; the loop ends, whatever the error.
pollFails ==
  /\ pc = "poll"
  /\ pc' = "closing"
  /\ UNCHANGED <<clients, client, readBuffer, pollfds, i, signal, open, due>>

\* SIGINT or SIGQUIT.  It interrupts a poll in progress, which then fails; one
\* that arrives after the loop tested _signal and before poll blocks is only
\* recorded.
signalHandler ==
  /\ pc # "stopped"
  /\ signal' = TRUE
  /\ \/ pc' = pc
     \/ pc = "poll" /\ pc' = "closing"
  /\ UNCHANGED <<clients, client, readBuffer, pollfds, i, open, due>>

scanning(fd) == pc = "scan" /\ i <= Len(pollfds) /\ Entry.fd = fd

\* Go on with the next entry, or with the POLLOUT half of this one.
nextEntry == i' = i + 1 /\ pc' = "scan"
toWrite == i' = i /\ pc' = "write"

handled(fd, event) == due' = due \ {<<fd, event>>}

endRound ==
  /\ pc = "scan"
  /\ i > Len(pollfds)
  /\ pc' = "loop"
  /\ UNCHANGED <<clients, client, readBuffer, pollfds, i, signal, open, due>>

-----------------------------------------------------------------------------
(***************************************************************************)
(* Accepting and dropping clients.                                         *)
(***************************************************************************)

\* A new client joins _clients and the end of _pollfds; the running scan will
\* reach it and find no events.
acceptClient(fd) ==
  /\ scanning(ServerSocket)
  /\ "IN" \in Entry.revents
  /\ fd \in Fds \ open
  /\ C!acceptClient(fd)
  /\ pollfds' = Append(pollfds, newPollfd(fd))
  /\ open' = open \cup {fd}
  /\ handled(ServerSocket, "IN")
  /\ nextEntry
  /\ UNCHANGED <<readBuffer, signal>>

\* accept, fcntl or inet_ntop fails; a descriptor obtained is closed again.
acceptFails ==
  /\ scanning(ServerSocket)
  /\ "IN" \in Entry.revents
  /\ handled(ServerSocket, "IN")
  /\ nextEntry
  /\ UNCHANGED <<clients, client, readBuffer, pollfds, signal, open>>

nothingToAccept ==
  /\ scanning(ServerSocket)
  /\ "IN" \notin Entry.revents
  /\ nextEntry
  /\ UNCHANGED <<clients, client, readBuffer, pollfds, signal, open, due>>

\* Mutant: no i--, the entry that took this place is skipped.
dropCurrentAndSkip(fd) ==
  /\ C!clearClient(fd)
  /\ readBuffer' = [readBuffer EXCEPT ![fd] = <<>>]
  /\ pollfds' = without(i)
  /\ open' = open \ {fd}
  /\ due' = due \ ({fd} \X Events)
  /\ nextEntry

\* Mutant: no continue, the POLLOUT half is done on whatever is at i now.
dropCurrentAndWrite(fd) ==
  /\ C!clearClient(fd)
  /\ readBuffer' = [readBuffer EXCEPT ![fd] = <<>>]
  /\ pollfds' = without(i)
  /\ open' = open \ {fd}
  /\ due' = due \ ({fd} \X Events)
  /\ toWrite

\* Mutant: the socket is not closed.
dropCurrentUnclosed(fd) ==
  /\ C!clearClient(fd)
  /\ readBuffer' = [readBuffer EXCEPT ![fd] = <<>>]
  /\ pollfds' = without(i)
  /\ due' = due \ ({fd} \X Events)
  /\ i' = i
  /\ pc' = "scan"
  /\ UNCHANGED open

\* Server::clearClient(fd) for the entry under the scan, and the i-- that
\* makes the scan look again at this place, where the next entry now is.
dropCurrent(fd) ==
  /\ C!clearClient(fd)
  /\ readBuffer' = [readBuffer EXCEPT ![fd] = <<>>]
  /\ pollfds' = without(i)
  /\ open' = open \ {fd}
  /\ due' = due \ ({fd} \X Events)
  /\ i' = i
  /\ pc' = "scan"

-----------------------------------------------------------------------------
(***************************************************************************)
(* receiveData: one recv, then every complete command.                     *)
(***************************************************************************)

\* recv returns 0, or fails with anything but EAGAIN, EWOULDBLOCK or EINTR.
hangUp(fd) ==
  /\ scanning(fd)
  /\ "IN" \in Entry.revents
  /\ dropCurrent(fd)
  /\ UNCHANGED signal

recvAgain(fd) ==
  /\ scanning(fd)
  /\ "IN" \in Entry.revents
  /\ handled(fd, "IN")
  /\ toWrite
  /\ UNCHANGED <<clients, client, readBuffer, pollfds, signal, open>>

recvData(fd, batch) ==
  /\ scanning(fd)
  /\ "IN" \in Entry.revents
  /\ readBuffer' = [readBuffer EXCEPT ![fd] = @ \o batch]
  /\ handled(fd, "IN")
  /\ i' = i
  /\ pc' = "commands"
  /\ UNCHANGED <<clients, client, pollfds, signal, open>>

runCommand(fd) ==
  /\ pc = "commands"
  /\ fd = Entry.fd
  /\ readBuffer[fd] # <<>>
  /\ C!processCommand(fd, Head(readBuffer[fd]))
  /\ readBuffer' = [readBuffer EXCEPT ![fd] = Tail(@)]
  /\ UNCHANGED <<clients, pollfds, i, pc, signal, open, due>>

\* Mutant: an if in the place of the while.
commandsDoneEarly(fd) ==
  /\ pc = "commands"
  /\ fd = Entry.fd
  /\ toWrite
  /\ UNCHANGED <<clients, client, readBuffer, pollfds, signal, open, due>>

commandsDone(fd) ==
  /\ pc = "commands"
  /\ fd = Entry.fd
  /\ readBuffer[fd] = <<>>
  /\ toWrite
  /\ UNCHANGED <<clients, client, readBuffer, pollfds, signal, open, due>>

nothingToRead(fd) ==
  /\ scanning(fd)
  /\ "IN" \notin Entry.revents
  /\ toWrite
  /\ UNCHANGED <<clients, client, readBuffer, pollfds, signal, open, due>>

-----------------------------------------------------------------------------
(***************************************************************************)
(* The POLLOUT half of an entry.                                           *)
(***************************************************************************)

writing(fd) == pc = "write" /\ fd = Entry.fd

\* Mutant: the index is not advanced on this path.
notWritableStays(fd) ==
  /\ writing(fd)
  /\ "OUT" \notin Entry.revents
  /\ i' = i
  /\ pc' = "scan"
  /\ UNCHANGED <<clients, client, readBuffer, pollfds, signal, open, due>>

notWritable(fd) ==
  /\ writing(fd)
  /\ "OUT" \notin Entry.revents
  /\ nextEntry
  /\ UNCHANGED <<clients, client, readBuffer, pollfds, signal, open, due>>

\* Mutant: a marked client stays after its last output.
sendDataKeepsMarked(fd, sent) ==
  /\ writing(fd)
  /\ "OUT" \in Entry.revents
  /\ client' = [client EXCEPT ![fd].writeBuffer = SubSeq(@, sent + 1, Len(@))]
  /\ handled(fd, "OUT")
  /\ nextEntry
  /\ UNCHANGED <<clients, readBuffer, pollfds, signal, open>>

\* send() takes the first sent messages; -1 and 0 take none.  The client goes
\* if its buffer is empty and it is marked for disconnection.
sendData(fd, sent) ==
  /\ writing(fd)
  /\ "OUT" \in Entry.revents
  /\ LET buffer == client[fd].writeBuffer
         rest == SubSeq(buffer, sent + 1, Len(buffer))
     IN \/ /\ rest = <<>>
           /\ client[fd].shouldDisconnect
           /\ dropCurrent(fd)
        \/ /\ rest # <<>> \/ ~client[fd].shouldDisconnect
           /\ client' = [client EXCEPT ![fd].writeBuffer = rest]
           /\ handled(fd, "OUT")
           /\ nextEntry
           /\ UNCHANGED <<clients, readBuffer, pollfds, open>>
  /\ UNCHANGED signal

-----------------------------------------------------------------------------
\* After the loop: every socket is closed and the process ends.
closeAll ==
  /\ pc = "closing"
  /\ open' = open \ (clients \cup {ServerSocket})
  /\ pc' = "stopped"
  /\ UNCHANGED <<clients, client, readBuffer, pollfds, i, signal, due>>

\* What the thread does by itself; poll waits for the outside world.
LoopStep ==
  \/ startRound \/ leaveLoop \/ endRound \/ closeAll
  \/ acceptFails \/ nothingToAccept
  \/ \E fd \in Fds :
       \/ acceptClient(fd)
       \/ hangUp(fd) \/ recvAgain(fd) \/ nothingToRead(fd)
       \/ \E batch \in Batches : recvData(fd, batch)
       \/ runCommand(fd) \/ commandsDone(fd)
       \/ notWritable(fd)
       \/ \E sent \in 0..Len(client[fd].writeBuffer) : sendData(fd, sent)

Next == LoopStep \/ poll \/ pollFails \/ signalHandler

\* The thread is never suspended for ever; nothing is assumed of the network.
Spec == Init /\ [][Next]_vars /\ WF_vars(LoopStep)

\* A peer that keeps reading: when the server keeps asking, poll reports its
\* socket writable again and again, and send keeps taking all there is.
reportsWritable(fd) ==
  \E ready \in [DOMAIN pollfds -> SUBSET Events] :
    /\ \E k \in DOMAIN pollfds : pollfds[k].fd = fd /\ "OUT" \in ready[k]
    /\ pollReturns(ready)

sendAll(fd) == sendData(fd, Len(client[fd].writeBuffer))

PeersRead ==
  \A fd \in Fds : SF_vars(reportsWritable(fd)) /\ SF_vars(sendAll(fd))

-----------------------------------------------------------------------------
(***************************************************************************)
(* Properties.                                                             *)
(***************************************************************************)

\* Every variable has its type and, while an entry is under the scan, the
\* index is inside _pollfds.
TypeOK ==
  /\ C!TypeOK
  /\ readBuffer \in [Fds -> Seq(Cmds)]
  /\ pollfds \in Seq(Pollfd)
  /\ i \in Nat \ {0}
  /\ pc \in Places
  /\ signal \in BOOLEAN
  /\ open \subseteq Fds \cup {ServerSocket}
  /\ due \subseteq (Fds \cup {ServerSocket}) \X Events
  /\ pc \in {"commands", "write"} => i <= Len(pollfds) /\ Entry.fd \in Fds

\* _pollfds lists the listening socket first and then every client once: the
\* loop looks clients up with _clients[fd], which would make up an empty one
\* for a descriptor that has none, and a client not listed is never served.
PollSetMatchesClients ==
  /\ pollfds # <<>>
  /\ pollfds[1].fd = ServerSocket
  /\ \A k, l \in DOMAIN pollfds : pollfds[k].fd = pollfds[l].fd => k = l
  /\ {pollfds[k].fd : k \in DOMAIN pollfds} = clients \cup {ServerSocket}

\* The events of entry k that the scan has still to act on.
Outstanding(k) ==
  {pollfds[k].fd} \X (IF k = i /\ pc # "scan" THEN pollfds[k].revents \ {"IN"}
                      ELSE pollfds[k].revents)

\* A round acts on each event poll reported for a connection exactly once: what
\* lies ahead of the scan is what is still due, through entries erased under
\* it, entries appended to it, and descriptors closed in the same round.
RoundServesEachEventOnce ==
  pc \in {"loop", "scan", "commands", "write"} =>
    due = UNION {Outstanding(k) : k \in i..Len(pollfds)}

\* A complete command never waits for the network: poll would not report input
\* that has already been read.
NoCommandLeftBehind ==
  \A fd \in Fds :
    readBuffer[fd] # <<>> => pc = "commands" /\ Entry.fd = fd

\* When the loop goes to sleep in poll it has asked for POLLOUT on every client
\* marked for disconnection: only that answer drops the client, and the request
\* is made where output waits, which the handler that marks must leave there.
PollAsksForMarked ==
  pc = "poll" =>
    \A k \in DOMAIN pollfds :
      pollfds[k].fd \in clients /\ client[pollfds[k].fd].shouldDisconnect =>
        "OUT" \in pollfds[k].events

\* The open sockets are those of the clients and the listening one; none is
\* left when the server has stopped.
NoDescriptorLeak ==
  open = IF pc = "stopped" THEN {} ELSE clients \cup {ServerSocket}

\* The poll loop implements the abstract specification of the commands.
CommandsSpec == C!Spec

\* Every connection keeps the promise of Inbox: the commands of one read run
\* one by one and all of them before the next read; none is lost when the
\* client is dropped or the server stops.  This is Spec of Inbox for each
\* descriptor, the box drawn in front of the quantifier.
InboxSpec ==
  /\ \A fd \in Fds : Inbox(fd)!Init
  /\ [][\A fd \in Fds : [Inbox(fd)!Next]_(readBuffer[fd])]_readBuffer

\* No command waits for ever.
InboxDrains == \A fd \in Fds : Inbox(fd)!Drains

\* A round comes to its end, although acceptClient lengthens the vector under
\* the scan and a dropped client moves the index back.
RoundEnds == pc \in {"scan", "commands", "write"} ~> pc = "loop"

\* What is left of a round besides the events still due.
entriesAhead == Len(pollfds) + 1 - i
stage == CASE pc = "scan" -> 2 [] pc = "commands" -> 1 [] OTHER -> 0
commandsAhead == Len(readBuffer[Entry.fd])

RoundShrinks ==
  \/ due' \subseteq due /\ due' # due
  \/ /\ due' = due
     /\ \/ 0 <= entriesAhead' /\ entriesAhead' < entriesAhead
        \/ /\ entriesAhead' = entriesAhead
           /\ \/ stage' < stage
              \/ stage' = stage /\ commandsAhead' < commandsAhead

\* Why a round ends: whatever the kernel answers, each step of the scan acts on
\* an event poll reported, or, if on none, passes an entry, a half of an entry
\* or a command.  What acceptClient appends and the i-- takes back is paid for
\* by an event.
RoundProgress ==
  [][(/\ pc \in {"scan", "commands", "write"}
      /\ LoopStep
      /\ ~endRound)
      => RoundShrinks]_vars

\* If poll keeps returning, a signal stops the server, whatever it was doing
\* when the signal arrived.
ShutdownAfterSignal ==
  []<>(pc # "poll") => (signal ~> pc = "stopped")

\* If peers read, a client marked for disconnection is dropped, although only
\* the POLLOUT branch of the loop does it, and is dropped even while it keeps
\* sending commands that produce more output.
MarkedClientLeaves ==
  \A fd \in Fds :
    client[fd].shouldDisconnect ~> ~client[fd].shouldDisconnect \/ pc = "stopped"

\* If peers read, every buffer drains, also one filled by somebody else's
\* PRIVMSG after the scan has passed its owner.
OutputDrains ==
  \A fd \in Fds :
    client[fd].writeBuffer # <<>> ~> client[fd].writeBuffer = <<>> \/ pc = "stopped"

-----------------------------------------------------------------------------
\* What a comment says and the code does not do: a registered client whose
\* JOIN fails is sent the error message.  No channel exists, so each fails;
\* Join::execute throws before the try block that would send the message.
JoinAnswered ==
  [][\A fd \in clients :
       (/\ runCommand(fd)
        /\ C!isRegistered(fd)
        /\ Head(readBuffer[fd]).command = "JOIN"
        /\ Len(Head(readBuffer[fd]).params) = 1)
       => Len(client'[fd].writeBuffer) > Len(client[fd].writeBuffer)]_vars
=============================================================================
