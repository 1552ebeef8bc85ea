------------------------------- MODULE Process -------------------------------
(***************************************************************************)
(* The whole process: main (src/src/main.cpp) checks its arguments,        *)
(* installs the signal handlers and calls Server::initServer; then the     *)
(* thread runs the poll loop of module Server and main returns.            *)
(*                                                                         *)
(* A signal may come at any time: before its handler is installed it kills *)
(* the process, after that it is recorded in Server::_signal, also when    *)
(* the loop has not started yet.                                           *)
(***************************************************************************)
EXTENDS Server, Integers

CONSTANT Arguments  \* the argument lists the program is started with

\* The first argument as main reads it: the number it starts with is
\* overflow * 2^32 + low, with low in the range of int; overflow is 0 for what
\* fits an int.
ASSUME ProcessAssumption ==
  \A a \in Arguments :
    /\ a.ac \in Nat
    /\ a.port.overflow \in Int /\ a.port.low \in Int
    /\ a.password \in {"", Password}

VARIABLES
  args,       \* ac and av of main
  phase,      \* where in main the thread is
  handlers,   \* the signals main has called signal() for, in that order
  boundPort   \* the port the listening socket is bound to, 0 for none

mainVars == <<args, phase, handlers, boundPort>>

Phases == {"arguments", "signals", "init", "running", "exited", "killed"}

Signals == <<"SIGINT", "SIGQUIT", "SIGPIPE">>

\* atoi keeps the low half of what strtol read; the standard leaves a number
\* that does not fit undefined.
atoi(text) == text.low

\* The largest port, which is the largest std::uint16_t.
MaxPort == 65535

\* Mutant: the lower end is not tested.
acceptsLowPort(port) == port # 0 /\ port <= MaxPort

\* Mutant: the upper end is not tested.
acceptsHighPort(port) == port >= 1024

acceptsPort(port) == port >= 1024 /\ port <= MaxPort

\* The constructor of Server takes a std::uint16_t.
uint16(port) == port % (MaxPort + 1)

ProcessInit ==
  /\ args \in Arguments
  /\ phase = "arguments"
  /\ handlers = <<>>
  /\ boundPort = 0
  /\ C!Init
  /\ readBuffer = [fd \in Fds |-> <<>>]
  /\ pollfds = <<>>
  /\ i = 1
  /\ pc = "loop"
  /\ signal = FALSE
  /\ open = {}
  /\ due = {}

checkArguments ==
  /\ phase = "arguments"
  /\ phase' = IF /\ args.ac = 3
                 /\ args.password # ""
                 /\ acceptsPort(atoi(args.port))
              THEN "signals" ELSE "exited"
  /\ UNCHANGED <<args, handlers, boundPort, vars>>

installHandler ==
  /\ phase = "signals"
  /\ handlers' = Append(handlers, Signals[Len(handlers) + 1])
  /\ phase' = IF Len(handlers') = Len(Signals) THEN "init" ELSE "signals"
  /\ UNCHANGED <<args, boundPort, vars>>

\* Mutant: the listening socket is not put into _pollfds.
initServerUnlisted ==
  /\ phase = "init"
  /\ phase' = "running"
  /\ boundPort' = uint16(atoi(args.port))
  /\ open' = {ServerSocket}
  /\ UNCHANGED <<args, handlers, clients, client, readBuffer, pollfds, i, pc, signal, due>>

initServer ==
  /\ phase = "init"
  /\ phase' = "running"
  /\ boundPort' = uint16(atoi(args.port))
  /\ open' = {ServerSocket}
  /\ pollfds' = <<newPollfd(ServerSocket)>>
  /\ UNCHANGED <<args, handlers, clients, client, readBuffer, i, pc, signal, due>>

\* The log file, socket, fcntl, bind or listen fails; from fcntl on the socket
\* is left to the end of the process.
initServerFails ==
  /\ phase = "init"
  /\ phase' = "exited"
  /\ open' \in {{}, {ServerSocket}}
  /\ UNCHANGED <<args, handlers, boundPort,
                 clients, client, readBuffer, pollfds, i, pc, signal, due>>

runServer == phase = "running" /\ LoopStep /\ UNCHANGED mainVars

returnFromMain ==
  /\ phase = "running"
  /\ pc = "stopped"
  /\ phase' = "exited"
  /\ UNCHANGED <<args, handlers, boundPort, vars>>

\* What the kernel does to the process.
kernel == phase = "running" /\ (poll \/ pollFails) /\ UNCHANGED mainVars

raised(sig) == \E k \in DOMAIN handlers : handlers[k] = sig

\* SIGINT or SIGQUIT.
raise(sig) ==
  /\ phase \notin {"exited", "killed"}
  /\ \/ /\ raised(sig)
        /\ signalHandler
        /\ UNCHANGED mainVars
     \/ /\ ~raised(sig)
        /\ phase' = "killed"
        /\ UNCHANGED <<args, handlers, boundPort, vars>>

main ==
  \/ checkArguments \/ installHandler \/ initServer \/ initServerFails
  \/ runServer \/ returnFromMain

ProcessNext == main \/ kernel \/ \E sig \in {"SIGINT", "SIGQUIT"} : raise(sig)

\* The thread runs on; nothing is assumed of the network or of signals.
ProcessSpec ==
  ProcessInit /\ [][ProcessNext]_<<mainVars, vars>> /\ WF_<<mainVars, vars>>(main)

-----------------------------------------------------------------------------
(***************************************************************************)
(* Properties.                                                             *)
(***************************************************************************)

\* Every variable has its type, and a socket is bound only to a port that
\* needs no privilege.
ProcessTypeOK ==
  /\ args \in Arguments
  /\ phase \in Phases
  /\ \E n \in 0..Len(Signals) : handlers = SubSeq(Signals, 1, n)
  /\ boundPort \in {0} \cup 1024..MaxPort
  /\ phase = "running" => TypeOK

\* The server that runs is the one that was asked for: it has a password, and
\* the port it is bound to is the number main converted, which the narrowing
\* to 16 bits must not change.
ServesAsRequested ==
  phase = "running" => args.password = Password /\ boundPort = atoi(args.port)

\* The loop as module Server has it, from a start in which the listening socket
\* is there; before initServer has made it, main does nothing the loop sees
\* but record signals.
serverPollfds == IF boundPort = 0 THEN <<newPollfd(ServerSocket)>> ELSE pollfds
serverOpen == IF boundPort = 0 THEN {ServerSocket} ELSE open

S == INSTANCE Server WITH pollfds <- serverPollfds, open <- serverOpen

\* The process implements Server, from its first instruction on: initServer
\* leaves the state the loop starts from, whatever signals came before.
ServerSpec == S!Init /\ [][S!Next]_(S!vars)

\* If poll keeps returning, a signal that is recorded ends the process, in the
\* middle of main as well as in the loop.
SignalEndsProcess == []<>(pc # "poll") => (signal ~> phase \in {"exited", "killed"})
=============================================================================
