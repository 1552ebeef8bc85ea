-------------------------------- MODULE Inbox --------------------------------
(***************************************************************************)
(* What the receiving half of a connection promises to the command layer,  *)
(* whatever recv returns and however the stream is cut                     *)
(* (Server::receiveData in src/src/Server.cpp): one read completes some    *)
(* commands, they run one by one in that order, and all of them run before *)
(* the connection is read again, or dropped.                               *)
(*                                                                         *)
(* ReadPath implements it from bytes and Server, for each descriptor, from *)
(* batches of commands: the batches of Server are what ReadPath delivers.  *)
(***************************************************************************)
EXTENDS Sequences

CONSTANT Command   \* the parsed commands

VARIABLE pending   \* the commands received and not yet run

Init == pending = <<>>

receiveData == pending = <<>> /\ pending' \in Seq(Command)

processCommand == pending # <<>> /\ pending' = Tail(pending)

Next == receiveData \/ processCommand

Spec == Init /\ [][Next]_pending

\* Under the fairness of the thread: the while loop of receiveData ends, no
\* command waits for ever.
Drains == []<>(pending = <<>>)
=============================================================================
