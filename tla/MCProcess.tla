------------------------------ MODULE MCProcess ------------------------------
(***************************************************************************)
(* A small instance of Process for TLC: argument lists at every border of  *)
(* the checks of main.  What clients send does not matter here.            *)
(***************************************************************************)
EXTENDS Process

number(n) == [overflow |-> 0, low |-> n]

Ports == {number(n) : n \in {-1, 0, 80, 1023, 1024, 6667, 65535, 65536, 66560}}
           \cup {[overflow |-> 1, low |-> 80]}

MCArguments ==
  {[ac |-> 3, port |-> p, password |-> "pass"] : p \in Ports}
    \cup {[ac |-> 3, port |-> number(6667), password |-> ""],
          [ac |-> 2, port |-> number(6667), password |-> ""],
          [ac |-> 4, port |-> number(6667), password |-> "pass"]}

NoCommands == {<<>>}
=============================================================================
