----------------------------- MODULE MCCommands -----------------------------
(***************************************************************************)
(* Small instances of Commands for TLC.  MaxOut bounds the messages that   *)
(* wait in one write buffer.                                               *)
(***************************************************************************)
EXTENDS Commands, TLC

CONSTANT MaxOut

cmd(name, params) == [command |-> name, params |-> params]

MCWords == {"ann", "bob", "#ann", "pass", "hi"}
MCChannelWords == {"#ann"}

\* One command for every branch a handler can take.
AllCmds ==
  {cmd("PASS", <<>>), cmd("PASS", <<"pass">>), cmd("PASS", <<"hi">>),
   cmd("NICK", <<>>), cmd("NICK", <<"">>), cmd("NICK", <<"ann">>),
   cmd("NICK", <<"#ann">>),
   cmd("USER", <<"bob">>), cmd("USER", <<"bob", "hi", "hi", "">>),
   cmd("CAP", <<>>), cmd("PING", <<>>), cmd("PING", <<"hi">>),
   cmd("PONG", <<>>), cmd("QUIT", <<>>), cmd("PRIVMSG", <<>>),
   cmd("PRIVMSG", <<"ann">>), cmd("PRIVMSG", <<"ann", "">>),
   cmd("PRIVMSG", <<"ann", "hi">>), cmd("PRIVMSG", <<"#ann", "hi">>),
   cmd("PRIVMSG", <<"bob", "hi">>),
   cmd("TOPIC", <<>>), cmd("TOPIC", <<"#ann">>), cmd("JOIN", <<"#ann">>),
   cmd("MODE", <<"#ann">>), cmd("UNKNOWN", <<>>), cmd("", <<>>)}

\* The commands that change a client's identity or reach another client.
CoreCmds ==
  {cmd("PASS", <<"pass">>), cmd("PASS", <<"hi">>), cmd("NICK", <<"">>),
   cmd("NICK", <<"ann">>), cmd("NICK", <<"bob">>),
   cmd("USER", <<"bob", "hi", "hi", "">>), cmd("QUIT", <<>>),
   cmd("PRIVMSG", <<"ann", "hi">>), cmd("PRIVMSG", <<"bob", "hi">>)}

\* Enough to register, to rename, and to write to a client.
NickCmds ==
  {cmd("PASS", <<"pass">>), cmd("USER", <<"bob", "hi", "hi", "">>),
   cmd("NICK", <<"">>), cmd("NICK", <<"#ann">>),
   cmd("PRIVMSG", <<"#ann", "hi">>)}

BoundedNext ==
  /\ Next
  /\ \A c \in Fds : Len(client'[c].writeBuffer) <= MaxOut

BoundedSpec == Init /\ [][BoundedNext]_vars

Symmetry == Permutations(Fds)
=============================================================================
