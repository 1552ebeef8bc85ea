----------------------------- MODULE MCReadPath -----------------------------
(***************************************************************************)
(* Small instances of ReadPath for TLC: one command word "N", and a letter *)
(* "n" that is its lower case or part of a name.                           *)
(***************************************************************************)
EXTENDS ReadPath

MCLetters == {"N", "n"}
MCToupper == [l \in MCLetters |-> "N"]
MCKnown == {<<"N">>}

\* One letter: framing does not look at letters.
OneLetter == {"N"}
OneToupper == [l \in OneLetter |-> "N"]
=============================================================================
