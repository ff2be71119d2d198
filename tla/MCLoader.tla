------------------------------ MODULE MCLoader ------------------------------
(***************************************************************************)
(* An instance of the loader for TLC.  Messages are strings so that their  *)
(* contents can be given as a function.                                    *)
(***************************************************************************)
EXTENDS Loader

TwoMessages == {"good", "poison"}

\* Two objects, of which the first has no good row and the second ends with the
\* empty row after its last newline; and a message without objects.
TwoContent == [good |-> << <<"bad">>, <<"ok", "empty">> >>, poison |-> <<>>]
=============================================================================
