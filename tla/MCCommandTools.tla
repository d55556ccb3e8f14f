--------------------------- MODULE MCCommandTools --------------------------
(* CommandTools on top of ProcessExec.                                     *)
EXTENDS CommandTools

CONSTANTS d1
MCDir == {d1}
=============================================================================
