------------------------------- MODULE MCKeys -------------------------------
(* Instances of ApplicationKeys for TLC. *)
EXTENDS ApplicationKeys

FiveKeys == 1 .. 5
=============================================================================
