------------------------------ MODULE MCEmpty ------------------------------
(* Instances of EmptyBucket for TLC. *)
EXTENDS EmptyBucket

FiveKeys == 1 .. 5
=============================================================================
