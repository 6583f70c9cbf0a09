----------------------------- MODULE MCProvider -----------------------------
(* Instances of Provider for TLC. *)
EXTENDS Provider

OnlyPrivate == {"allPrivate"}
PlainErrors == {"NotFound", "NoSuchBucket"}
=============================================================================
