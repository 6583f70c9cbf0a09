-------------------------------- MODULE MCS3 --------------------------------
(* Instances of S3Client for TLC. *)
EXTENDS S3Client

FiveKeys == 1 .. 5
=============================================================================
