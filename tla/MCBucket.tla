------------------------------ MODULE MCBucket ------------------------------
(* Instances of BucketController for TLC. *)
EXTENDS BucketController

Usable  == [found |-> TRUE,  source |-> "Secret", secretRef |-> TRUE, secret |-> "complete"]
Unnamed == [found |-> FALSE, source |-> "Secret", secretRef |-> TRUE, secret |-> "missing"]

Refused == [found |-> TRUE,  source |-> "Secret", secretRef |-> TRUE, secret |-> "refused"]

OneConfig == {Usable}
ThreeConfigs == {Usable, Unnamed, Refused}

OnlyPrivate == {"allPrivate"}

\* The texts isNotFoundError knows, and what the AWS SDK (v2) makes of a
\* 404: "operation error S3: HeadBucket, https response error StatusCode:
\* 404, ..., NotFound: ".
PlainErrors == {"NotFound", "NoSuchBucket"}
SDKErrors == {"operation error S3: HeadBucket, ... NotFound"}
=============================================================================
