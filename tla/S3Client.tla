------------------------------ MODULE S3Client ------------------------------
(***************************************************************************)
(* internal/clients/backblaze.go, the S3 API: one BackblazeClient that     *)
(* makes calls about one bucket, each of one request but for that of       *)
(* EmptyBucket, while others create, use and delete the bucket.  A request *)
(* and its answer are one step, at the moment the service acts.  The AWS   *)
(* SDK is left at its defaults: it sends a request whose answer is lost    *)
(* again, although the service may have carried it out.                    *)
(***************************************************************************)
EXTENDS EmptyBucket

CONSTANT MaxAttempts   \* times the SDK sends one request (3)

ASSUME RequestsAreSent == MaxAttempts \in Nat \ {0}

VARIABLES
    bucket,   \* "none", "theirs" or "ours"
    policy,   \* whether our bucket has a policy
    call,     \* the call in progress or, once it has an answer, the last one
    moments   \* history: <<bucket, policy>> at every moment of the call in
              \* progress, {} when that is of DeleteAllObjectsInBucket

emptyingVars == <<stored, since, hidden, pc, after, batch, more>>
clientVars == <<emptyingVars, bucket, policy, call, moments>>

Methods == {"CreateBucket", "DeleteBucket", "BucketExists", "GetBucketLocation",
            "ListBuckets", "GetBucketPolicy", "PutBucketPolicy",
            "DeleteBucketPolicy", "DeleteAllObjectsInBucket"}

\* nil; (false, nil) or "bucket policy not found"; another error.
Results == {"ok", "notFound", "error"}

\* The variables of EmptyBucket while the call is of another method.
Unused == since' = {} /\ pc' = "failed"

Busy == call.answer = "pending"

ClientInit ==
    /\ bucket \in {"none", "theirs", "ours"}
    /\ stored \in IF bucket = "ours" THEN SUBSET Keys ELSE {{}}
    /\ policy \in IF bucket = "ours" THEN BOOLEAN ELSE {FALSE}
    /\ hidden \in IF bucket = "ours" THEN BOOLEAN ELSE {FALSE}
    /\ since = {} /\ pc = "failed" /\ after = {} /\ batch = {} /\ more = FALSE
    /\ call = [method |-> "none", answer |-> "ok", sent |-> 0]
    /\ moments = {}

-----------------------------------------------------------------------------
(* Others.                                                                 *)

Note == moments' = IF moments = {} THEN {} ELSE moments \cup {<<bucket', policy'>>}

\* A bucket can be deleted when no version of a file is left in it; its policy
\* goes with it.
Holds == stored # {} \/ hidden

OthersChangeBucket ==
    /\ \/ bucket = "none" /\ bucket' \in {"ours", "theirs"} /\ UNCHANGED policy
       \/ bucket = "theirs" /\ bucket' = "none" /\ UNCHANGED policy
       \/ bucket = "ours" /\ ~Holds /\ bucket' = "none" /\ policy' = FALSE
       \/ bucket = "ours" /\ policy' = ~policy /\ UNCHANGED bucket
    /\ UNCHANGED emptyingVars

OthersChangeObjects ==
    /\ bucket = "ours"
    /\ Purge \/ \E k \in Keys : PutObject(k) \/ DeleteObject(k)
    /\ UNCHANGED <<bucket, policy>>

OtherClients ==
    /\ OthersChangeBucket \/ OthersChangeObjects
    /\ Note
    /\ UNCHANGED call

-----------------------------------------------------------------------------
(* Calls.                                                                  *)

Ask(method) ==
    /\ ~Busy
    /\ call' = [method |-> method, answer |-> "pending", sent |-> 1]
    /\ after' = {} /\ batch' = {} /\ more' = FALSE
    /\ IF method = "DeleteAllObjectsInBucket"
       THEN since' = stored /\ pc' = "list" /\ moments' = {}
       ELSE Unused /\ moments' = {<<bucket, policy>>}
    /\ UNCHANGED <<bucket, policy, stored, hidden>>

Return(answer) == call' = [call EXCEPT !.answer = answer] /\ moments' = {}

SendAgain == call.sent < MaxAttempts /\ call' = [call EXCEPT !.sent = @ + 1]

\* Mutant: every error is a "not found" error.
AnyError(text) == TRUE

\* isNotFoundError compares the whole text of the error.
IsNotFoundError(text) == text \in {"NotFound", "NoSuchBucket"}

\* What a method makes of the error the SDK returns.
ErrorOf(method, text) ==
    IF method = "BucketExists" /\ IsNotFoundError(text) THEN "notFound"
    ELSE IF /\ method \in {"GetBucketPolicy", "DeleteBucketPolicy"}
            /\ IsNotFoundError(text) \/ text = "NoSuchBucketPolicy"
    THEN "notFound"
    ELSE "error"

\* The service is reached by a request of this method.
Serves(method) == Busy /\ call.method = method

\* The answer gets there, or is lost, and then the request is sent again or
\* not.
Done == Return("ok") \/ Return("error") \/ (SendAgain /\ Note)

\* An error code of the service: the SDK returns it, plainly or wrapped in a
\* longer text, or loses it.
Refused(code) ==
    \/ \E text \in {code, "wrapped"} : Return(ErrorOf(call.method, text))
    \/ (SendAgain /\ Note)

\* A bucket of ours meets the request, and is left as given.
Meets(method) == Serves(method) /\ bucket = "ours"
Leaves(b, p) == bucket' = b /\ policy' = p /\ UNCHANGED <<stored, hidden, since>>
Looks == Leaves(bucket, policy)

\* What every other request meets that is about one bucket.
NotOurs ==
    /\ Busy /\ bucket # "ours"
    /\ call.method \notin {"CreateBucket", "ListBuckets", "DeleteAllObjectsInBucket"}
    /\ Looks
    /\ Refused(IF bucket = "theirs" THEN "AccessDenied"
               ELSE IF call.method = "BucketExists" THEN "NotFound"
               ELSE "NoSuchBucket")

CreateBucket ==
    /\ Serves("CreateBucket")
    /\ IF bucket = "none" THEN Leaves("ours", FALSE) /\ Done
       ELSE Looks /\ Refused("BucketAlreadyExists")

DeleteBucket ==
    /\ Meets("DeleteBucket")
    /\ IF Holds THEN Looks /\ Refused("BucketNotEmpty")
       ELSE Leaves("none", FALSE) /\ Done

BucketExists == Meets("BucketExists") /\ Looks /\ Done

GetBucketLocation == Meets("GetBucketLocation") /\ Looks /\ Done

ListBuckets == Serves("ListBuckets") /\ Looks /\ Done

\* Where there is none, result.Policy may be nil.
GetBucketPolicy ==
    /\ Meets("GetBucketPolicy")
    /\ Looks
    /\ IF policy THEN Done ELSE Refused("NoSuchBucketPolicy") \/ Return("notFound")

PutBucketPolicy == Meets("PutBucketPolicy") /\ Leaves(bucket, TRUE) /\ Done

\* Deleting a policy that is not there succeeds, or is refused.
DeleteBucketPolicy ==
    /\ Meets("DeleteBucketPolicy")
    /\ Leaves(bucket, FALSE)
    /\ Done \/ (~policy /\ Refused("NoSuchBucketPolicy"))

OneRequest ==
    /\ \/ NotOurs \/ CreateBucket \/ DeleteBucket
       \/ BucketExists \/ GetBucketLocation \/ ListBuckets
       \/ GetBucketPolicy \/ PutBucketPolicy \/ DeleteBucketPolicy
    /\ UNCHANGED <<pc, after, batch, more>>

\* The request never gets there.
RequestIsLost ==
    /\ Busy /\ call.method # "DeleteAllObjectsInBucket"
    /\ Return("error")
    /\ UNCHANGED <<emptyingVars, bucket, policy>>

\* A step of EmptyBucket; its requests, too, are about a bucket that is ours.
Empty(step) ==
    /\ Serves("DeleteAllObjectsInBucket")
    /\ step
    /\ call' = [call EXCEPT !.sent = 1,
                            !.answer = CASE pc' = "done" -> "ok"
                                         [] pc' = "failed" -> "error"
                                         [] OTHER -> "pending"]
    /\ UNCHANGED <<bucket, policy, moments>>

EmptyOn == bucket = "ours" /\ Empty(ListObjects \/ DeleteObjects)
EmptyFails == Empty(RequestFails)

\* The objects of the batch are deleted, and will be again.
DeleteAgain ==
    /\ Serves("DeleteAllObjectsInBucket")
    /\ bucket = "ours" /\ pc = "delete"
    /\ SendAgain
    /\ Hide(batch)
    /\ UNCHANGED <<pc, after, batch, more, bucket, policy, moments>>

ClientNext ==
    \/ OtherClients
    \/ \E method \in Methods : Ask(method)
    \/ OneRequest \/ RequestIsLost
    \/ EmptyOn \/ EmptyFails \/ DeleteAgain

\* A method does not stop before it returns.  That the emptying of a bucket
\* ends because a request fails is not counted on while the bucket is there.
ClientSpec ==
    /\ ClientInit /\ [][ClientNext]_clientVars
    /\ WF_clientVars(OneRequest)
    /\ WF_clientVars(EmptyOn \/ (bucket # "ours" /\ EmptyFails))

-----------------------------------------------------------------------------
\* Types, and: only a bucket of ours has files and a policy; and, of a call
\* that empties it, what TypeOK says (no delete request is empty or repeats
\* the keys of the one before).
ClientTypeOK ==
    /\ TypeOK
    /\ bucket \in {"none", "theirs", "ours"}
    /\ policy \in BOOLEAN
    /\ bucket # "ours" => ~Holds /\ ~policy
    /\ call \in [method : Methods \cup {"none"}, answer : Results \cup {"pending"},
                 sent : 0 .. MaxAttempts]
    /\ moments \subseteq {"none", "theirs", "ours"} \X BOOLEAN

\* No method says of a bucket or a policy what was true at no moment of the
\* call, although requests are repeated while others act: somebody else's
\* bucket, above all, is never taken for one that does not exist.
Justifies(moment, method, answer) ==
    LET there == moment[1] = "ours"
        hasPolicy == moment[2]
    IN
    \/ answer = "error" \/ method = "ListBuckets"
    \/ method \in {"CreateBucket", "GetBucketLocation"} /\ there
    \/ method = "DeleteBucket" /\ moment[1] = "none"
    \/ method = "BucketExists" /\ IF answer = "ok" THEN there ELSE moment[1] = "none"
    \/ method = "PutBucketPolicy" /\ hasPolicy
    \/ method = "GetBucketPolicy"
       /\ IF answer = "ok" THEN hasPolicy ELSE ~hasPolicy /\ moment[1] # "theirs"
    \/ method = "DeleteBucketPolicy" /\ ~hasPolicy /\ moment[1] # "theirs"

AnswersWereTrue ==
    [][Busy /\ ~Busy' /\ moments # {}
       => \E moment \in moments \cup {<<bucket', policy'>>} :
             Justifies(moment, call.method, call'.answer)]_clientVars

\* Every call returns, though others may upload and repeat for ever.
CallsReturn == Busy ~> ~Busy
=============================================================================
