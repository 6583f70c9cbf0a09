---------------------------- MODULE EmptyBucket ----------------------------
(***************************************************************************)
(* internal/clients/backblaze.go, DeleteAllObjectsInBucket: one call, and  *)
(* others that store and delete objects in the bucket at the same time.    *)
(* A bucket of B2 keeps the versions of its files: a request that deletes  *)
(* an object without naming a version hides it, so that it is not listed   *)
(* any more (to hide is how the API types put it, bucket_types.go:41-46).  *)
(* An object is its key.                                                   *)
(***************************************************************************)
EXTENDS Naturals, FiniteSets

CONSTANTS
    Keys,          \* object keys, in the order in which S3 lists them
    PageSize,      \* objects in one answer of ListObjectsV2 (1000)
    DeletesFail    \* DeleteObjects may answer 200 and name keys it kept

ASSUME KeysAreNumbered == Keys \subseteq Nat
ASSUME PagesAreNotEmpty == PageSize \in Nat \ {0}
ASSUME DeletesFailIsBoolean == DeletesFail \in BOOLEAN

VARIABLES
    stored,   \* keys of the objects that are listed
    since,    \* those of them that were stored before the call and not since
    hidden,   \* whether the bucket holds versions of files that are not listed
    pc,       \* "list", "delete", or how the call ended: "done", "failed"
    after,    \* keys the continuation token says were listed
    batch,    \* objects of the page just read
    more      \* its IsTruncated

vars == <<stored, since, hidden, pc, after, batch, more>>

Init ==
    /\ stored \in SUBSET Keys
    /\ hidden \in BOOLEAN
    /\ since = stored
    /\ pc = "list"
    /\ after = {}
    /\ batch = {}
    /\ more = FALSE

-----------------------------------------------------------------------------
(* Other clients of the bucket.                                            *)

\* An object of that key becomes an old version.
PutObject(k) ==
    /\ stored' = stored \cup {k}
    /\ since' = since \ {k}
    /\ hidden' = (hidden \/ k \in stored)
    /\ UNCHANGED <<pc, after, batch, more>>

\* A deletion that names the version leaves nothing behind.
DeleteObject(k) ==
    /\ k \in stored
    /\ stored' = stored \ {k}
    /\ since' = since \ {k}
    /\ hidden' \in {hidden, TRUE}
    /\ UNCHANGED <<pc, after, batch, more>>

\* Lifecycle rules, or people, delete the versions that are not listed.
Purge ==
    /\ hidden /\ hidden' = FALSE
    /\ UNCHANGED <<stored, since, pc, after, batch, more>>

-----------------------------------------------------------------------------
(* The call.                                                               *)

Below(keys) == {k \in Keys : \E j \in keys : k <= j}

\* What is listed behind the continuation token, in key order.
Listed == stored \ after
Page == {k \in Listed : Cardinality({j \in Listed : j < k}) < PageSize}

\* Mutant: an empty page is a page.
NeverEmpty == FALSE

\* len(result.Contents) == 0
NothingListed == Page = {}

ListObjects ==
    /\ pc = "list"
    /\ batch' = Page
    /\ more' = (Page # Listed)
    /\ pc' = IF NothingListed THEN "done" ELSE "delete"
    /\ UNCHANGED <<stored, hidden, since, after>>

\* The keys of one request that the service does delete.
Deleted == IF DeletesFail THEN SUBSET batch ELSE {batch}

\* They are named without a version.
Hide(keys) ==
    /\ stored' = stored \ keys /\ since' = since \ keys
    /\ hidden' = (hidden \/ keys \cap stored # {})

\* Mutants: the token is that of the page after the next, the token is not
\* passed on.
NextPageIsSkipped ==
    /\ pc' = "list"
    /\ after' = Below(batch \cup Page)
FirstPageAgain == pc' = "list" /\ UNCHANGED after

NextPage ==
    /\ pc' = "list"
    /\ after' = Below(batch)

\* The request succeeds; its output, with the errors per key, is dropped.
DeleteObjects ==
    /\ pc = "delete"
    /\ \E keys \in Deleted : Hide(keys)
    /\ IF more THEN NextPage ELSE pc' = "done" /\ UNCHANGED after
    /\ UNCHANGED <<batch, more>>

\* A request that got there or not, and whose answer is an error.
RequestFails ==
    /\ pc \in {"list", "delete"}
    /\ pc' = "failed"
    /\ \E keys \in {{}} \cup (IF pc = "delete" THEN Deleted ELSE {}) : Hide(keys)
    /\ UNCHANGED <<after, batch, more>>

Next ==
    \/ \E k \in Keys : PutObject(k) \/ DeleteObject(k)
    \/ Purge
    \/ ListObjects \/ DeleteObjects \/ RequestFails

Spec == Init /\ [][Next]_vars

-----------------------------------------------------------------------------
\* Types, and: what was there before is there now, and a delete request names
\* at least one object (S3 refuses one that does not), none of them twice.
TypeOK ==
    /\ stored \subseteq Keys /\ hidden \in BOOLEAN
    /\ since \subseteq stored
    /\ pc \in {"list", "delete", "done", "failed"}
    /\ after \subseteq Keys
    /\ batch \subseteq Keys
    /\ more \in BOOLEAN
    /\ pc = "delete" => batch # {} /\ batch \cap after = {}

\* backblaze.go:238, "deletes all objects in a bucket": when the call returns
\* nil, no object that was in the bucket when it began is listed any more,
\* although the list is read page by page while others store and delete objects.
EverythingIsDeleted == pc = "done" => since = {}
=============================================================================
