-------------------------- MODULE S3Client_proofs --------------------------
(***************************************************************************)
(* The safety properties of EmptyBucket and S3Client, for any set of       *)
(* object keys, pages of any size and any number of attempts.              *)
(*                                                                         *)
(* EverythingIsDeleted is not inductive: a call can only end with nothing  *)
(* left if, all the time, what is left lies behind the continuation token  *)
(* or is in the page just read (NothingIsPassedOver).  It needs that pages *)
(* are prefixes of the list, and that no deletion fails for a single key.  *)
(***************************************************************************)
EXTENDS S3Client, KeyOrder

-----------------------------------------------------------------------------
(* Pages.                                                                  *)

\* A page is the first keys of the list.
LEMMA ListedKeys ==
    ASSUME TypeOK
    PROVE  /\ Listed \in SUBSET Nat
           /\ Page = {k \in Listed : Cardinality(Before(Listed, k)) < PageSize}
BY KeysAreNumbered DEF TypeOK, Listed, Page, Before

\* A page leaves no key out that is listed before one of its keys.
LEMMA PagesArePrefixes ==
    ASSUME TypeOK, NEW j \in Listed, NEW k \in Page, j <= k
    PROVE  j \in Page
<1>1. j \in Nat /\ k \in Nat /\ k \in Listed
  BY ListedKeys
<1>2. Cardinality(Before(Listed, j)) <= Cardinality(Before(Listed, k))
  BY <1>1, ListedKeys, LaterHasMoreBefore
<1>3. /\ Cardinality(Before(Listed, j)) \in Nat
      /\ Cardinality(Before(Listed, k)) \in Nat
  BY <1>1, ListedKeys, FinitelyManyBefore
<1>4. Cardinality(Before(Listed, k)) < PageSize
  BY ListedKeys
<1>5. Cardinality(Before(Listed, j)) < PageSize
  BY <1>2, <1>3, <1>4, PagesAreNotEmpty
<1> QED
  BY <1>5, ListedKeys

\* len(result.Contents) == 0 means that nothing is left behind the token.
LEMMA EmptyPageIsTheEnd ==
    ASSUME TypeOK, NothingListed
    PROVE  Listed = {}
<1> SUFFICES ASSUME Listed # {} PROVE FALSE
  OBVIOUS
<1>1. PICK k \in Listed : Before(Listed, k) = {}
  BY ListedKeys, FirstKey
<1>2. Cardinality(Before(Listed, k)) = 0
  BY <1>1, FS_EmptySet
<1>3. k \in Page
  BY <1>2, ListedKeys, PagesAreNotEmpty
<1> QED
  BY <1>3 DEF NothingListed

-----------------------------------------------------------------------------
(* One call that empties the bucket, and the others.                       *)

\* While the call goes on: what was there before it and is there still is not
\* behind the token, and is in the page just read or listed after it.
NothingIsPassedOver ==
    /\ pc \in {"list", "delete"} => since \cap after = {}
    /\ pc = "delete" => \A k \in since : \/ k \in batch
                                         \/ more /\ \A j \in batch : ~(k <= j)

EmptyingInv == TypeOK /\ NothingIsPassedOver /\ EverythingIsDeleted

\* The loop and the other clients keep the types of EmptyBucket.
LEMMA EmptyingKeepsTypes ==
    ASSUME TypeOK, [Next]_vars
    PROVE  TypeOK'
<1> USE DEF TypeOK
<1>1. CASE UNCHANGED vars
  BY <1>1 DEF vars
<1>2. ASSUME NEW k \in Keys, PutObject(k) PROVE TypeOK'
  BY <1>2 DEF PutObject
<1>3. ASSUME NEW k \in Keys, DeleteObject(k) PROVE TypeOK'
  BY <1>3 DEF DeleteObject
<1>7. CASE Purge
  BY <1>7 DEF Purge
<1>4. CASE ListObjects
  <2>1. Page \subseteq Keys /\ Page \cap after = {}
    BY DEF Page, Listed
  <2> QED
    BY <1>4, <2>1 DEF ListObjects, NothingListed
<1>5. CASE DeleteObjects
  <2>1. PICK keys \in Deleted : Hide(keys)
    BY <1>5 DEF DeleteObjects
  <2>2. Below(batch) \subseteq Keys
    BY DEF Below
  <2>3. /\ pc' \in {"list", "done"}
        /\ after' \in {after, Below(batch)}
        /\ batch' = batch /\ more' = more
    BY <1>5 DEF DeleteObjects, NextPage
  <2> QED
    BY <2>1, <2>2, <2>3 DEF Hide
<1>6. CASE RequestFails
  BY <1>6 DEF RequestFails, Hide
<1> QED
  BY <1>1, <1>2, <1>3, <1>4, <1>5, <1>6, <1>7 DEF Next

\* The page just read, in a state that the list request left.
LEMMA ListingPassesNothingOver ==
    ASSUME EmptyingInv, ListObjects
    PROVE  NothingIsPassedOver' /\ EverythingIsDeleted'
<1> USE DEF EmptyingInv
<1>1. /\ pc = "list" /\ since \subseteq stored /\ since \cap after = {}
      /\ since' = since /\ after' = after /\ batch' = Page
      /\ more' = (Page # Listed)
      /\ pc' = IF NothingListed THEN "done" ELSE "delete"
  BY DEF ListObjects, TypeOK, NothingIsPassedOver
<1>2. since \subseteq Listed
  BY <1>1 DEF Listed
<1>3. ASSUME NothingListed PROVE since = {}
  BY <1>2, <1>3, EmptyPageIsTheEnd
<1>4. ASSUME NEW k \in since, k \notin Page
      PROVE  more' /\ \A j \in Page : ~(k <= j)
  BY <1>1, <1>2, <1>4, PagesArePrefixes
<1> QED
  BY <1>1, <1>3, <1>4 DEF NothingIsPassedOver, EverythingIsDeleted

\* When the batch is gone, what is left lies behind the next token.
LEMMA DeletingPassesNothingOver ==
    ASSUME EmptyingInv, ~DeletesFail, DeleteObjects
    PROVE  NothingIsPassedOver' /\ EverythingIsDeleted'
<1> USE DEF EmptyingInv
<1>1. /\ pc = "delete"
      /\ since' = since \ batch
  BY DEF DeleteObjects, Deleted, Hide
<1>2. \A k \in since' : more /\ \A j \in batch : ~(k <= j)
  BY <1>1 DEF NothingIsPassedOver
<1>3. CASE more
  <2>1. pc' = "list" /\ after' = Below(batch)
    BY <1>3 DEF DeleteObjects, NextPage
  <2>2. since' \cap Below(batch) = {}
    BY <1>2 DEF Below
  <2> QED
    BY <2>1, <2>2 DEF NothingIsPassedOver, EverythingIsDeleted
<1>4. CASE ~more
  <2>1. pc' = "done"
    BY <1>4 DEF DeleteObjects
  <2>2. since' = {}
    BY <1>2, <1>4
  <2> QED
    BY <2>1, <2>2 DEF NothingIsPassedOver, EverythingIsDeleted
<1> QED
  BY <1>3, <1>4

\* Every step keeps the invariant: a page that was deleted moves the token
\* past keys that are gone only.
LEMMA EmptyingKeepsInv ==
    ASSUME EmptyingInv, ~DeletesFail, [Next]_vars
    PROVE  EmptyingInv'
<1> USE DEF EmptyingInv
<1>0. TypeOK'
  BY EmptyingKeepsTypes
<1>1. CASE UNCHANGED vars
  BY <1>0, <1>1 DEF vars, NothingIsPassedOver, EverythingIsDeleted
<1>2. ASSUME NEW k \in Keys, PutObject(k) \/ DeleteObject(k) PROVE EmptyingInv'
  <2>1. since' = since \ {k} /\ UNCHANGED <<pc, after, batch, more>>
    BY <1>2 DEF PutObject, DeleteObject
  <2> QED
    BY <1>0, <2>1 DEF NothingIsPassedOver, EverythingIsDeleted
<1>3. CASE ListObjects
  BY <1>0, <1>3, ListingPassesNothingOver
<1>4. CASE DeleteObjects
  BY <1>0, <1>4, DeletingPassesNothingOver
<1>5. CASE RequestFails
  BY <1>0, <1>5 DEF RequestFails, Hide, NothingIsPassedOver, EverythingIsDeleted
<1>6. CASE Purge
  BY <1>0, <1>6 DEF Purge, NothingIsPassedOver, EverythingIsDeleted
<1> QED
  BY <1>1, <1>2, <1>3, <1>4, <1>5, <1>6 DEF Next

\* EmptyBucket by itself: however the list and the deletions interleave with
\* what others store and delete, a call of DeleteAllObjectsInBucket that
\* returns nil has deleted all it found, if no deletion of a key fails.
THEOREM CallsDeleteEverything ==
    ASSUME ~DeletesFail
    PROVE  Spec => []EverythingIsDeleted
<1>1. Init => EmptyingInv
  BY DEF Init, EmptyingInv, TypeOK, NothingIsPassedOver, EverythingIsDeleted
<1>2. EmptyingInv /\ [Next]_vars => EmptyingInv'
  BY EmptyingKeepsInv
<1>3. EmptyingInv => EverythingIsDeleted
  BY DEF EmptyingInv
<1> QED
  BY <1>1, <1>2, <1>3, PTL DEF Spec

-----------------------------------------------------------------------------
(* The client: types.                                                      *)

\* What a request that is about one bucket may do to the call in progress:
\* give it an answer or count an attempt, and note the moment or forget all.
Proceeds ==
    \/ \E answer \in Results : Return(answer)
    \/ SendAgain /\ Note

\* A request refused with a code ends the call, with an error or with what the
\* method makes of the code, or is sent again.
LEMMA RefusalsProceed ==
    ASSUME NEW code, Refused(code)
    PROVE  Proceeds
BY DEF Refused, Proceeds, ErrorOf, Results

\* So does a request that was done; its answer may be lost.
LEMMA AnswersProceed ==
    ASSUME Done
    PROVE  Proceeds
BY DEF Done, Proceeds, Results

\* A request changes the bucket as one of three operations do, or not at all.
LEMMA RequestsProceed ==
    ASSUME ClientTypeOK, OneRequest
    PROVE  /\ Busy /\ call.method # "DeleteAllObjectsInBucket"
           /\ Proceeds
           /\ UNCHANGED vars
           /\ \/ UNCHANGED <<bucket, policy>>
              \/ bucket = "none" /\ bucket' = "ours" /\ policy' = FALSE
              \/ ~Holds /\ bucket' = "none" /\ policy' = FALSE
              \/ bucket = "ours" /\ bucket' = "ours" /\ policy' \in BOOLEAN
<1> USE DEF Leaves, Looks, Serves, Meets, vars
<1>0. UNCHANGED <<pc, after, batch, more>>
  BY DEF OneRequest
<1>1. CASE NotOurs
  BY <1>0, <1>1, RefusalsProceed DEF NotOurs
<1>2. CASE CreateBucket
  BY <1>0, <1>2, RefusalsProceed, AnswersProceed DEF CreateBucket
<1>3. CASE DeleteBucket
  BY <1>0, <1>3, RefusalsProceed, AnswersProceed DEF DeleteBucket
<1>4. CASE BucketExists
  BY <1>0, <1>4, AnswersProceed DEF BucketExists
<1>5. CASE GetBucketLocation
  BY <1>0, <1>5, AnswersProceed DEF GetBucketLocation
<1>6. CASE ListBuckets
  BY <1>0, <1>6, AnswersProceed DEF ListBuckets
<1>7. CASE GetBucketPolicy
  <2>1. Done \/ Refused("NoSuchBucketPolicy") \/ Return("notFound")
    BY <1>7 DEF GetBucketPolicy
  <2>2. Proceeds
    BY <2>1, RefusalsProceed, AnswersProceed DEF Proceeds, Results
  <2> QED
    BY <1>0, <1>7, <2>2 DEF GetBucketPolicy
<1>8. CASE PutBucketPolicy
  BY <1>0, <1>8, AnswersProceed DEF PutBucketPolicy
<1>9. CASE DeleteBucketPolicy
  BY <1>0, <1>9, RefusalsProceed, AnswersProceed DEF DeleteBucketPolicy
<1> QED
  BY <1>1, <1>2, <1>3, <1>4, <1>5, <1>6, <1>7, <1>8, <1>9 DEF OneRequest

Buckets == {"none", "theirs", "ours"}
Calls == [method : Methods \cup {"none"}, answer : Results \cup {"pending"},
          sent : 0 .. MaxAttempts]

\* ClientTypeOK part by part, with the record of the call as a set.
LEMMA TypeParts ==
    ClientTypeOK <=> /\ TypeOK
                     /\ bucket \in Buckets
                     /\ policy \in BOOLEAN
                     /\ bucket # "ours" => ~Holds /\ ~policy
                     /\ call \in Calls
                     /\ moments \subseteq Buckets \X BOOLEAN
BY DEF ClientTypeOK, Buckets, Calls

\* What Proceeds leaves of the types.
LEMMA ProceedingKeepsTypes ==
    ASSUME ClientTypeOK, Proceeds, bucket' \in Buckets, policy' \in BOOLEAN
    PROVE  call' \in Calls /\ moments' \subseteq Buckets \X BOOLEAN
<1> USE DEF ClientTypeOK, Buckets, Calls
<1>1. CASE \E answer \in Results : Return(answer)
  BY <1>1 DEF Return
<1>2. CASE SendAgain /\ Note
  <2>1. call' \in Calls
    BY <1>2, RequestsAreSent DEF SendAgain
  <2>2. moments' \subseteq Buckets \X BOOLEAN
    BY <1>2 DEF Note
  <2> QED
    BY <2>1, <2>2
<1> QED
  BY <1>1, <1>2 DEF Proceeds

\* A step of the call that empties the bucket.
LEMMA EmptyingIsAStep ==
    ASSUME ClientTypeOK, EmptyOn \/ EmptyFails
    PROVE  /\ Serves("DeleteAllObjectsInBucket")
           /\ Next
           /\ Holds' => Holds
           /\ call' = [call EXCEPT !.sent = 1,
                                   !.answer = CASE pc' = "done" -> "ok"
                                                [] pc' = "failed" -> "error"
                                                [] OTHER -> "pending"]
           /\ UNCHANGED <<bucket, policy, moments>>
<1>1. PICK step \in {"list", "delete", "fail"} :
         /\ \/ step = "list" /\ ListObjects
            \/ step = "delete" /\ DeleteObjects
            \/ step = "fail" /\ RequestFails
         /\ Serves("DeleteAllObjectsInBucket")
         /\ call' = [call EXCEPT !.sent = 1,
                                 !.answer = CASE pc' = "done" -> "ok"
                                              [] pc' = "failed" -> "error"
                                              [] OTHER -> "pending"]
         /\ UNCHANGED <<bucket, policy, moments>>
  BY DEF EmptyOn, EmptyFails, Empty
<1>2. Next
  BY <1>1 DEF Next
<1>3. Holds' => Holds
  <2>1. (\E keys : Hide(keys)) \/ UNCHANGED <<stored, hidden>>
    BY <1>1 DEF ListObjects, DeleteObjects, RequestFails
  <2> QED
    BY <2>1 DEF Hide, Holds
<1> QED
  BY <1>1, <1>2, <1>3

\* Every step of the client and of the others keeps the types.
LEMMA ClientKeepsTypes ==
    ASSUME ClientTypeOK, [ClientNext]_clientVars
    PROVE  ClientTypeOK'
<1>0. /\ TypeOK /\ bucket \in Buckets /\ policy \in BOOLEAN
      /\ bucket # "ours" => ~Holds /\ ~policy
      /\ call \in Calls /\ moments \subseteq Buckets \X BOOLEAN
  BY TypeParts
\* A step may leave the bucket alone, or the objects.
<1> DEFINE BucketTyped == /\ bucket' \in Buckets /\ policy' \in BOOLEAN
                          /\ bucket' = "ours" \/ (~Holds /\ ~policy')
<1> HIDE DEF BucketTyped
<1>a. ASSUME UNCHANGED vars, BucketTyped, call' \in Calls,
             moments' \subseteq Buckets \X BOOLEAN
      PROVE  ClientTypeOK'
  <2>1. TypeOK'
    BY <1>0, <1>a, EmptyingKeepsTypes
  <2>2. Holds' = Holds
    BY <1>a DEF vars, Holds
  <2> QED
    BY <1>a, <2>1, <2>2 DEF BucketTyped, ClientTypeOK, Buckets, Calls
<1>b. ASSUME UNCHANGED <<bucket, policy>>, bucket = "ours" \/ ~Holds',
             TypeOK', call' \in Calls,
             moments' \subseteq Buckets \X BOOLEAN
      PROVE  ClientTypeOK'
  BY <1>0, <1>b DEF ClientTypeOK, Buckets, Calls
<1>1. CASE UNCHANGED clientVars
  <2>1. UNCHANGED <<vars, bucket, policy, call, moments>>
    BY <1>1 DEF clientVars, emptyingVars, vars
  <2>2. BucketTyped
    BY <1>0, <2>1 DEF BucketTyped
  <2> QED
    BY <1>0, <1>a, <2>1, <2>2
<1>2. CASE OtherClients
  <2>1. call' = call
    BY <1>2 DEF OtherClients
  <2>2. ASSUME bucket' \in Buckets, policy' \in BOOLEAN
        PROVE  moments' \subseteq Buckets \X BOOLEAN
    BY <1>0, <1>2, <2>2 DEF OtherClients, Note
  <2>3. CASE OthersChangeBucket
    <3>1. UNCHANGED vars
      BY <2>3 DEF OthersChangeBucket, emptyingVars, vars
    <3>2. BucketTyped
      <4>1. CASE bucket # "ours" /\ bucket' \in Buckets /\ UNCHANGED policy
        BY <1>0, <4>1 DEF BucketTyped
      <4>2. CASE ~Holds /\ bucket' = "none" /\ policy' = FALSE
        BY <4>2 DEF BucketTyped, Buckets
      <4>3. CASE bucket' = "ours" /\ policy' = ~policy
        BY <4>3 DEF BucketTyped, Buckets
      <4> QED
        BY <2>3, <4>1, <4>2, <4>3 DEF OthersChangeBucket, Buckets
    <3>3. moments' \subseteq Buckets \X BOOLEAN
      BY <2>2, <3>2 DEF BucketTyped
    <3> QED
      BY <1>0, <1>a, <2>1, <3>1, <3>2, <3>3
  <2>4. CASE OthersChangeObjects
    <3>1. /\ bucket = "ours" /\ UNCHANGED <<bucket, policy>>
          /\ Next
      BY <1>0, <2>4 DEF OthersChangeObjects, Next
    <3>2. TypeOK'
      BY <1>0, <3>1, EmptyingKeepsTypes
    <3>3. moments' \subseteq Buckets \X BOOLEAN
      BY <1>0, <2>2, <3>1
    <3> QED
      BY <1>0, <1>b, <2>1, <3>1, <3>2, <3>3
  <2> QED
    BY <1>2, <2>3, <2>4 DEF OtherClients
<1>3. ASSUME NEW method \in Methods, Ask(method) PROVE ClientTypeOK'
  <2>1. call' \in Calls
    BY <1>3, RequestsAreSent DEF Ask, Calls
  <2>2. moments' \subseteq Buckets \X BOOLEAN
    <3>1. CASE method = "DeleteAllObjectsInBucket"
      BY <1>3, <3>1 DEF Ask
    <3>2. CASE method # "DeleteAllObjectsInBucket"
      BY <1>0, <1>3, <3>2 DEF Ask
    <3> QED
      BY <3>1, <3>2
  <2>3. /\ UNCHANGED <<bucket, policy, stored, hidden>>
        /\ since' \in {{}, stored} /\ pc' \in {"list", "failed"}
        /\ after' = {} /\ batch' = {} /\ more' = FALSE
    BY <1>3 DEF Ask, Unused
  <2>4. TypeOK'
    BY <1>0, <2>3 DEF TypeOK
  <2>5. bucket = "ours" \/ ~Holds'
    BY <1>0, <2>3 DEF Holds
  <2> QED
    BY <1>b, <2>1, <2>2, <2>3, <2>4, <2>5
<1>4. CASE OneRequest
  <2>1. UNCHANGED vars /\ Proceeds
    BY <1>4, RequestsProceed
  <2>2. BucketTyped
    <3>1. CASE UNCHANGED <<bucket, policy>>
      BY <1>0, <3>1 DEF BucketTyped
    <3>2. CASE bucket = "none" /\ bucket' = "ours" /\ policy' = FALSE
      BY <3>2 DEF BucketTyped, Buckets
    <3>3. CASE ~Holds /\ bucket' = "none" /\ policy' = FALSE
      BY <3>3 DEF BucketTyped, Buckets
    <3>4. CASE bucket' = "ours" /\ policy' \in BOOLEAN
      BY <3>4 DEF BucketTyped, Buckets
    <3> QED
      BY <1>4, <3>1, <3>2, <3>3, <3>4, RequestsProceed
  <2>3. call' \in Calls /\ moments' \subseteq Buckets \X BOOLEAN
    BY <2>1, <2>2, ProceedingKeepsTypes DEF BucketTyped
  <2> QED
    BY <1>0, <1>a, <2>1, <2>2, <2>3
<1>5. CASE RequestIsLost
  <2>1. UNCHANGED <<vars, bucket, policy>>
    BY <1>5 DEF RequestIsLost, emptyingVars, vars
  <2>2. call' \in Calls /\ moments' = {}
    BY <1>0, <1>5 DEF RequestIsLost, Return, Results, Calls
  <2>3. BucketTyped
    BY <1>0, <2>1 DEF BucketTyped
  <2> QED
    BY <1>0, <1>a, <2>1, <2>2, <2>3
<1>6. CASE EmptyOn \/ EmptyFails
  <2>1. TypeOK'
    BY <1>0, <1>6, EmptyingIsAStep, EmptyingKeepsTypes
  <2>2. PICK answer \in Results \cup {"pending"} :
           call' = [call EXCEPT !.sent = 1, !.answer = answer]
    BY <1>6, EmptyingIsAStep DEF Results
  <2>3. [call EXCEPT !.sent = 1] \in Calls
    BY <1>0, RequestsAreSent DEF Calls
  <2>4. call' = [[call EXCEPT !.sent = 1] EXCEPT !.answer = answer]
    BY <2>2
  <2>5. call' \in Calls
    BY <2>3, <2>4 DEF Calls
  <2>6. /\ UNCHANGED <<bucket, policy, moments>>
        /\ bucket = "ours" \/ ~Holds'
    BY <1>0, <1>6, EmptyingIsAStep
  <2> QED
    BY <1>0, <1>b, <2>1, <2>5, <2>6
<1>7. CASE DeleteAgain
  <2>1. TypeOK'
    BY <1>0, <1>7 DEF DeleteAgain, Hide, TypeOK
  <2>2. call' \in Calls
    BY <1>0, <1>7, RequestsAreSent DEF DeleteAgain, SendAgain, Calls
  <2> QED
    BY <1>0, <1>b, <1>7, <2>1, <2>2 DEF DeleteAgain
<1> QED
  BY <1>1, <1>2, <1>3, <1>4, <1>5, <1>6, <1>7 DEF ClientNext

\* The initial states are typed.
LEMMA ClientStartsTyped == ClientInit => ClientTypeOK
<1> SUFFICES ASSUME ClientInit PROVE ClientTypeOK
  OBVIOUS
<1>1. TypeOK
  BY DEF ClientInit, TypeOK
<1>2. call \in Calls
  BY RequestsAreSent DEF ClientInit, Calls, Results
<1> QED
  BY <1>1, <1>2 DEF ClientInit, ClientTypeOK, Calls, Holds

\* Only a bucket of ours has files or a policy, and no delete request is
\* empty or repeats the keys of the one before, whatever others do.
THEOREM ClientTypes == ClientSpec => []ClientTypeOK
<1>1. ClientTypeOK /\ [ClientNext]_clientVars => ClientTypeOK'
  BY ClientKeepsTypes
<1> QED
  BY <1>1, ClientStartsTyped, PTL DEF ClientSpec

-----------------------------------------------------------------------------
(* The client: what its answers mean.                                      *)

Emptying == Serves("DeleteAllObjectsInBucket")

\* The invariant of EmptyBucket, which only calls that empty the bucket touch.
ClientInv ==
    /\ ClientTypeOK
    /\ NothingIsPassedOver
    /\ EverythingIsDeleted

\* An attempt more leaves the call as it is, but for the count.
LEMMA AttemptsKeepCalls ==
    ASSUME ClientTypeOK, SendAgain
    PROVE  call'.method = call.method /\ call'.answer = call.answer
BY TypeParts DEF SendAgain, Calls

\* A return leaves the method and forgets the moments.
LEMMA ReturnsAnswer ==
    ASSUME ClientTypeOK, NEW answer, Return(answer)
    PROVE  call'.method = call.method /\ call'.answer = answer /\ moments' = {}
BY TypeParts DEF Return, Calls

\* Whatever a request does, it belongs to the same call.
LEMMA ProceedingKeepsMethod ==
    ASSUME ClientTypeOK, Proceeds
    PROVE  call'.method = call.method
BY AttemptsKeepCalls, ReturnsAnswer DEF Proceeds

\* A step of EmptyBucket, or none of it, keeps the invariant.
LEMMA EmptyingKeepsClientInv ==
    ASSUME ClientInv, ~DeletesFail, [Next]_vars, ClientTypeOK'
    PROVE  ClientInv'
<1>1. EmptyingInv
  BY TypeParts DEF ClientInv, EmptyingInv
<1>2. EmptyingInv'
  BY <1>1, EmptyingKeepsInv
<1> QED
  BY <1>2 DEF ClientInv, EmptyingInv

\* Every step keeps the invariant of emptying.
LEMMA ClientKeepsInv ==
    ASSUME ClientInv, ~DeletesFail, [ClientNext]_clientVars
    PROVE  ClientInv'
<1>0. ClientTypeOK'
  BY ClientKeepsTypes DEF ClientInv
<1>1. CASE UNCHANGED clientVars
  <2>1. UNCHANGED vars
    BY <1>1 DEF clientVars, emptyingVars, vars
  <2> QED
    BY <1>0, <2>1, EmptyingKeepsClientInv
<1>2. CASE OtherClients
  <2>1. [Next]_vars
    <3>1. CASE OthersChangeBucket
      BY <3>1 DEF OthersChangeBucket, emptyingVars, vars
    <3>2. CASE OthersChangeObjects
      BY <3>2 DEF OthersChangeObjects, Next
    <3> QED
      BY <1>2, <3>1, <3>2 DEF OtherClients
  <2> QED
    BY <1>0, <2>1, EmptyingKeepsClientInv
<1>3. ASSUME NEW method \in Methods, Ask(method) PROVE ClientInv'
  <2>1. since' = {} \/ (pc' = "list" /\ after' = {})
    BY <1>3 DEF Ask, Unused
  <2>2. pc' \in {"list", "failed"}
    BY <1>3 DEF Ask, Unused
  <2> QED
    BY <1>0, <2>1, <2>2 DEF ClientInv, NothingIsPassedOver, EverythingIsDeleted
<1>4. CASE OneRequest
  <2>1. UNCHANGED vars
    BY <1>4, RequestsProceed DEF ClientInv, vars
  <2> QED
    BY <1>0, <2>1, EmptyingKeepsClientInv
<1>5. CASE RequestIsLost
  <2>1. UNCHANGED vars
    BY <1>5 DEF RequestIsLost, emptyingVars, vars
  <2> QED
    BY <1>0, <2>1, EmptyingKeepsClientInv
<1>6. CASE EmptyOn \/ EmptyFails
  BY <1>0, <1>6, EmptyingIsAStep, EmptyingKeepsClientInv DEF ClientInv
<1>7. CASE DeleteAgain
  <2>1. /\ pc = "delete" /\ since' = since \ batch
        /\ UNCHANGED <<pc, after, batch, more>>
    BY <1>7 DEF DeleteAgain, Hide
  <2> QED
    BY <1>0, <2>1 DEF ClientInv, NothingIsPassedOver, EverythingIsDeleted
<1> QED
  BY <1>1, <1>2, <1>3, <1>4, <1>5, <1>6, <1>7 DEF ClientNext

\* EmptyBucket's promise in the middle of everything else the client does:
\* also when the SDK sends deletions again and the bucket comes and goes.
THEOREM ClientDeletesEverything ==
    ASSUME ~DeletesFail
    PROVE  ClientSpec => []EverythingIsDeleted
<1>1. ClientInit => ClientInv
  BY ClientStartsTyped
  DEF ClientInit, ClientInv, NothingIsPassedOver, EverythingIsDeleted
<1>2. ClientInv /\ [ClientNext]_clientVars => ClientInv'
  BY ClientKeepsInv
<1>3. ClientInv => EverythingIsDeleted
  BY DEF ClientInv
<1> QED
  BY <1>1, <1>2, <1>3, PTL DEF ClientSpec

-----------------------------------------------------------------------------
(* The client: its answers about buckets and policies.                     *)

\* What the answers rest on, whether deletions fail or not.
AnswerInv ==
    /\ ClientTypeOK
    /\ Busy => call.method \in Methods
    /\ Emptying => moments = {}

\* What the answers need: a call in progress is of some method.
LEMMA ClientKeepsAnswerInv ==
    ASSUME AnswerInv, [ClientNext]_clientVars
    PROVE  AnswerInv'
<1> USE DEF AnswerInv, Emptying, Serves
<1>0. ClientTypeOK'
  BY ClientKeepsTypes
<1>1. CASE UNCHANGED clientVars
  BY <1>0, <1>1 DEF clientVars, Busy
<1>2. CASE OtherClients
  BY <1>0, <1>2 DEF OtherClients, Note, Busy
<1>3. ASSUME NEW method \in Methods, Ask(method) PROVE AnswerInv'
  <2>1. call'.method = method
    BY <1>3 DEF Ask
  <2>2. method = "DeleteAllObjectsInBucket" => moments' = {}
    BY <1>3 DEF Ask
  <2> QED
    BY <1>0, <2>1, <2>2
<1>4. CASE OneRequest
  BY <1>0, <1>4, RequestsProceed, ProceedingKeepsMethod
<1>5. CASE RequestIsLost
  BY <1>0, <1>5, ReturnsAnswer DEF RequestIsLost
<1>6. CASE EmptyOn \/ EmptyFails
  <2>1. Busy /\ call.method = "DeleteAllObjectsInBucket" /\ moments' = moments
    BY <1>6, EmptyingIsAStep
  <2>2. call'.method = call.method
    BY <1>6, EmptyingIsAStep, TypeParts DEF Calls
  <2> QED
    BY <1>0, <2>1, <2>2
<1>7. CASE DeleteAgain
  BY <1>0, <1>7, AttemptsKeepCalls DEF DeleteAgain
<1> QED
  BY <1>1, <1>2, <1>3, <1>4, <1>5, <1>6, <1>7 DEF ClientNext

\* The answers of the last attempt, in the moment of that attempt.
LEMMA RefusalsEnd ==
    ASSUME ClientTypeOK, Busy, ~Busy', NEW code, Refused(code)
    PROVE  \E text \in {code, "wrapped"} : call'.answer = ErrorOf(call.method, text)
BY AttemptsKeepCalls, ReturnsAnswer DEF Refused, Busy

\* A call that ends when its request was done says so, or says error.
LEMMA AnswersEnd ==
    ASSUME ClientTypeOK, Busy, ~Busy', Done
    PROVE  call'.answer \in {"ok", "error"}
BY AttemptsKeepCalls, ReturnsAnswer DEF Done, Busy

\* A request that is about somebody else's bucket, or none.
LEMMA NotOursIsTrue ==
    ASSUME AnswerInv, ~Busy', NotOurs
    PROVE  Justifies(<<bucket', policy'>>, call.method, call'.answer)
<1>1. /\ Busy /\ bucket # "ours" /\ ~policy
      /\ bucket \in {"theirs", "none"}
      /\ bucket' = bucket /\ policy' = policy
  BY DEF NotOurs, Looks, Leaves, AnswerInv, ClientTypeOK
<1>2. CASE bucket = "theirs"
  <2>1. call'.answer = "error"
    BY <1>1, <1>2, RefusalsEnd DEF NotOurs, AnswerInv, ErrorOf, IsNotFoundError
  <2> QED
    BY <2>1 DEF Justifies
<1>3. CASE bucket = "none"
  <2>1. \/ call'.answer = "error"
        \/ /\ call'.answer = "notFound"
           /\ call.method \in {"BucketExists", "GetBucketPolicy", "DeleteBucketPolicy"}
    <3>1. Refused(IF call.method = "BucketExists" THEN "NotFound" ELSE "NoSuchBucket")
      BY <1>3 DEF NotOurs
    <3>2. PICK text : call'.answer = ErrorOf(call.method, text)
      BY <1>1, <3>1, RefusalsEnd DEF AnswerInv
    <3> QED
      BY <3>2 DEF ErrorOf
  <2> QED
    BY <1>1, <1>3, <2>1 DEF Justifies
<1> QED
  BY <1>1, <1>2, <1>3

\* The answer of a call of one request is justified by the bucket as the last
\* request left it.
LEMMA AnswersAreTrue ==
    ASSUME AnswerInv, OneRequest, ~Busy'
    PROVE  Justifies(<<bucket', policy'>>, call.method, call'.answer)
<1> USE DEF Leaves, Looks, Serves, Meets, Justifies
<1>0. ClientTypeOK /\ Busy
  BY RequestsProceed DEF AnswerInv
<1>1. CASE NotOurs
  BY <1>1, NotOursIsTrue
<1>2. CASE CreateBucket
  <2>1. bucket' = "ours" \/ call'.answer = "error"
    BY <1>0, <1>2, RefusalsEnd DEF CreateBucket, ErrorOf
  <2> QED
    BY <1>2, <2>1 DEF CreateBucket
<1>3. CASE DeleteBucket
  <2>1. bucket' = "none" \/ call'.answer = "error"
    BY <1>0, <1>3, RefusalsEnd DEF DeleteBucket, ErrorOf
  <2> QED
    BY <1>3, <2>1 DEF DeleteBucket
<1>4. CASE BucketExists
  BY <1>0, <1>4, AnswersEnd DEF BucketExists
<1>5. CASE GetBucketLocation
  BY <1>4, <1>5 DEF GetBucketLocation
<1>6. CASE ListBuckets
  BY <1>6 DEF ListBuckets
<1>7. CASE GetBucketPolicy
  <2>1. /\ call.method = "GetBucketPolicy" /\ bucket' = "ours" /\ policy' = policy
    BY <1>7 DEF GetBucketPolicy
  <2>2. CASE policy
    BY <1>0, <1>7, <2>1, <2>2, AnswersEnd DEF GetBucketPolicy
  <2>3. CASE ~policy
    <3>1. CASE Refused("NoSuchBucketPolicy")
      <4>1. call'.answer \in {"notFound", "error"}
        BY <1>0, <3>1, RefusalsEnd DEF ErrorOf
      <4> QED
        BY <2>1, <2>3, <4>1
    <3>2. CASE Return("notFound")
      BY <1>0, <2>1, <2>3, <3>2, ReturnsAnswer
    <3> QED
      BY <1>7, <2>3, <3>1, <3>2 DEF GetBucketPolicy
  <2> QED
    BY <2>2, <2>3
<1>8. CASE PutBucketPolicy
  BY <1>8 DEF PutBucketPolicy
<1>9. CASE DeleteBucketPolicy
  BY <1>9 DEF DeleteBucketPolicy
<1> QED
  BY <1>1, <1>2, <1>3, <1>4, <1>5, <1>6, <1>7, <1>8, <1>9 DEF OneRequest

\* Every other step leaves the call in progress, has no call in progress, or
\* ends it with an error.
LEMMA ReturnsWereTrue ==
    ASSUME AnswerInv, [ClientNext]_clientVars, Busy, ~Busy', moments # {}
    PROVE  Justifies(<<bucket', policy'>>, call.method, call'.answer)
<1>1. ~Emptying
  BY DEF AnswerInv
<1>2. call' # call
  BY DEF Busy
<1>3. OneRequest \/ RequestIsLost
  BY <1>1, <1>2, EmptyingIsAStep DEF ClientNext, clientVars, OtherClients, Ask, DeleteAgain,
     Emptying, AnswerInv
<1>4. CASE RequestIsLost
  BY <1>4, ReturnsAnswer DEF RequestIsLost, AnswerInv, Justifies
<1> QED
  BY <1>3, <1>4, AnswersAreTrue

\* Whatever the client says of a bucket or a policy was true at a moment of
\* the call, with requests repeated and others at work, and somebody else's
\* bucket is never reported as one that does not exist.
THEOREM AnswersTrue == ClientSpec => AnswersWereTrue
<1>1. ClientInit => AnswerInv
  <2>1. ClientInit => ~Busy
    BY DEF ClientInit, Busy
  <2> QED
    BY <2>1, ClientStartsTyped DEF AnswerInv, Emptying, Serves
<1>2. AnswerInv /\ [ClientNext]_clientVars => AnswerInv'
  BY ClientKeepsAnswerInv
<1>3. AnswerInv /\ [ClientNext]_clientVars
      => [Busy /\ ~Busy' /\ moments # {}
          => \E moment \in moments \cup {<<bucket', policy'>>} :
                Justifies(moment, call.method, call'.answer)]_clientVars
  BY ReturnsWereTrue
<1> QED
  BY <1>1, <1>2, <1>3, PTL DEF ClientSpec, AnswersWereTrue
=============================================================================
