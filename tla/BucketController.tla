-------------------------- MODULE BucketController --------------------------
(***************************************************************************)
(* internal/controller/bucket: the reconciler that makes a Backblaze B2    *)
(* bucket exist for every Bucket resource, with the two calls it makes of  *)
(* internal/clients (BucketExists, CreateBucket) and the B2 service behind *)
(* them.  Every call that leaves the process is a step of its own, so      *)
(* users, other processes and B2 itself may act between any two of them.   *)
(***************************************************************************)
EXTENDS ControllerRuntime, ProviderCredentials

CONSTANTS
    BucketNames,         \* names a Bucket resource may ask for
    BucketTypes,         \* values of spec.forProvider.bucketType
    MissingBucketErrors  \* err.Error() of a HeadBucket that finds no bucket

ASSUME BucketTypesAreThose ==
    BucketTypes # {} /\ BucketTypes \subseteq {"allPrivate", "allPublic"}
ASSUME NoNameIsNoBucket == NoName \notin BucketNames

VARIABLES
    b2,        \* [BucketNames -> "none", "theirs" or the type of our bucket]
    witnessed  \* history: [Procs -> names that were ours at some moment of
               \* the reconcile in progress]

vars == <<runtimeVars, config, b2, witnessed>>

Specs == [bucketName : BucketNames, bucketType : BucketTypes]

\* Conditions, without time and message.
Available   == [type |-> "Ready", status |-> "True",  reason |-> "Available"]
ClientError == [type |-> "Ready", status |-> "False", reason |-> "ClientError"]
CheckError  == [type |-> "Ready", status |-> "False", reason |-> "CheckError"]
CreateError == [type |-> "Ready", status |-> "False", reason |-> "CreateError"]
Conditions  == {Available, ClientError, CheckError, CreateError}

Statuses == [conditions : SUBSET Conditions, bucketName : BucketNames \cup {NoName}]
NoStatus == [conditions |-> {}, bucketName |-> NoName]

Phases == {"headBucket", "headRefused", "createBucket", "updateStatus"}

\* Mutant: every condition goes under the type Synced.
MistypedCondition(bucket, c) ==
    [bucket EXCEPT !.status.conditions = {[c EXCEPT !.type = "Synced"]}]

\* Mutant: the new condition is added to the old ones.
ConditionsPileUp(bucket, c) == [bucket EXCEPT !.status.conditions = @ \cup {c}]

\* BucketStatus.SetConditions replaces the whole slice.
SetCondition(bucket, c) == [bucket EXCEPT !.status.conditions = {c}]

GetBucketName(bucket) == bucket.spec.bucketName

Ours(name) == b2[name] \in {"allPrivate", "allPublic"}

Init ==
    /\ RuntimeInit
    /\ config \in Configs
    /\ b2 \in [BucketNames -> {"none", "theirs", "allPrivate"}]
    /\ witnessed = [p \in Procs |-> {}]

-----------------------------------------------------------------------------
(* B2 and the S3 client.                                                   *)

\* Mutant: one of the two texts is forgotten.
OnlyNoSuchBucket(text) == text = "NoSuchBucket"

\* isNotFoundError compares the whole text of the error.
IsNotFoundError(text) == text \in {"NotFound", "NoSuchBucket"}

\* A bucket of ours appears: reconciles in progress may take note of it.
Appears(name, type) ==
    /\ b2' = [b2 EXCEPT ![name] = type]
    /\ witnessed' = [p \in Procs |->
                        IF work[p] = Idle THEN {} ELSE witnessed[p] \cup {name}]

\* Somebody else takes a name, or we (outside Kubernetes) create or delete a
\* bucket, or its owner deletes one.
OutsideChange ==
    /\ Disturb
    /\ \E name \in BucketNames :
          \/ /\ b2[name] = "none"
             /\ \/ Appears(name, "allPrivate")
                \/ b2' = [b2 EXCEPT ![name] = "theirs"] /\ UNCHANGED witnessed
          \/ /\ b2[name] # "none"
             /\ b2' = [b2 EXCEPT ![name] = "none"]
             /\ UNCHANGED witnessed
    /\ UNCHANGED <<log, seen, queue, work, config>>

-----------------------------------------------------------------------------
(* BucketReconciler.Reconcile                                              *)

\* The Get of the Bucket (from the cache) says NotFound: nothing to do.
GetFindsNothing(p, o) ==
    /\ ~Exists(o, seen[p][o])
    /\ Drop(p, o)
    /\ UNCHANGED <<work, budget, witnessed>>

\* Mutant: every error of the Get is taken for NotFound.
GetFailureIgnored(p, o) ==
    /\ Disturb
    /\ Drop(p, o)
    /\ UNCHANGED <<work, witnessed>>

\* The Get fails otherwise.
GetFails(p, o) ==
    /\ Disturb
    /\ Requeue(p, o)
    /\ UNCHANGED <<work, witnessed>>

\* The reconciler's getBackblazeClient returns a client and no error.
GetBackblazeClient == ClientAvailable(config)

\* The Get succeeds and so does, or does not, getBackblazeClient (which reads
\* the caches too, and calls no one; it may also fail for reasons of its own).
\* What B2 will make of the client is settled by the keys it is made with.
\* There is no check for deletion.
GetFindsBucket(p, o) ==
    LET bucket == log[o][seen[p][o]] IN
    /\ Exists(o, seen[p][o])
    /\ Drop(p, o)
    /\ \/ /\ GetBackblazeClient
          /\ Reconciling(p, o, IF Accepted(config) THEN "headBucket" ELSE "headRefused",
                         bucket)
          /\ UNCHANGED budget
       \/ /\ Reconciling(p, o, "updateStatus", SetCondition(bucket, ClientError))
          /\ (~GetBackblazeClient /\ UNCHANGED budget) \/ Disturb
    /\ witnessed' = [witnessed EXCEPT ![p] = {n \in BucketNames : Ours(n)}]

StartReconcile(p, o) ==
    /\ MayTake(p, o)
    /\ GetFindsNothing(p, o) \/ GetFails(p, o) \/ GetFindsBucket(p, o)
    /\ UNCHANGED <<log, seen, config, b2>>

\* The status of a reconcile that succeeded.
Succeed(bucket) ==
    SetCondition([bucket EXCEPT !.status.bucketName = GetBucketName(bucket)],
                 Available)

\* service.BucketExists: somebody else's bucket answers 403, and the call may
\* fail for reasons of its own.
HeadBucket(p) ==
    LET bucket == work[p].copy
        name == GetBucketName(bucket)
    IN
    /\ work[p].pc = "headBucket"
    /\ \/ /\ Ours(name)
          /\ Goto(p, "updateStatus", Succeed(bucket))
          /\ UNCHANGED budget
       \/ /\ b2[name] = "none"
          /\ \E text \in MissingBucketErrors :
                IF IsNotFoundError(text)
                THEN Goto(p, "createBucket", bucket)
                ELSE Goto(p, "updateStatus", SetCondition(bucket, CheckError))
          /\ UNCHANGED budget
       \/ /\ b2[name] = "theirs"
          /\ Goto(p, "updateStatus", SetCondition(bucket, CheckError))
          /\ UNCHANGED budget
       \/ /\ Disturb
          /\ Goto(p, "updateStatus", SetCondition(bucket, CheckError))
    /\ UNCHANGED <<log, seen, queue, config, b2, witnessed>>

\* The same call with keys that B2 does not accept: 403, whatever there is.
HeadRefused(p) ==
    /\ work[p].pc = "headRefused"
    /\ Goto(p, "updateStatus", SetCondition(work[p].copy, CheckError))
    /\ UNCHANGED <<log, seen, queue, budget, config, b2, witnessed>>

\* Mutant: "already exists" is as good as created.
TakenIsFine(bucket) == Succeed(bucket)

CreateFailed(bucket) == SetCondition(bucket, CreateError)

\* service.CreateBucket: the bucket type is not passed on, B2's default is
\* private.  A name that is taken, by anyone, is refused; a call may fail
\* before or after the bucket has been created.  SetExternalName changes the
\* copy in memory.
CreateBucket(p) ==
    LET bucket == work[p].copy
        name == GetBucketName(bucket)
    IN
    /\ work[p].pc = "createBucket"
    /\ \/ /\ b2[name] = "none"
          /\ Appears(name, "allPrivate")
          /\ \/ /\ Goto(p, "updateStatus",
                        Succeed([bucket EXCEPT !.external = name]))
                /\ UNCHANGED budget
             \/ Disturb /\ Goto(p, "updateStatus", CreateFailed(bucket))
       \/ /\ Goto(p, "updateStatus", CreateFailed(bucket))
          /\ (b2[name] # "none" /\ UNCHANGED budget) \/ Disturb
          /\ UNCHANGED <<b2, witnessed>>
    /\ UNCHANGED <<log, seen, queue, config>>

\* Mutant: the status is patched, whatever has been stored meanwhile.
PatchStatus(p) ==
    /\ work[p].pc = "updateStatus"
    /\ StatusPatch(p)
    /\ witnessed' = [witnessed EXCEPT ![p] = {}]
    /\ UNCHANGED <<config, b2>>

\* r.Client.Status().Update, then the return: RequeueAfter, or the error.
UpdateStatus(p) ==
    /\ work[p].pc = "updateStatus"
    /\ StatusUpdate(p)
    /\ witnessed' = [witnessed EXCEPT ![p] = {}]
    /\ UNCHANGED <<config, b2>>

Reconcile(p) ==
    HeadBucket(p) \/ HeadRefused(p) \/ CreateBucket(p) \/ UpdateStatus(p)

-----------------------------------------------------------------------------
Users ==
    \/ /\ \E o \in Objects :
             \/ \E spec \in Specs :
                   CreateObject(o, spec, NoStatus) \/ EditSpec(o, spec)
             \/ DeleteObject(o)
             \/ DeleteHeldObject(o)
       /\ UNCHANGED <<config, b2, witnessed>>
    \/ /\ Disturb
       /\ ChangeConfig
       /\ UNCHANGED <<log, seen, queue, work, b2, witnessed>>

Kubernetes ==
    /\ \E p \in Procs :
          \/ /\ \E o \in Objects :
                   Observe(p, o) \/ Resync(p, o)
             /\ UNCHANGED witnessed
          \/ /\ Restart(p)
             /\ witnessed' = [witnessed EXCEPT ![p] = {}]
    /\ UNCHANGED <<config, b2>>

Next ==
    \/ Users
    \/ OutsideChange
    \/ Kubernetes
    \/ \E p \in Procs :
          \/ \E o \in Objects : StartReconcile(p, o)
          \/ Reconcile(p)

\* The watch delivers, a worker finishes what it began, timers expire, and the
\* FIFO work queue gets to every object in it however often others are added.
Fairness ==
    \A p \in Procs :
        /\ WF_vars(Reconcile(p))
        /\ \A o \in Objects :
              /\ WF_vars(Observe(p, o) /\ UNCHANGED <<config, b2, witnessed>>)
              /\ SF_vars(StartReconcile(p, o))

Spec == Init /\ [][Next]_vars

FairSpec == Spec /\ Fairness

-----------------------------------------------------------------------------
TypeOK ==
    /\ RuntimeTypeOK(Specs, Statuses, BucketNames, Phases)
    /\ config \in Configs
    /\ b2 \in [BucketNames -> {"none", "theirs", "allPrivate", "allPublic"}]
    /\ witnessed \in [Procs -> SUBSET BucketNames]

Ready(version) == Available \in version.status.conditions

\* No Bucket that exists is ever overlooked: whatever has failed, crashed or
\* been answered late, each process still has an event, a queue entry, a
\* timer or a running reconcile for it (every return of Reconcile but the one
\* for a missing object schedules the next).
NeverForgotten ==
    \A p \in Procs, o \in Objects : Alive(o) => Remembered(p, o)

\* A status that says Ready is about the spec it is stored beside: a rename
\* between the read of a Bucket and the update of its status does not leave
\* the new name marked Ready on the strength of the old one.
ReadyDescribesSpec ==
    [][\A o \in Objects :
          IsStatusWrite(o) /\ Ready(Latest(o)')
          => Latest(o)'.status.bucketName = Latest(o)'.spec.bucketName]_vars

\* Ready is never reported on hearsay: the bucket was ours at some moment of
\* the very reconcile that says so, not in an earlier one and not because a
\* creation was merely attempted.
ReadyWasWitnessed ==
    [][\A o \in Objects :
          IsStatusWrite(o) /\ Ready(Latest(o)')
          => \E p \in Procs : /\ work[p] # Idle
                              /\ work'[p] = Idle
                              /\ work[p].obj = o
                              /\ Latest(o)'.status.bucketName \in witnessed[p]]_vars

\* The strengthening the proofs need: a reconcile in progress has taken note
\* of every bucket that is ours, and when it is about to say Ready it says so
\* of the bucket its spec names and of which it has taken note.
ClaimIsEarned(p) ==
    LET w == work[p] IN
    /\ \A n \in BucketNames : Ours(n) => n \in witnessed[p]
    /\ w.pc = "updateStatus" /\ Ready(w.copy)
       => /\ w.copy.status.bucketName = w.copy.spec.bucketName
          /\ w.copy.spec.bucketName \in witnessed[p]

Inv ==
    /\ CachesAreBehind
    /\ WorkIsRooted
    /\ \A p \in Procs : work[p] # Idle => ClaimIsEarned(p)

\* What a Bucket's status should come to say, given B2 and the credentials.
Settled(o) ==
    LET v == Latest(o)
        name == v.spec.bucketName
    IN  Alive(o) =>
        IF ~GetBackblazeClient
        THEN v.status.conditions = {ClientError}
        ELSE IF ~Accepted(config) \/ b2[name] = "theirs"
        THEN v.status.conditions = {CheckError}
        ELSE Ours(name) /\ Ready(v) /\ v.status.bucketName = name

\* Once users, faults and crashes stop, every Bucket gets its bucket back and
\* a status that tells the truth about B2 and about the credentials, with no
\* event ever reporting a change of either: only the periodic requeues do it.
EventuallySettled == <>[](\A o \in Objects : Settled(o))

-----------------------------------------------------------------------------
(* What the documentation promises and the code does not do.               *)

\* examples/bucket.yaml:11 and the existence check of bucket.go: a Bucket
\* whose bucket is missing gets it created.
MissingBucketsAreCreated ==
    <>[](\A o \in Objects :
            Alive(o) /\ GetBackblazeClient /\ Accepted(config)
            => b2[Latest(o).spec.bucketName] # "none")
=============================================================================
