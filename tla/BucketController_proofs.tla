---------------------- MODULE BucketController_proofs ----------------------
(***************************************************************************)
(* The safety properties of BucketController, for any number of Buckets,   *)
(* processes, names, error texts and disturbances.                         *)
(*                                                                         *)
(* NeverForgotten and ReadyDescribesSpec are not inductive by themselves:  *)
(* the first needs the caches to be behind the server, the second that the *)
(* copy a worker holds is rooted in the version it was read at, the third  *)
(* (ReadyWasWitnessed) what ClaimIsEarned says of a reconcile in progress. *)
(* IInv is their conjunction.                                              *)
(***************************************************************************)
EXTENDS BucketController, RuntimeLemmas

BucketVersions == Versions(Specs, Statuses, BucketNames)

IInv == TypeOK /\ Inv /\ NeverForgotten

\* IInv in the terms of RuntimeLemmas.
LEMMA IInvParts ==
    IInv <=> /\ RuntimeTypeOK(Specs, Statuses, BucketNames, Phases)
             /\ config \in Configs
             /\ b2 \in [BucketNames -> {"none", "theirs", "allPrivate", "allPublic"}]
             /\ witnessed \in [Procs -> SUBSET BucketNames]
             /\ RuntimeInv
             /\ \A p \in Procs : work[p] # Idle => ClaimIsEarned(p)
             /\ NeverForgotten
BY DEF IInv, TypeOK, Inv, RuntimeInv

\* The initial states: nothing exists, nobody is at work.
LEMMA Initially == Init => IInv
<1> SUFFICES ASSUME Init PROVE IInv
  OBVIOUS
<1>1. /\ log = [o \in Objects |-> <<>>]
      /\ seen = [p \in Procs |-> [o \in Objects |-> 0]]
      /\ queue = [p \in Procs |-> {}]
      /\ work = [p \in Procs |-> Idle]
      /\ budget \in Nat
  BY BoundIsNatural DEF Init, RuntimeInit
<1>2. log \in [Objects -> Seq(BucketVersions)]
  BY <1>1, EmptySeq
<1>3. TypeOK
  BY <1>1, <1>2 DEF Init, TypeOK, RuntimeTypeOK, BucketVersions
<1>4. \A p \in Procs, o \in Objects : seen[p][o] = 0 /\ Len(log[o]) = 0
  BY <1>1, EmptySeq
<1>5. Inv
  BY <1>1, <1>4 DEF Inv, CachesAreBehind, WorkIsRooted
<1>6. NeverForgotten
  BY <1>4 DEF NeverForgotten, Alive, Exists
<1> QED
  BY <1>3, <1>5, <1>6 DEF IInv

\* The claim of a worker that does nothing outlives every step that leaves
\* the buckets and its notes alone.
LEMMA ClaimStays ==
    ASSUME NEW p \in Procs, ClaimIsEarned(p),
           work'[p] = work[p], witnessed'[p] = witnessed[p], b2' = b2
    PROVE  ClaimIsEarned(p)'
BY DEF ClaimIsEarned, Ours

\* A new version of a Bucket: news to every cache, and no matter to the
\* reconciles in progress.
LEMMA CommitKeepsIInv ==
    ASSUME IInv, NEW o \in Objects, NEW version \in BucketVersions,
           Commit(o, version), budget' \in Nat,
           UNCHANGED <<seen, queue, work, config, b2, witnessed>>
    PROVE  IInv'
<1>1. RuntimeTypeOK(Specs, Statuses, BucketNames, Phases)' /\ RuntimeInv'
  BY IInvParts, CommitKeepsRuntime DEF BucketVersions
<1>2. \A p \in Procs : work'[p] # Idle => ClaimIsEarned(p)'
  BY IInvParts, ClaimStays
<1>3. ASSUME NEW p \in Procs, NEW other \in Objects, Alive(other)'
      PROVE  Remembered(p, other)'
  <2>1. CASE other = o
    BY <2>1, IInvParts, CommitIsNews DEF BucketVersions
  <2>2. CASE other # o
    <3>1. log'[other] = log[other]
      BY <2>2, IInvParts DEF RuntimeTypeOK, Commit
    <3>2. Remembered(p, other)
      BY <1>3, <3>1, IInvParts DEF NeverForgotten, Alive, Exists
    <3> QED
      BY <3>1, <3>2, RememberedStays
  <2> QED
    BY <2>1, <2>2
<1>4. NeverForgotten'
  BY <1>3 DEF NeverForgotten
<1> QED
  BY <1>1, <1>2, <1>4, IInvParts DEF IInv, TypeOK, Inv, RuntimeInv

\* Whatever users do to Buckets is one of the acts RuntimeLemmas speaks of.
LEMMA UsersActOnObjects ==
    ASSUME IInv,
           \E o \in Objects :
              \/ \E spec \in Specs :
                    CreateObject(o, spec, NoStatus) \/ EditSpec(o, spec)
              \/ DeleteObject(o)
              \/ DeleteHeldObject(o)
    PROVE  \E o \in Objects, spec \in Specs : UserAct(o, spec, NoStatus)
<1>1. PICK o \in Objects :
         \/ \E spec \in Specs :
               CreateObject(o, spec, NoStatus) \/ EditSpec(o, spec)
         \/ DeleteObject(o)
         \/ DeleteHeldObject(o)
  OBVIOUS
<1>2. Alive(o) => Latest(o).spec \in Specs
  <2>1. log[o] \in Seq(BucketVersions)
    BY IInvParts DEF RuntimeTypeOK, BucketVersions
  <2>2. Alive(o) => Latest(o) \in BucketVersions
    BY <2>1, ElementOfSeq, LenProperties DEF Alive, Exists, Latest
  <2> QED
    BY <2>2 DEF BucketVersions, Versions
<1> QED
  BY <1>1, <1>2 DEF UserAct, DeleteObject, DeleteHeldObject

\* What users do to Buckets and to their credentials.
LEMMA UsersKeepIInv == ASSUME IInv, Users PROVE IInv'
<1>1. NoStatus \in Statuses
  BY DEF NoStatus, Statuses
<1>2. CASE /\ \E o \in Objects :
                 \/ \E spec \in Specs :
                       CreateObject(o, spec, NoStatus) \/ EditSpec(o, spec)
                 \/ DeleteObject(o)
                 \/ DeleteHeldObject(o)
           /\ UNCHANGED <<config, b2, witnessed>>
  <2>3. PICK o \in Objects, spec \in Specs : UserAct(o, spec, NoStatus)
    BY <1>2, UsersActOnObjects
  <2>4. /\ \E version \in BucketVersions : Commit(o, version)
        /\ budget' \in Nat
        /\ UNCHANGED <<seen, queue, work>>
    BY <1>1, <2>3, IInvParts, UserActsCommit DEF BucketVersions
  <2> QED
    BY <1>2, <2>4, CommitKeepsIInv
<1>3. CASE /\ Disturb
           /\ ChangeConfig
           /\ UNCHANGED <<log, seen, queue, work, b2, witnessed>>
  <2>1. config' \in Configs /\ budget' \in Nat
    BY <1>3, IInvParts DEF Disturb, ChangeConfig, RuntimeTypeOK
  <2>2. RuntimeTypeOK(Specs, Statuses, BucketNames, Phases)'
    BY <1>3, <2>1, IInvParts DEF RuntimeTypeOK
  <2>3. RuntimeInv'
    BY <1>3, IInvParts DEF RuntimeInv, CachesAreBehind, WorkIsRooted, Rooted
  <2>4. NeverForgotten'
    BY <1>3, IInvParts DEF NeverForgotten, Alive, Exists, Remembered
  <2>5. \A p \in Procs : work'[p] # Idle => ClaimIsEarned(p)'
    BY <1>3, IInvParts, ClaimStays
  <2> QED
    BY <1>3, <2>1, <2>2, <2>3, <2>4, <2>5, IInvParts DEF IInv, TypeOK, Inv, RuntimeInv
<1> QED
  BY <1>2, <1>3 DEF Users

\* Buckets that come and go behind the controller's back.
LEMMA OutsideChangeKeepsIInv == ASSUME IInv, OutsideChange PROVE IInv'
<1>1. /\ UNCHANGED <<log, seen, queue, work, config>>
      /\ budget' \in Nat
  BY IInvParts DEF OutsideChange, Disturb, RuntimeTypeOK
<1>2. PICK name \in BucketNames :
          \/ Appears(name, "allPrivate")
          \/ /\ b2' = [b2 EXCEPT ![name] = "theirs"]
             /\ UNCHANGED witnessed
          \/ /\ b2' = [b2 EXCEPT ![name] = "none"]
             /\ UNCHANGED witnessed
  BY DEF OutsideChange
<1>3. /\ b2' \in [BucketNames -> {"none", "theirs", "allPrivate", "allPublic"}]
      /\ witnessed' \in [Procs -> SUBSET BucketNames]
  BY <1>2, IInvParts DEF Appears
<1>4. ASSUME NEW p \in Procs, work[p] # Idle
      PROVE  ClaimIsEarned(p)'
  <2>1. ClaimIsEarned(p)
    BY <1>4, IInvParts
  <2>2. \A n \in BucketNames : Ours(n)' => n \in witnessed'[p]
    BY <1>2, <1>4, <2>1, IInvParts DEF ClaimIsEarned, Ours, Appears
  <2>3. witnessed[p] \subseteq witnessed'[p]
    BY <1>2, <1>4, IInvParts DEF Appears
  <2> QED
    BY <1>1, <2>1, <2>2, <2>3 DEF ClaimIsEarned
<1>5. RuntimeTypeOK(Specs, Statuses, BucketNames, Phases)'
  BY <1>1, IInvParts DEF RuntimeTypeOK
<1>6. RuntimeInv' /\ NeverForgotten'
  BY <1>1, IInvParts
  DEF RuntimeInv, CachesAreBehind, WorkIsRooted, Rooted,
      NeverForgotten, Alive, Exists, Remembered
<1> QED
  BY <1>1, <1>3, <1>4, <1>5, <1>6, IInvParts DEF IInv, TypeOK, Inv, RuntimeInv

\* Watch events, resyncs and restarts.
LEMMA KubernetesKeepsIInv == ASSUME IInv, Kubernetes PROVE IInv'
<1>1. PICK p \in Procs :
          \/ /\ \E o \in Objects : Observe(p, o) \/ Resync(p, o)
             /\ UNCHANGED witnessed
          \/ /\ Restart(p)
             /\ witnessed' = [witnessed EXCEPT ![p] = {}]
  BY DEF Kubernetes
<1>2. UNCHANGED <<config, b2>>
  BY DEF Kubernetes
<1>3. log' = log
  BY <1>1 DEF Observe, Resync, Restart
<1>4. RuntimeTypeOK(Specs, Statuses, BucketNames, Phases)' /\ RuntimeInv'
  BY <1>1, IInvParts, CachesKeepRuntime
<1>5. witnessed' \in [Procs -> SUBSET BucketNames]
  BY <1>1, IInvParts
<1>6. ASSUME NEW q \in Procs, work'[q] # Idle
      PROVE  ClaimIsEarned(q)'
  <2>1. work'[q] = work[q] /\ witnessed'[q] = witnessed[q]
    BY <1>1, <1>6, IInvParts DEF Observe, Resync, Restart, RuntimeTypeOK
  <2> QED
    BY <1>2, <1>6, <2>1, IInvParts, ClaimStays
<1>7. ASSUME NEW q \in Procs, NEW other \in Objects, Alive(other)'
      PROVE  Remembered(q, other)'
  <2>1. Alive(other) /\ Remembered(q, other)
    BY <1>3, <1>7, IInvParts DEF NeverForgotten, Alive, Exists
  <2> QED
    BY <1>1, <2>1, IInvParts, CachesRemember
<1>8. NeverForgotten'
  BY <1>7 DEF NeverForgotten
<1> QED
  BY <1>2, <1>4, <1>5, <1>6, <1>8, IInvParts DEF IInv, TypeOK, Inv, RuntimeInv

\* Setting a condition changes nothing but the conditions.
LEMMA SetConditionFacts ==
    ASSUME NEW v \in BucketVersions, NEW c \in Conditions
    PROVE  /\ SetCondition(v, c) \in BucketVersions
           /\ SetCondition(v, c).status.conditions = {c}
           /\ SetCondition(v, c).status.bucketName = v.status.bucketName
           /\ SetCondition(v, c).uid = v.uid
           /\ SetCondition(v, c).gen = v.gen
           /\ SetCondition(v, c).deleting = v.deleting
           /\ SetCondition(v, c).spec = v.spec
<1> USE DEF BucketVersions, Versions
<1>1. v.status \in Statuses
  OBVIOUS
<1>2. [v.status EXCEPT !.conditions = {c}] \in Statuses
  BY <1>1 DEF Statuses
<1>3. SetCondition(v, c) = [v EXCEPT !.status = [v.status EXCEPT !.conditions = {c}]]
  BY DEF SetCondition
<1> QED
  BY <1>1, <1>2, <1>3 DEF Statuses

\* Success puts the name the spec asks for beside Available.
LEMMA SucceedFacts ==
    ASSUME NEW v \in BucketVersions
    PROVE  /\ Succeed(v) \in BucketVersions
           /\ Succeed(v).status.bucketName = v.spec.bucketName
           /\ Succeed(v).uid = v.uid
           /\ Succeed(v).gen = v.gen
           /\ Succeed(v).deleting = v.deleting
           /\ Succeed(v).spec = v.spec
<1> DEFINE named == [v EXCEPT !.status.bucketName = GetBucketName(v)]
<1>1. v.status \in Statuses /\ v.spec.bucketName \in BucketNames
  BY DEF BucketVersions, Versions, Specs
<1>2. [v.status EXCEPT !.bucketName = v.spec.bucketName] \in Statuses
  BY <1>1 DEF Statuses
<1>3. named = [v EXCEPT !.status = [v.status EXCEPT !.bucketName = v.spec.bucketName]]
  BY DEF GetBucketName
<1>4. /\ named \in BucketVersions
      /\ named.status.bucketName = v.spec.bucketName
      /\ named.uid = v.uid
      /\ named.gen = v.gen
      /\ named.deleting = v.deleting
      /\ named.spec = v.spec
  BY <1>1, <1>2, <1>3 DEF BucketVersions, Versions, Statuses
<1>5. Succeed(v) = SetCondition(named, Available) /\ Available \in Conditions
  BY DEF Succeed, Conditions
<1> HIDE DEF named
<1> QED
  BY <1>4, <1>5, SetConditionFacts

\* A condition other than Available is no claim.
LEMMA NoClaim ==
    ASSUME NEW v \in BucketVersions, NEW c \in {ClientError, CheckError, CreateError}
    PROVE  c \in Conditions /\ ~Ready(SetCondition(v, c))
<1>1. c \in Conditions /\ c # Available
  BY DEF Conditions, ClientError, CheckError, CreateError, Available
<1> QED
  BY <1>1, SetConditionFacts DEF Ready

\* A reconcile in progress holds a well-formed copy.
LEMMA CopiesAreVersions ==
    ASSUME IInv, NEW p \in Procs, work[p] # Idle
    PROVE  /\ work[p].copy \in BucketVersions
           /\ work[p].copy.spec.bucketName \in BucketNames
           /\ work[p].obj \in Objects
BY IInvParts
DEF RuntimeTypeOK, Reconciles, BucketVersions, Versions, Specs

\* A step of one worker that leaves the server, the caches and the queue
\* alone and keeps hold of its object makes nobody forget anything.
LEMMA GotoKeepsMemory ==
    ASSUME IInv, NEW p \in Procs, work[p] # Idle, NEW pc, NEW copy,
           Goto(p, pc, copy), UNCHANGED <<log, seen, queue>>
    PROVE  NeverForgotten'
<1>1. /\ work[p] \in Reconciles(Specs, Statuses, BucketNames, Phases)
      /\ work' = [work EXCEPT ![p] = [work[p] EXCEPT !.pc = pc, !.copy = copy]]
  BY IInvParts DEF RuntimeTypeOK, Goto
<1>2. work'[p].obj = work[p].obj
  BY <1>1, IInvParts DEF RuntimeTypeOK, Reconciles
<1>3. work'[p] # Idle
  BY <1>1, IInvParts DEF RuntimeTypeOK, Reconciles, Idle
<1> SUFFICES ASSUME NEW q \in Procs, NEW o \in Objects, Alive(o)'
             PROVE  Remembered(q, o)'
  BY DEF NeverForgotten
<1>4. Remembered(q, o)
  BY IInvParts DEF NeverForgotten, Alive, Exists
<1>5. CASE q = p
  BY <1>2, <1>3, <1>4, <1>5, RememberedStays
<1>6. CASE q # p
  <2>1. work'[q] = work[q]
    BY <1>1, <1>6, IInvParts DEF RuntimeTypeOK
  <2> QED
    BY <1>4, <2>1, RememberedStays
<1> QED
  BY <1>5, <1>6

\* What a step of a reconcile has to respect: it notes the buckets that are
\* ours, and claims nothing about a bucket it has not noted.
LEMMA GotoKeepsIInv ==
    ASSUME IInv, NEW p \in Procs, work[p] # Idle,
           NEW pc \in Phases, NEW copy \in BucketVersions, Goto(p, pc, copy),
           copy.uid = work[p].copy.uid, copy.gen = work[p].copy.gen,
           copy.deleting = work[p].copy.deleting, copy.spec = work[p].copy.spec,
           pc = "updateStatus" /\ Ready(copy)
           => /\ copy.status.bucketName = work[p].copy.spec.bucketName
              /\ work[p].copy.spec.bucketName \in witnessed'[p],
           b2' \in [BucketNames -> {"none", "theirs", "allPrivate", "allPublic"}],
           witnessed' \in [Procs -> SUBSET BucketNames],
           \A q \in Procs : work[q] # Idle =>
              /\ witnessed[q] \subseteq witnessed'[q]
              /\ \A n \in BucketNames : Ours(n)' => n \in witnessed'[q],
           budget' \in Nat, UNCHANGED <<log, seen, queue, config>>
    PROVE  IInv'
<1>1. RuntimeTypeOK(Specs, Statuses, BucketNames, Phases)' /\ RuntimeInv'
  <2>1. RuntimeTypeOK(Specs, Statuses, BucketNames, Phases) /\ RuntimeInv
    BY IInvParts
  <2>2. copy \in Versions(Specs, Statuses, BucketNames)
    BY DEF BucketVersions
  <2> QED
    BY <2>1, <2>2, GotoKeepsRuntime
<1>2. NeverForgotten'
  BY GotoKeepsMemory
<1>3. /\ work[p] \in Reconciles(Specs, Statuses, BucketNames, Phases)
      /\ work' = [work EXCEPT ![p] = [work[p] EXCEPT !.pc = pc, !.copy = copy]]
  BY IInvParts DEF RuntimeTypeOK, Goto
<1>4. /\ work'[p].pc = pc
      /\ work'[p].copy = copy
      /\ \A q \in Procs \ {p} : work'[q] = work[q]
  BY <1>3, IInvParts DEF RuntimeTypeOK, Reconciles
<1>5. ASSUME NEW q \in Procs, work'[q] # Idle
      PROVE  ClaimIsEarned(q)'
  <2>1. CASE q = p
    BY <1>4, <2>1 DEF ClaimIsEarned
  <2>2. CASE q # p
    BY <1>4, <1>5, <2>2, IInvParts DEF ClaimIsEarned
  <2> QED
    BY <2>1, <2>2
<1> QED
  BY <1>1, <1>2, <1>5, IInvParts DEF IInv, TypeOK, Inv, RuntimeInv

\* A reconcile begins: with the deletion of what the cache does not hold, an
\* error, or a copy of what it does.
LEMMA StartReconcileKeepsIInv ==
    ASSUME IInv, NEW p \in Procs, NEW o \in Objects, StartReconcile(p, o)
    PROVE  IInv'
<1>1. MayTake(p, o) /\ UNCHANGED <<log, seen, config, b2>>
  BY DEF StartReconcile
<1>2. work[p] = Idle /\ o \in queue[p]
  BY <1>1 DEF MayTake
<1>3. ASSUME GetFindsNothing(p, o) \/ GetFails(p, o)
      PROVE  IInv'
  <2>1. /\ work' = work
        /\ witnessed' = witnessed
        /\ budget' \in Nat
    BY <1>3, IInvParts
    DEF GetFindsNothing, GetFails, Disturb, RuntimeTypeOK
  <2>2. \/ queue' = [queue EXCEPT ![p] = @ \ {o}] /\ ~Exists(o, seen[p][o])
        \/ queue' = [queue EXCEPT ![p] = @ \cup {o}]
    BY <1>3 DEF GetFindsNothing, GetFails, Drop, Requeue
  <2>3. /\ work' = [work EXCEPT ![p] = Idle]
        /\ queue' \in [Procs -> SUBSET Objects]
        /\ \A q \in Procs \ {p} : queue'[q] = queue[q]
    <3>1. work' = [work EXCEPT ![p] = Idle]
      BY <1>2, <2>1, IInvParts DEF RuntimeTypeOK
    <3>2. queue \in [Procs -> SUBSET Objects]
      BY IInvParts DEF RuntimeTypeOK
    <3> QED
      BY <2>2, <3>1, <3>2
  <2>4. RuntimeTypeOK(Specs, Statuses, BucketNames, Phases)' /\ RuntimeInv'
    BY <1>1, <2>1, <2>3, IInvParts, IdleKeepsRuntime
  <2>5. \A q \in Procs : work'[q] # Idle => ClaimIsEarned(q)'
    BY <1>1, <2>1, IInvParts, ClaimStays
  <2>6. ASSUME NEW q \in Procs, NEW other \in Objects, Alive(other)'
        PROVE  Remembered(q, other)'
    <3>1. Alive(other) /\ Remembered(q, other)
      BY <1>1, <2>6, IInvParts DEF NeverForgotten, Alive, Exists
    <3>2. CASE other \in queue[q] => other \in queue'[q]
      BY <1>1, <2>1, <3>1, <3>2, RememberedStays
    <3>3. CASE ~(other \in queue[q] => other \in queue'[q])
      <4>1. q = p /\ other = o /\ ~Exists(o, seen[p][o])
        BY <2>2, <3>3, IInvParts DEF RuntimeTypeOK
      <4>2. seen[p][o] # Len(log[o])
        BY <3>1, <4>1 DEF Alive
      <4>3. seen[p][o] <= Len(log[o]) /\ seen[p][o] \in Nat /\ Len(log[o]) \in Nat
        BY IInvParts, LenProperties DEF RuntimeInv, CachesAreBehind, RuntimeTypeOK
      <4> QED
        BY <1>1, <4>1, <4>2, <4>3 DEF Remembered
    <3> QED
      BY <3>2, <3>3
  <2>7. NeverForgotten'
    BY <2>6 DEF NeverForgotten
  <2> QED
    BY <1>1, <2>1, <2>4, <2>5, <2>7, IInvParts DEF IInv, TypeOK, Inv, RuntimeInv
<1>4. ASSUME GetFindsBucket(p, o)
      PROVE  IInv'
  <2> DEFINE bucket == log[o][seen[p][o]]
  <2>1. bucket \in BucketVersions
    <3>1. seen[p][o] \in 1 .. Len(log[o]) /\ log[o] \in Seq(BucketVersions)
      BY <1>4, IInvParts, LenProperties
      DEF GetFindsBucket, Exists, RuntimeInv, CachesAreBehind, RuntimeTypeOK,
          BucketVersions
    <3> QED
      BY <3>1, ElementOfSeq
  <2>2. /\ Exists(o, seen[p][o])
        /\ Drop(p, o)
        /\ witnessed' = [witnessed EXCEPT ![p] = {n \in BucketNames : Ours(n)}]
        /\ budget' \in Nat
        /\ \/ Reconciling(p, o, "headBucket", bucket)
           \/ Reconciling(p, o, "headRefused", bucket)
           \/ Reconciling(p, o, "updateStatus", SetCondition(bucket, ClientError))
    <3>1. budget \in Nat
      BY IInvParts DEF RuntimeTypeOK
    <3>2. CASE Accepted(config)
      BY <1>4, <3>1, <3>2 DEF GetFindsBucket, Disturb
    <3>3. CASE ~Accepted(config)
      BY <1>4, <3>1, <3>3 DEF GetFindsBucket, Disturb
    <3> QED
      BY <3>2, <3>3
  <2> HIDE DEF bucket
  <2>3. PICK pc \in Phases, copy \in BucketVersions :
           /\ Reconciling(p, o, pc, copy)
           /\ copy.uid = bucket.uid
           /\ copy.gen = bucket.gen
           /\ copy.deleting = bucket.deleting
           /\ copy.spec = bucket.spec
           /\ pc = "updateStatus" => ~Ready(copy)
    BY <2>1, <2>2, SetConditionFacts, NoClaim DEF Phases
  <2>4. RuntimeTypeOK(Specs, Statuses, BucketNames, Phases)' /\ RuntimeInv'
    <3>1. copy \in Versions(Specs, Statuses, BucketNames)
      BY DEF BucketVersions
    <3>2. /\ copy.uid = log[o][seen[p][o]].uid
          /\ copy.gen = log[o][seen[p][o]].gen
          /\ copy.deleting = log[o][seen[p][o]].deleting
          /\ copy.spec = log[o][seen[p][o]].spec
      BY <2>3 DEF bucket
    <3>3. RuntimeTypeOK(Specs, Statuses, BucketNames, Phases) /\ RuntimeInv
      BY IInvParts
    <3> QED
      BY <1>1, <2>2, <2>3, <3>1, <3>2, <3>3, BeginKeepsRuntime
  <2>5. /\ work' = [work EXCEPT ![p] = [pc |-> pc, obj |-> o, rv |-> seen[p][o],
                                        copy |-> copy]]
        /\ queue' = [queue EXCEPT ![p] = @ \ {o}]
    BY <2>2, <2>3 DEF Reconciling, Drop
  <2>6. /\ work'[p].pc = pc
        /\ work'[p].obj = o
        /\ work'[p].copy = copy
        /\ work'[p] # Idle
        /\ \A q \in Procs \ {p} : work'[q] = work[q] /\ queue'[q] = queue[q]
        /\ \A other \in Objects \ {o} : other \in queue[p] => other \in queue'[p]
    BY <2>5, IInvParts DEF RuntimeTypeOK, Idle
  <2>7. /\ witnessed' \in [Procs -> SUBSET BucketNames]
        /\ witnessed'[p] = {n \in BucketNames : Ours(n)}
        /\ \A q \in Procs \ {p} : witnessed'[q] = witnessed[q]
    BY <2>2, IInvParts
  <2>8. ASSUME NEW q \in Procs, work'[q] # Idle
        PROVE  ClaimIsEarned(q)'
    <3>1. CASE q = p
      BY <1>1, <2>3, <2>6, <2>7, <3>1 DEF ClaimIsEarned, Ours
    <3>2. CASE q # p
      BY <1>1, <2>6, <2>7, <2>8, <3>2, IInvParts, ClaimStays
    <3> QED
      BY <3>1, <3>2
  <2>9. ASSUME NEW q \in Procs, NEW other \in Objects, Alive(other)'
        PROVE  Remembered(q, other)'
    <3>1. Alive(other) /\ Remembered(q, other)
      BY <1>1, <2>9, IInvParts DEF NeverForgotten, Alive, Exists
    <3>2. CASE q = p /\ other = o
      BY <2>6, <3>2 DEF Remembered
    <3>3. CASE ~(q = p /\ other = o)
      <4>1. /\ other \in queue[q] => other \in queue'[q]
            /\ work[q] # Idle => work'[q] = work[q]
        BY <1>2, <2>6, <3>3
      <4> QED
        BY <1>1, <3>1, <4>1, RememberedStays
    <3> QED
      BY <3>2, <3>3
  <2>10. NeverForgotten'
    BY <2>9 DEF NeverForgotten
  <2> QED
    BY <1>1, <2>4, <2>7, <2>8, <2>10, IInvParts DEF IInv, TypeOK, Inv, RuntimeInv
<1> QED
  BY <1>3, <1>4 DEF StartReconcile

\* The check for the bucket: a claim that it is there is made only when it is.
LEMMA HeadBucketKeepsIInv ==
    ASSUME IInv, NEW p \in Procs, work[p] # Idle, HeadBucket(p)
    PROVE  IInv'
<1> DEFINE bucket == work[p].copy
<1>1. /\ bucket \in BucketVersions
      /\ bucket.spec.bucketName \in BucketNames
      /\ CheckError \in Conditions
  BY CopiesAreVersions DEF Conditions
<1>2. /\ UNCHANGED <<log, seen, queue, config, b2, witnessed>>
      /\ budget' \in Nat
  BY IInvParts DEF HeadBucket, Disturb, RuntimeTypeOK
<1>3. \/ Ours(bucket.spec.bucketName) /\ Goto(p, "updateStatus", Succeed(bucket))
      \/ Goto(p, "createBucket", bucket)
      \/ Goto(p, "updateStatus", SetCondition(bucket, CheckError))
  BY DEF HeadBucket, GetBucketName
<1> HIDE DEF bucket
<1>4. PICK pc \in Phases, copy \in BucketVersions :
         /\ Goto(p, pc, copy)
         /\ copy.uid = bucket.uid
         /\ copy.gen = bucket.gen
         /\ copy.deleting = bucket.deleting
         /\ copy.spec = bucket.spec
         /\ pc = "updateStatus" /\ Ready(copy)
            => /\ Ours(bucket.spec.bucketName)
               /\ copy.status.bucketName = bucket.spec.bucketName
  <2>1. CASE Ours(bucket.spec.bucketName) /\ Goto(p, "updateStatus", Succeed(bucket))
    BY <1>1, <2>1, SucceedFacts DEF Phases
  <2>2. CASE Goto(p, "createBucket", bucket)
    BY <1>1, <2>2 DEF Phases
  <2>3. CASE Goto(p, "updateStatus", SetCondition(bucket, CheckError))
    BY <1>1, <2>3, SetConditionFacts, NoClaim DEF Phases
  <2> QED
    BY <1>3, <2>1, <2>2, <2>3
<1>5. Ours(bucket.spec.bucketName) => bucket.spec.bucketName \in witnessed'[p]
  BY <1>1, <1>2, IInvParts DEF ClaimIsEarned
<1>6. \A q \in Procs : work[q] # Idle =>
         /\ witnessed[q] \subseteq witnessed'[q]
         /\ \A n \in BucketNames : Ours(n)' => n \in witnessed'[q]
  BY <1>2, IInvParts DEF ClaimIsEarned, Ours
<1>7. /\ b2' \in [BucketNames -> {"none", "theirs", "allPrivate", "allPublic"}]
      /\ witnessed' \in [Procs -> SUBSET BucketNames]
  BY <1>2, IInvParts
<1> QED
  BY <1>2, <1>4, <1>5, <1>6, <1>7, GotoKeepsIInv DEF bucket

\* A check that is refused claims nothing.
LEMMA HeadRefusedKeepsIInv ==
    ASSUME IInv, NEW p \in Procs, work[p] # Idle, HeadRefused(p)
    PROVE  IInv'
<1> DEFINE bucket == work[p].copy
           copy == SetCondition(bucket, CheckError)
<1>1. bucket \in BucketVersions
  BY CopiesAreVersions
<1>2. /\ Goto(p, "updateStatus", copy)
      /\ UNCHANGED <<log, seen, queue, budget, config, b2, witnessed>>
      /\ budget' \in Nat
      /\ "updateStatus" \in Phases
  BY IInvParts DEF HeadRefused, RuntimeTypeOK, Phases
<1>3. /\ copy \in BucketVersions
      /\ copy.uid = bucket.uid
      /\ copy.gen = bucket.gen
      /\ copy.deleting = bucket.deleting
      /\ copy.spec = bucket.spec
      /\ ~Ready(copy)
  BY <1>1, SetConditionFacts, NoClaim
<1> HIDE DEF copy
<1>4. \A q \in Procs : work[q] # Idle =>
         /\ witnessed[q] \subseteq witnessed'[q]
         /\ \A n \in BucketNames : Ours(n)' => n \in witnessed'[q]
  BY <1>2, IInvParts DEF ClaimIsEarned, Ours
<1>5. /\ b2' \in [BucketNames -> {"none", "theirs", "allPrivate", "allPublic"}]
      /\ witnessed' \in [Procs -> SUBSET BucketNames]
  BY <1>2, IInvParts
<1> QED
  BY <1>2, <1>3, <1>4, <1>5, GotoKeepsIInv

\* The creation: a claim is made only when the bucket has been created, and
\* every reconcile in progress takes note of it.
LEMMA CreateBucketKeepsIInv ==
    ASSUME IInv, NEW p \in Procs, work[p] # Idle, CreateBucket(p)
    PROVE  IInv'
<1> DEFINE bucket == work[p].copy
           name == bucket.spec.bucketName
           external == [bucket EXCEPT !.external = name]
<1>1. /\ bucket \in BucketVersions
      /\ name \in BucketNames
      /\ CreateError \in Conditions
  BY CopiesAreVersions DEF Conditions
<1>2. /\ UNCHANGED <<log, seen, queue, config>>
      /\ budget' \in Nat
  BY IInvParts DEF CreateBucket, Disturb, RuntimeTypeOK
<1>3. /\ external \in BucketVersions
      /\ external.uid = bucket.uid
      /\ external.gen = bucket.gen
      /\ external.deleting = bucket.deleting
      /\ external.spec = bucket.spec
  BY <1>1 DEF BucketVersions, Versions
<1>4. \/ /\ Appears(name, "allPrivate")
         /\ \/ Goto(p, "updateStatus", Succeed(external))
            \/ Goto(p, "updateStatus", SetCondition(bucket, CreateError))
      \/ /\ UNCHANGED <<b2, witnessed>>
         /\ Goto(p, "updateStatus", SetCondition(bucket, CreateError))
  BY DEF CreateBucket, GetBucketName, CreateFailed
<1> HIDE DEF bucket, name, external
<1>5. PICK copy \in BucketVersions :
         /\ Goto(p, "updateStatus", copy)
         /\ copy.uid = bucket.uid
         /\ copy.gen = bucket.gen
         /\ copy.deleting = bucket.deleting
         /\ copy.spec = bucket.spec
         /\ Ready(copy) => /\ Appears(name, "allPrivate")
                           /\ copy.status.bucketName = name
  <2>1. CASE Goto(p, "updateStatus", SetCondition(bucket, CreateError))
    BY <1>1, <2>1, SetConditionFacts, NoClaim
  <2>2. CASE Appears(name, "allPrivate") /\ Goto(p, "updateStatus", Succeed(external))
    BY <1>3, <2>2, SucceedFacts DEF name
  <2> QED
    BY <1>4, <2>1, <2>2
<1>6. Appears(name, "allPrivate") \/ UNCHANGED <<b2, witnessed>>
  BY <1>4
<1>7. /\ b2' \in [BucketNames -> {"none", "theirs", "allPrivate", "allPublic"}]
      /\ witnessed' \in [Procs -> SUBSET BucketNames]
  BY <1>1, <1>6, IInvParts DEF Appears
<1>8. ASSUME NEW q \in Procs, work[q] # Idle
      PROVE  /\ witnessed[q] \subseteq witnessed'[q]
             /\ \A n \in BucketNames : Ours(n)' => n \in witnessed'[q]
  <2>1. ClaimIsEarned(q)
    BY <1>8, IInvParts
  <2> QED
    BY <1>1, <1>6, <1>8, <2>1, IInvParts DEF ClaimIsEarned, Ours, Appears
<1>9. Appears(name, "allPrivate") => name \in witnessed'[p]
  BY IInvParts DEF Appears
<1>10. "updateStatus" \in Phases
  BY DEF Phases
<1> QED
  BY <1>2, <1>5, <1>7, <1>8, <1>9, <1>10, GotoKeepsIInv DEF bucket, name

\* The status update: accepted or not, the object is queued again.
LEMMA UpdateStatusKeepsIInv ==
    ASSUME IInv, NEW p \in Procs, work[p] # Idle, UpdateStatus(p)
    PROVE  IInv'
<1>1. /\ StatusUpdate(p)
      /\ witnessed' = [witnessed EXCEPT ![p] = {}]
      /\ UNCHANGED <<config, b2>>
  BY DEF UpdateStatus
<1>2. RuntimeTypeOK(Specs, Statuses, BucketNames, Phases) /\ RuntimeInv
  BY IInvParts
<1>3. RuntimeTypeOK(Specs, Statuses, BucketNames, Phases)' /\ RuntimeInv'
  BY <1>1, <1>2, StatusUpdateKeepsRuntime
<1>4. /\ work[p].obj \in Objects
      /\ work' = [work EXCEPT ![p] = Idle]
      /\ queue' = [queue EXCEPT ![p] = @ \cup {work[p].obj}]
      /\ seen' = seen
  BY <1>1, <1>2, StatusUpdateStores
<1>5. /\ work'[p] = Idle
      /\ work[p].obj \in queue'[p]
      /\ \A q \in Procs : queue[q] \subseteq queue'[q]
      /\ \A q \in Procs \ {p} : work'[q] = work[q] /\ witnessed'[q] = witnessed[q]
  BY <1>1, <1>2, <1>4, IInvParts DEF RuntimeTypeOK
<1>6. witnessed' \in [Procs -> SUBSET BucketNames]
  BY <1>1, IInvParts
<1>7. \A q \in Procs : work'[q] # Idle => ClaimIsEarned(q)'
  BY <1>1, <1>5, IInvParts, ClaimStays
<1>8. ASSUME NEW q \in Procs, NEW o \in Objects, Alive(o)'
      PROVE  Remembered(q, o)'
  <2>1. CASE log'[o] # log[o]
    <3>1. \E version \in BucketVersions : Commit(work[p].obj, version)
      BY <1>1, <1>2, <2>1, StatusUpdateStores DEF Stored, BucketVersions
    <3>2. work[p].obj = o
      BY <1>2, <2>1, <3>1 DEF Commit, RuntimeTypeOK
    <3> QED
      BY <1>2, <1>4, <3>1, <3>2, CommitIsNews DEF BucketVersions
  <2>2. CASE log'[o] = log[o]
    <3>1. Remembered(q, o)
      BY <1>8, <2>2, IInvParts DEF NeverForgotten, Alive, Exists
    <3>2. work[q] # Idle /\ work[q].obj = o
          => \/ work'[q] # Idle /\ work'[q].obj = o
             \/ o \in queue'[q]
      BY <1>5
    <3> QED
      BY <1>4, <1>5, <2>2, <3>1, <3>2, RememberedStays
  <2> QED
    BY <2>1, <2>2
<1>9. NeverForgotten'
  BY <1>8 DEF NeverForgotten
<1> QED
  BY <1>1, <1>3, <1>6, <1>7, <1>9, IInvParts DEF IInv, TypeOK, Inv, RuntimeInv

\* A worker that is in one of the phases of Reconcile is not idle.
LEMMA ReconcilesAreNotIdle ==
    ASSUME NEW p \in Procs, Reconcile(p)
    PROVE  work[p] # Idle
BY DEF Reconcile, HeadBucket, HeadRefused, CreateBucket, UpdateStatus, Idle

\* Every step of the specification keeps the inductive invariant.
LEMMA StepsKeepIInv == IInv /\ [Next]_vars => IInv'
<1> SUFFICES ASSUME IInv, [Next]_vars
             PROVE  IInv'
  OBVIOUS
<1>1. CASE Users
  BY <1>1, UsersKeepIInv
<1>2. CASE OutsideChange
  BY <1>2, OutsideChangeKeepsIInv
<1>3. CASE Kubernetes
  BY <1>3, KubernetesKeepsIInv
<1>4. ASSUME NEW p \in Procs, NEW o \in Objects, StartReconcile(p, o)
      PROVE  IInv'
  BY <1>4, StartReconcileKeepsIInv
<1>5. ASSUME NEW p \in Procs, Reconcile(p)
      PROVE  IInv'
  BY <1>5, ReconcilesAreNotIdle, HeadBucketKeepsIInv, HeadRefusedKeepsIInv,
     CreateBucketKeepsIInv, UpdateStatusKeepsIInv
  DEF Reconcile
<1>6. CASE UNCHANGED vars
  <2>1. UNCHANGED <<log, seen, queue, work, budget, config, b2, witnessed>>
    BY <1>6 DEF vars, runtimeVars
  <2>2. RuntimeTypeOK(Specs, Statuses, BucketNames, Phases)'
    BY <2>1, IInvParts DEF RuntimeTypeOK
  <2>3. RuntimeInv' /\ NeverForgotten'
    BY <2>1, IInvParts
    DEF RuntimeInv, CachesAreBehind, WorkIsRooted, Rooted,
        NeverForgotten, Alive, Exists, Remembered
  <2>4. \A p \in Procs : work'[p] # Idle => ClaimIsEarned(p)'
    BY <2>1, IInvParts, ClaimStays
  <2> QED
    BY <2>1, <2>2, <2>3, <2>4, IInvParts DEF IInv, TypeOK, Inv, RuntimeInv
<1> QED
  BY <1>1, <1>2, <1>3, <1>4, <1>5, <1>6 DEF Next

\* The inductive invariant holds in every reachable state.
THEOREM Invariance == Spec => []IInv
<1> QED
  BY Initially, StepsKeepIInv, PTL DEF Spec

\* Whatever users, processes, faults and crashes do, every variable keeps its
\* type: in particular the conditions of a status stay a set of conditions.
THEOREM TypeCorrectness == Spec => []TypeOK
<1>1. IInv => TypeOK
  BY DEF IInv
<1> QED
  BY <1>1, Invariance, PTL

\* Every reconcile in progress is rooted in a stored version and has earned
\* the claim it is about to make.
THEOREM ClaimsAreEarned == Spec => []Inv
<1>1. IInv => Inv
  BY DEF IInv
<1> QED
  BY <1>1, Invariance, PTL

\* No process ever loses track of a Bucket that exists.
THEOREM NothingIsForgotten == Spec => []NeverForgotten
<1>1. IInv => NeverForgotten
  BY DEF IInv
<1> QED
  BY <1>1, Invariance, PTL

\* The only steps that write a status are those of UpdateStatus that store the
\* copy of their worker.
LEMMA StatusWritesAreUpdates ==
    ASSUME IInv, [Next]_vars, NEW o \in Objects, IsStatusWrite(o)
    PROVE  \E p \in Procs :
              /\ work[p] # Idle
              /\ work[p].pc = "updateStatus"
              /\ work[p].obj = o
              /\ work'[p] = Idle
              /\ Latest(o)'.status = work[p].copy.status
              /\ Latest(o)'.spec = work[p].copy.spec
<1>1. log'[o] # log[o]
  BY DEF IsStatusWrite
<1>2. NoStatus \in Statuses
  BY DEF NoStatus, Statuses
<1>3. ~Users
  <2> SUFFICES ASSUME Users PROVE FALSE
    OBVIOUS
  <2>1. \E u \in Objects, spec \in Specs : UserAct(u, spec, NoStatus)
    BY <1>1, UsersActOnObjects DEF Users
  <2> QED
    BY <1>2, <2>1, IInvParts, UsersWriteNoStatus
<1>4. ~OutsideChange /\ ~Kubernetes /\ ~UNCHANGED vars
  BY <1>1 DEF OutsideChange, Kubernetes, Observe, Resync, Restart, vars, runtimeVars
<1>5. \A p \in Procs, u \in Objects : ~StartReconcile(p, u)
  BY <1>1 DEF StartReconcile
<1>6. PICK p \in Procs : Reconcile(p)
  BY <1>3, <1>4, <1>5 DEF Next
<1>7. UpdateStatus(p) /\ work[p] # Idle
  BY <1>1, <1>6, ReconcilesAreNotIdle
  DEF Reconcile, HeadBucket, HeadRefused, CreateBucket
<1>8. StatusUpdate(p) /\ work[p].pc = "updateStatus"
  BY <1>7 DEF UpdateStatus
<1>9. RuntimeTypeOK(Specs, Statuses, BucketNames, Phases) /\ RuntimeInv
  BY IInvParts
<1> QED
  BY <1>1, <1>7, <1>8, <1>9, StatusUpdateWrites

\* A status that says Ready names the bucket of the spec it is stored beside,
\* and the reconcile that stores it has seen that bucket.
LEMMA ReadyStatuses ==
    ASSUME IInv, [Next]_vars, NEW o \in Objects,
           IsStatusWrite(o), Ready(Latest(o)')
    PROVE  /\ Latest(o)'.status.bucketName = Latest(o)'.spec.bucketName
           /\ \E p \in Procs : /\ work[p] # Idle
                               /\ work'[p] = Idle
                               /\ work[p].obj = o
                               /\ Latest(o)'.status.bucketName \in witnessed[p]
<1>1. PICK p \in Procs :
         /\ work[p] # Idle
         /\ work[p].pc = "updateStatus"
         /\ work[p].obj = o
         /\ work'[p] = Idle
         /\ Latest(o)'.status = work[p].copy.status
         /\ Latest(o)'.spec = work[p].copy.spec
  BY StatusWritesAreUpdates
<1>2. Ready(work[p].copy)
  BY <1>1 DEF Ready
<1>3. ClaimIsEarned(p)
  BY <1>1, IInvParts
<1> QED
  BY <1>1, <1>2, <1>3 DEF ClaimIsEarned

\* No rename, conflict, restart or second process leaves a Bucket marked Ready
\* on the strength of a name it no longer asks for.
THEOREM ReadyIsAboutTheSpec == Spec => ReadyDescribesSpec
<1>1. IInv /\ [Next]_vars
      => [\A o \in Objects :
             IsStatusWrite(o) /\ Ready(Latest(o)')
             => Latest(o)'.status.bucketName = Latest(o)'.spec.bucketName]_vars
  BY ReadyStatuses
<1> QED
  BY <1>1, Invariance, PTL DEF Spec, ReadyDescribesSpec

\* Ready is reported only by a reconcile during which the bucket was ours.
THEOREM ReadyIsWitnessed == Spec => ReadyWasWitnessed
<1>1. IInv /\ [Next]_vars
      => [\A o \in Objects :
             IsStatusWrite(o) /\ Ready(Latest(o)')
             => \E p \in Procs : /\ work[p] # Idle
                                 /\ work'[p] = Idle
                                 /\ work[p].obj = o
                                 /\ Latest(o)'.status.bucketName \in witnessed[p]]_vars
  BY ReadyStatuses
<1> QED
  BY <1>1, Invariance, PTL DEF Spec, ReadyWasWitnessed

-----------------------------------------------------------------------------
(* Among other controllers.                                                *)

\* What others do to the budget and the credentials is nothing to Buckets.
LEMMA OthersKeepIInv ==
    ASSUME IInv, UNCHANGED <<log, seen, queue, work, b2, witnessed>>,
           budget' \in Nat, config' \in Configs
    PROVE  IInv'
<1>1. RuntimeTypeOK(Specs, Statuses, BucketNames, Phases)'
  BY IInvParts DEF RuntimeTypeOK
<1>2. RuntimeInv' /\ NeverForgotten'
  BY IInvParts
  DEF RuntimeInv, CachesAreBehind, WorkIsRooted, Rooted,
      NeverForgotten, Alive, Exists, Remembered
<1>3. \A p \in Procs : work'[p] # Idle => ClaimIsEarned(p)'
  BY IInvParts, ClaimStays
<1> QED
  BY <1>1, <1>2, <1>3, IInvParts DEF IInv, TypeOK, Inv, RuntimeInv

\* No Bucket says, or is about to say, that it is Ready, and no call of B2 is
\* on its way.
NothingDone ==
    /\ StatusesAreIn({s \in Statuses : Available \notin s.conditions})
    /\ \A p \in Procs : work[p] # Idle => work[p].pc = "updateStatus"

\* Without a client no Bucket becomes Ready: all that Reconcile stores is
\* ClientError.
LEMMA NothingDoneWithoutClient ==
    ASSUME IInv, NothingDone, ~GetBackblazeClient, [Next]_vars
    PROVE  NothingDone'
<1> DEFINE Unready == {s \in Statuses : Available \notin s.conditions}
<1>1. /\ RuntimeTypeOK(Specs, Statuses, BucketNames, Phases)
      /\ RuntimeInv
      /\ StatusesAreIn(Unready)
      /\ \A p \in Procs : work[p] # Idle => work[p].pc = "updateStatus"
  BY IInvParts DEF NothingDone
<1>2. NoStatus \in Statuses /\ NoStatus \in Unready
  BY DEF NoStatus, Statuses
<1> HIDE DEF Unready
<1> SUFFICES /\ StatusesAreIn(Unready)'
             /\ \A q \in Procs : work'[q] # Idle => work'[q].pc = "updateStatus"
  BY DEF NothingDone, Unready
<1>3. CASE Users \/ OutsideChange
  <2>1. CASE UNCHANGED <<log, work>>
    BY <1>1, <2>1 DEF StatusesAreIn
  <2>2. CASE ~UNCHANGED <<log, work>>
    <3>1. PICK o \in Objects, spec \in Specs : UserAct(o, spec, NoStatus)
      BY <1>3, <2>2, UsersActOnObjects DEF Users, OutsideChange
    <3>2. work' = work
      BY <1>1, <1>2, <3>1, UserActsCommit
    <3> QED
      BY <1>1, <1>2, <3>1, <3>2, UsersKeepStatuses
  <2> QED
    BY <2>1, <2>2
<1>4. CASE Kubernetes
  <2>1. PICK p \in Procs :
          (\E o \in Objects : Observe(p, o) \/ Resync(p, o)) \/ Restart(p)
    BY <1>4 DEF Kubernetes
  <2>2. /\ StatusesAreIn(Unready)'
        /\ \A q \in Procs : work'[q] # Idle => work'[q] = work[q]
    BY <1>1, <2>1, CachesKeepStatuses
  <2> QED
    BY <1>1, <2>2
<1>5. ASSUME NEW p \in Procs, NEW o \in Objects, StartReconcile(p, o)
      PROVE  /\ StatusesAreIn(Unready)'
             /\ \A q \in Procs : work'[q] # Idle => work'[q].pc = "updateStatus"
  <2>1. log' = log
    BY <1>5 DEF StartReconcile
  <2>2. CASE GetFindsNothing(p, o) \/ GetFails(p, o)
    BY <1>1, <2>1, <2>2 DEF StatusesAreIn, GetFindsNothing, GetFails
  <2>3. CASE GetFindsBucket(p, o)
    <3> DEFINE copy == SetCondition(log[o][seen[p][o]], ClientError)
    <3>1. /\ Exists(o, seen[p][o])
          /\ Reconciling(p, o, "updateStatus", copy)
      BY <2>3 DEF GetFindsBucket
    <3>2. log[o][seen[p][o]] \in BucketVersions
      <4>1. seen[p][o] <= Len(log[o]) /\ seen[p][o] \in Nat
        BY <1>1 DEF RuntimeInv, CachesAreBehind, RuntimeTypeOK
      <4>2. log[o] \in Seq(BucketVersions) /\ Len(log[o]) \in Nat
        BY <1>1, LenProperties DEF RuntimeTypeOK, BucketVersions
      <4> QED
        BY <3>1, <4>1, <4>2, ElementOfSeq DEF Exists
    <3>3. copy.status \in Unready
      <4>1. /\ ClientError \in Conditions
            /\ ClientError # Available
        BY DEF Conditions, ClientError, Available
      <4>2. /\ copy \in BucketVersions
            /\ copy.status.conditions = {ClientError}
        BY <3>2, <4>1, SetConditionFacts
      <4> QED
        BY <4>1, <4>2 DEF Unready, BucketVersions, Versions
    <3> HIDE DEF copy
    <3>4. /\ work'[p].pc = "updateStatus"
          /\ work'[p].copy = copy
          /\ \A q \in Procs \ {p} : work'[q] = work[q]
      BY <1>1, <3>1 DEF Reconciling, RuntimeTypeOK
    <3> QED
      BY <1>1, <2>1, <3>3, <3>4 DEF StatusesAreIn
  <2> QED
    BY <1>5, <2>2, <2>3 DEF StartReconcile
<1>6. ASSUME NEW p \in Procs, Reconcile(p)
      PROVE  /\ StatusesAreIn(Unready)'
             /\ \A q \in Procs : work'[q] # Idle => work'[q].pc = "updateStatus"
  <2>1. work[p] # Idle
    BY <1>6, ReconcilesAreNotIdle
  <2>2. StatusUpdate(p)
    BY <1>1, <1>6, <2>1
    DEF Reconcile, HeadBucket, HeadRefused, CreateBucket, UpdateStatus
  <2>3. /\ StatusesAreIn(Unready)'
        /\ \A q \in Procs : work'[q] # Idle => work'[q] = work[q]
    BY <1>1, <2>1, <2>2, StatusUpdateKeepsStatuses
  <2> QED
    BY <1>1, <2>3
<1>7. CASE UNCHANGED vars
  BY <1>1, <1>7 DEF vars, runtimeVars, StatusesAreIn
<1> QED
  BY <1>3, <1>4, <1>5, <1>6, <1>7 DEF Next
=============================================================================
