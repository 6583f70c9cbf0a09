----------------------- MODULE UserController_proofs -----------------------
(***************************************************************************)
(* The safety properties of UserController, for any number of Users,       *)
(* processes, secrets and disturbances, and that it implements KeyLedger.  *)
(*                                                                         *)
(* What a status update may say was decided when the User was read, steps  *)
(* earlier: IInv carries it from there (KeyIsEarned), next to what ties a  *)
(* reconcile in progress to the version it has read (RuntimeInv).          *)
(***************************************************************************)
EXTENDS UserController, RuntimeLemmas

UserVersions == Versions(Specs, Statuses, {})

IInv == TypeOK /\ Inv /\ NeverForgotten

\* IInv in the terms of RuntimeLemmas.
LEMMA IInvParts ==
    IInv <=> /\ RuntimeTypeOK(Specs, Statuses, {}, Phases)
             /\ config \in Configs
             /\ secrets \in [SecretRefs ->
                               [keyID : Nat, user : Objects \cup {NoName}, uid : Nat]]
             /\ written \in SUBSET (Objects \X Nat \X Nat)
             /\ RuntimeInv
             /\ \A p \in Procs : work[p] # Idle => KeyIsEarned(p)
             /\ NeverForgotten
BY DEF IInv, TypeOK, Inv, RuntimeInv

\* At first nothing exists and nobody is at work, whatever secrets there are.
LEMMA StartsWell ==
    ASSUME RuntimeInit, config \in Configs, written = {},
           secrets \in [SecretRefs ->
                          [keyID : Nat, user : Objects \cup {NoName}, uid : Nat]]
    PROVE  IInv
<1>1. /\ log = [o \in Objects |-> <<>>]
      /\ seen = [p \in Procs |-> [o \in Objects |-> 0]]
      /\ queue = [p \in Procs |-> {}]
      /\ work = [p \in Procs |-> Idle]
      /\ budget \in Nat
  BY BoundIsNatural DEF RuntimeInit
<1>2. log \in [Objects -> Seq(UserVersions)]
  BY <1>1, EmptySeq
<1>3. RuntimeTypeOK(Specs, Statuses, {}, Phases)
  BY <1>1, <1>2 DEF RuntimeTypeOK, UserVersions
<1>4. TypeOK
  BY <1>3 DEF TypeOK
<1>5. \A p \in Procs, o \in Objects : seen[p][o] = 0 /\ Len(log[o]) = 0
  BY <1>1, EmptySeq
<1>6. Inv
  BY <1>1, <1>5 DEF Inv, CachesAreBehind, WorkIsRooted
<1>7. NeverForgotten
  BY <1>5 DEF NeverForgotten, Alive, Exists
<1> QED
  BY <1>4, <1>6, <1>7 DEF IInv

\* The initial states.
LEMMA Initially == Init => IInv
BY StartsWell DEF Init, Foreign, NoSecret

\* A reconcile in progress has a well-formed copy of the version it has read.
LEMMA CopiesAreVersions ==
    ASSUME IInv, NEW p \in Procs, work[p] # Idle
    PROVE  /\ work[p].copy \in UserVersions
           /\ work[p].copy.spec.secretRef \in SecretRefs
           /\ work[p].obj \in Objects
           /\ work[p].rv \in 1 .. Len(log[work[p].obj])
           /\ log[work[p].obj][work[p].rv] \in UserVersions
<1>1. /\ work[p].copy \in UserVersions
      /\ work[p].copy.spec.secretRef \in SecretRefs
      /\ work[p].obj \in Objects
  BY IInvParts DEF RuntimeTypeOK, Reconciles, UserVersions, Versions, Specs
<1>2. work[p].rv \in 1 .. Len(log[work[p].obj])
  BY IInvParts DEF RuntimeInv, WorkIsRooted, Rooted
<1>3. log[work[p].obj] \in Seq(UserVersions)
  BY <1>1, IInvParts DEF RuntimeTypeOK, UserVersions
<1> QED
  BY <1>1, <1>2, <1>3, ElementOfSeq

\* What a worker has earned stays earned while others move: the version it has
\* read stays what it was, and no record of a secret is lost.
LEMMA KeyStays ==
    ASSUME NEW p \in Procs, KeyIsEarned(p), work'[p] = work[p],
           log'[work[p].obj][work[p].rv] = log[work[p].obj][work[p].rv],
           written \subseteq written'
    PROVE  KeyIsEarned(p)'
BY DEF KeyIsEarned

\* A new version of a User: news to every cache, and no matter to the
\* reconciles in progress.
LEMMA CommitKeepsIInv ==
    ASSUME IInv, NEW o \in Objects, NEW version \in UserVersions,
           Commit(o, version), budget' \in Nat,
           UNCHANGED <<seen, queue, work, config, secrets, written>>
    PROVE  IInv'
<1>1. RuntimeTypeOK(Specs, Statuses, {}, Phases)' /\ RuntimeInv'
  BY IInvParts, CommitKeepsRuntime DEF UserVersions
<1>2. ASSUME NEW p \in Procs, work'[p] # Idle
      PROVE  KeyIsEarned(p)'
  BY <1>2, IInvParts, CopiesAreVersions, CommitKeepsReads, KeyStays
  DEF RuntimeTypeOK, UserVersions
<1>3. ASSUME NEW p \in Procs, NEW other \in Objects,
             Alive(other)', ~Latest(other)'.deleting
      PROVE  Remembered(p, other)'
  <2>1. CASE other = o
    BY <2>1, IInvParts, CommitIsNews DEF UserVersions
  <2>2. CASE other # o
    <3>1. log'[other] = log[other]
      BY <2>2, IInvParts DEF RuntimeTypeOK, Commit
    <3>2. Remembered(p, other)
      BY <1>3, <3>1, IInvParts DEF NeverForgotten, Alive, Exists, Latest
    <3> QED
      BY <3>1, <3>2, RememberedStays
  <2> QED
    BY <2>1, <2>2
<1>4. NeverForgotten'
  BY <1>3 DEF NeverForgotten
<1> QED
  BY <1>1, <1>2, <1>4, IInvParts DEF IInv, TypeOK, Inv, RuntimeInv

\* Whatever users do to Users is one of the acts RuntimeLemmas speaks of.
LEMMA UsersActOnObjects ==
    ASSUME IInv,
           \E o \in Objects :
              \/ \E spec \in Specs :
                    CreateObject(o, spec, NoStatus) \/ EditSpec(o, spec)
              \/ DeleteObject(o)
              \/ DeleteHeldObject(o)
    PROVE  \E o \in Objects, spec \in Specs : UserAct(o, spec, NoStatus)
<1>1. PICK o \in Objects :
         \/ \E spec \in Specs :
               CreateObject(o, spec, NoStatus) \/ EditSpec(o, spec)
         \/ DeleteObject(o)
         \/ DeleteHeldObject(o)
  OBVIOUS
<1>2. Alive(o) => Latest(o).spec \in Specs
  <2>1. log[o] \in Seq(UserVersions)
    BY IInvParts DEF RuntimeTypeOK, UserVersions
  <2>2. Alive(o) => Latest(o) \in UserVersions
    BY <2>1, ElementOfSeq, LenProperties DEF Alive, Exists, Latest
  <2> QED
    BY <2>2 DEF UserVersions, Versions
<1> QED
  BY <1>1, <1>2 DEF UserAct, DeleteObject, DeleteHeldObject

\* What users do to Users and to their credentials.
LEMMA UsersKeepIInv == ASSUME IInv, Users PROVE IInv'
<1>1. NoStatus \in Statuses
  BY DEF NoStatus, Statuses
<1>2. CASE /\ \E o \in Objects :
                 \/ \E spec \in Specs :
                       CreateObject(o, spec, NoStatus) \/ EditSpec(o, spec)
                 \/ DeleteObject(o)
                 \/ DeleteHeldObject(o)
           /\ UNCHANGED <<config, secrets, written>>
  <2>1. PICK o \in Objects, spec \in Specs : UserAct(o, spec, NoStatus)
    BY <1>2, UsersActOnObjects
  <2>2. /\ \E version \in UserVersions : Commit(o, version)
        /\ budget' \in Nat
        /\ UNCHANGED <<seen, queue, work>>
    BY <1>1, <2>1, IInvParts, UserActsCommit DEF UserVersions
  <2> QED
    BY <1>2, <2>2, CommitKeepsIInv
<1>3. CASE /\ Disturb
           /\ ChangeConfig
           /\ UNCHANGED <<log, seen, queue, work, secrets, written>>
  <2>1. config' \in Configs /\ budget' \in Nat
    BY <1>3, IInvParts DEF Disturb, ChangeConfig, RuntimeTypeOK
  <2>2. RuntimeTypeOK(Specs, Statuses, {}, Phases)'
    BY <1>3, <2>1, IInvParts DEF RuntimeTypeOK
  <2>3. RuntimeInv'
    BY <1>3, IInvParts DEF RuntimeInv, CachesAreBehind, WorkIsRooted, Rooted
  <2>4. NeverForgotten'
    BY <1>3, IInvParts DEF NeverForgotten, Alive, Exists, Latest, Remembered
  <2>5. \A p \in Procs : work'[p] # Idle => KeyIsEarned(p)'
    BY <1>3, IInvParts, KeyStays
  <2> QED
    BY <1>3, <2>1, <2>2, <2>3, <2>4, <2>5, IInvParts DEF IInv, TypeOK, Inv, RuntimeInv
<1> QED
  BY <1>2, <1>3 DEF Users

\* Watch events, resyncs and restarts.
LEMMA KubernetesKeepsIInv == ASSUME IInv, Kubernetes PROVE IInv'
<1>1. PICK p \in Procs :
          (\E o \in Objects : Observe(p, o) \/ Resync(p, o)) \/ Restart(p)
  BY DEF Kubernetes
<1>2. UNCHANGED <<config, secrets, written>>
  BY DEF Kubernetes
<1>3. log' = log
  BY <1>1 DEF Observe, Resync, Restart
<1>4. RuntimeTypeOK(Specs, Statuses, {}, Phases)' /\ RuntimeInv'
  BY <1>1, IInvParts, CachesKeepRuntime
<1>5. ASSUME NEW q \in Procs, work'[q] # Idle
      PROVE  KeyIsEarned(q)'
  <2>1. work'[q] = work[q]
    BY <1>1, <1>5, IInvParts DEF Observe, Resync, Restart, RuntimeTypeOK
  <2> QED
    BY <1>2, <1>3, <1>5, <2>1, IInvParts, KeyStays
<1>6. ASSUME NEW q \in Procs, NEW other \in Objects,
             Alive(other)', ~Latest(other)'.deleting
      PROVE  Remembered(q, other)'
  <2>1. Alive(other) /\ Remembered(q, other)
    BY <1>3, <1>6, IInvParts DEF NeverForgotten, Alive, Exists, Latest
  <2> QED
    BY <1>1, <2>1, IInvParts, CachesRemember
<1>7. NeverForgotten'
  BY <1>6 DEF NeverForgotten
<1> QED
  BY <1>2, <1>4, <1>5, <1>7, IInvParts DEF IInv, TypeOK, Inv, RuntimeInv

\* Setting a condition changes nothing but the conditions.
LEMMA SetConditionFacts ==
    ASSUME NEW v \in UserVersions, NEW c \in Conditions
    PROVE  /\ SetCondition(v, c) \in UserVersions
           /\ SetCondition(v, c).status.conditions = {c}
           /\ SetCondition(v, c).status.keyID = v.status.keyID
           /\ SetCondition(v, c).uid = v.uid
           /\ SetCondition(v, c).gen = v.gen
           /\ SetCondition(v, c).deleting = v.deleting
           /\ SetCondition(v, c).spec = v.spec
<1> USE DEF UserVersions, Versions
<1>1. v.status \in Statuses
  OBVIOUS
<1>2. [v.status EXCEPT !.conditions = {c}] \in Statuses
  BY <1>1 DEF Statuses
<1>3. SetCondition(v, c) = [v EXCEPT !.status = [v.status EXCEPT !.conditions = {c}]]
  BY DEF SetCondition
<1> QED
  BY <1>1, <1>2, <1>3 DEF Statuses

\* So does the end of a reconcile that succeeds.
LEMMA SucceedFacts ==
    ASSUME NEW v \in UserVersions
    PROVE  /\ Succeed(v) \in UserVersions
           /\ Succeed(v).status.keyID = v.status.keyID
           /\ Succeed(v).uid = v.uid
           /\ Succeed(v).gen = v.gen
           /\ Succeed(v).deleting = v.deleting
           /\ Succeed(v).spec = v.spec
<1> DEFINE ready == SetCondition(v, Available)
<1>1. Available \in Conditions /\ Success \in Conditions
  BY DEF Conditions
<1>2. /\ ready \in UserVersions
      /\ ready.status.keyID = v.status.keyID
      /\ ready.uid = v.uid
      /\ ready.gen = v.gen
      /\ ready.deleting = v.deleting
      /\ ready.spec = v.spec
  BY <1>1, SetConditionFacts
<1>3. Succeed(v) = SetCondition(ready, Success)
  BY DEF Succeed
<1> HIDE DEF ready
<1> QED
  BY <1>1, <1>2, <1>3, SetConditionFacts

\* A key that is issued is the generation of the User.
LEMMA IssueKeyFacts ==
    ASSUME NEW v \in UserVersions
    PROVE  /\ IssueKey(v) \in UserVersions
           /\ IssueKey(v).status.keyID = v.gen
           /\ IssueKey(v).uid = v.uid
           /\ IssueKey(v).gen = v.gen
           /\ IssueKey(v).deleting = v.deleting
           /\ IssueKey(v).spec = v.spec
<1> USE DEF UserVersions, Versions
<1>1. v.status \in Statuses /\ v.gen \in Nat
  OBVIOUS
<1>2. [v.status EXCEPT !.keyID = v.gen] \in Statuses
  BY <1>1 DEF Statuses
<1>3. IssueKey(v) = [v EXCEPT !.status = [v.status EXCEPT !.keyID = v.gen]]
  BY DEF IssueKey
<1> QED
  BY <1>1, <1>2, <1>3 DEF Statuses

\* A step of one worker that leaves the server, the caches and the queue
\* alone and keeps hold of its object makes nobody forget anything.
LEMMA GotoKeepsMemory ==
    ASSUME IInv, NEW p \in Procs, work[p] # Idle, NEW pc, NEW copy,
           Goto(p, pc, copy), UNCHANGED <<log, seen, queue>>
    PROVE  NeverForgotten'
<1>1. /\ work[p] \in Reconciles(Specs, Statuses, {}, Phases)
      /\ work' = [work EXCEPT ![p] = [work[p] EXCEPT !.pc = pc, !.copy = copy]]
  BY IInvParts DEF RuntimeTypeOK, Goto
<1>2. work'[p].obj = work[p].obj
  BY <1>1, IInvParts DEF RuntimeTypeOK, Reconciles
<1>3. work'[p] # Idle
  BY <1>1, IInvParts DEF RuntimeTypeOK, Reconciles, Idle
<1> SUFFICES ASSUME NEW q \in Procs, NEW o \in Objects,
                    Alive(o)', ~Latest(o)'.deleting
             PROVE  Remembered(q, o)'
  BY DEF NeverForgotten
<1>4. Remembered(q, o)
  BY IInvParts DEF NeverForgotten, Alive, Exists, Latest
<1>5. CASE q = p
  BY <1>2, <1>3, <1>4, <1>5, RememberedStays
<1>6. CASE q # p
  <2>1. work'[q] = work[q]
    BY <1>1, <1>6, IInvParts DEF RuntimeTypeOK
  <2> QED
    BY <1>4, <2>1, RememberedStays
<1> QED
  BY <1>5, <1>6

\* What a reconcile that begins with a copy of the version it reads has to
\* respect.
LEMMA BeginKeepsIInv ==
    ASSUME IInv, NEW p \in Procs, NEW o \in Objects,
           NEW pc \in Phases, NEW copy \in UserVersions,
           MayTake(p, o), Exists(o, seen[p][o]), Drop(p, o),
           Reconciling(p, o, pc, copy),
           copy.uid = log[o][seen[p][o]].uid, copy.gen = log[o][seen[p][o]].gen,
           copy.deleting = log[o][seen[p][o]].deleting,
           copy.spec = log[o][seen[p][o]].spec,
           pc = "deleteSecret" <=> copy.deleting,
           \/ /\ pc # "createSecret"
              /\ copy.status.keyID = log[o][seen[p][o]].status.keyID
           \/ /\ pc = "createSecret"
              /\ log[o][seen[p][o]].status.keyID = 0
              /\ copy.status.keyID = log[o][seen[p][o]].gen,
           budget' \in Nat, UNCHANGED <<log, seen, config, secrets, written>>
    PROVE  IInv'
<1> DEFINE begun == [pc |-> pc, obj |-> o, rv |-> seen[p][o], copy |-> copy]
<1>1. RuntimeTypeOK(Specs, Statuses, {}, Phases)' /\ RuntimeInv'
  <2>1. RuntimeTypeOK(Specs, Statuses, {}, Phases) /\ RuntimeInv
    BY IInvParts
  <2>2. copy \in Versions(Specs, Statuses, {})
    BY DEF UserVersions
  <2> QED
    BY <2>1, <2>2, BeginKeepsRuntime
<1>2. /\ work' = [work EXCEPT ![p] = begun]
      /\ queue' = [queue EXCEPT ![p] = @ \ {o}]
      /\ work[p] = Idle
  BY DEF Reconciling, Drop, MayTake
<1>3. /\ work'[p] = begun
      /\ \A q \in Procs \ {p} : work'[q] = work[q] /\ queue'[q] = queue[q]
      /\ \A other \in Objects \ {o} : other \in queue[p] => other \in queue'[p]
  BY <1>2, IInvParts DEF RuntimeTypeOK
<1>4. /\ work'[p].pc = pc
      /\ work'[p].obj = o
      /\ work'[p].rv = seen[p][o]
      /\ work'[p].copy = copy
      /\ work'[p] # Idle
  BY <1>3 DEF Idle
<1> HIDE DEF begun
<1>5. ASSUME NEW q \in Procs, work'[q] # Idle
      PROVE  KeyIsEarned(q)'
  <2>1. CASE q = p
    BY <1>4, <2>1 DEF KeyIsEarned
  <2>2. CASE q # p
    BY <1>3, <1>5, <2>2, IInvParts, KeyStays
  <2> QED
    BY <2>1, <2>2
<1>6. ASSUME NEW q \in Procs, NEW other \in Objects,
             Alive(other)', ~Latest(other)'.deleting
      PROVE  Remembered(q, other)'
  <2>1. Remembered(q, other)
    BY <1>6, IInvParts DEF NeverForgotten, Alive, Exists, Latest
  <2>2. CASE q = p /\ other = o
    BY <1>4, <2>2 DEF Remembered
  <2>3. CASE ~(q = p /\ other = o)
    <3>1. /\ other \in queue[q] => other \in queue'[q]
          /\ work[q] # Idle => work'[q] = work[q]
      BY <1>2, <1>3, <2>3
    <3> QED
      BY <2>1, <3>1, RememberedStays
  <2> QED
    BY <2>2, <2>3
<1>7. NeverForgotten'
  BY <1>6 DEF NeverForgotten
<1> QED
  BY <1>1, <1>5, <1>7, IInvParts DEF IInv, TypeOK, Inv, RuntimeInv

\* A reconcile that ends as soon as it has begun, with or without a timer.
LEMMA NothingDoneKeepsIInv ==
    ASSUME IInv, NEW p \in Procs, NEW o \in Objects, MayTake(p, o),
           UNCHANGED <<log, seen, config, secrets, written>>,
           GetFindsNothing(p, o) \/ GetFails(p, o)
    PROVE  IInv'
<1>1. work' = work /\ work[p] = Idle /\ budget' \in Nat
  BY IInvParts DEF GetFindsNothing, GetFails, MayTake, Disturb, RuntimeTypeOK
<1>2. \/ queue' = [queue EXCEPT ![p] = @ \ {o}] /\ ~Exists(o, seen[p][o])
      \/ queue' = [queue EXCEPT ![p] = @ \cup {o}]
  BY DEF GetFindsNothing, GetFails, Drop, Requeue
<1>3. /\ work' = [work EXCEPT ![p] = Idle]
      /\ queue' \in [Procs -> SUBSET Objects]
      /\ \A q \in Procs \ {p} : queue'[q] = queue[q]
  <2>1. work' = [work EXCEPT ![p] = Idle]
    BY <1>1, IInvParts DEF RuntimeTypeOK
  <2>2. queue \in [Procs -> SUBSET Objects]
    BY IInvParts DEF RuntimeTypeOK
  <2> QED
    BY <1>2, <2>1, <2>2
<1>4. RuntimeTypeOK(Specs, Statuses, {}, Phases)' /\ RuntimeInv'
  BY <1>1, <1>3, IInvParts, IdleKeepsRuntime
<1>5. \A q \in Procs : work'[q] # Idle => KeyIsEarned(q)'
  BY <1>1, IInvParts, KeyStays
<1>6. ASSUME NEW q \in Procs, NEW other \in Objects,
             Alive(other)', ~Latest(other)'.deleting
      PROVE  Remembered(q, other)'
  <2>1. Alive(other) /\ Remembered(q, other)
    BY <1>6, IInvParts DEF NeverForgotten, Alive, Exists, Latest
  <2>2. CASE other \in queue[q] => other \in queue'[q]
    BY <1>1, <2>1, <2>2, RememberedStays
  <2>3. CASE ~(other \in queue[q] => other \in queue'[q])
    <3>1. q = p /\ other = o /\ ~Exists(o, seen[p][o])
      BY <1>2, <2>3, IInvParts DEF RuntimeTypeOK
    <3>2. seen[p][o] # Len(log[o])
      BY <2>1, <3>1 DEF Alive
    <3>3. seen[p][o] <= Len(log[o]) /\ seen[p][o] \in Nat /\ Len(log[o]) \in Nat
      BY IInvParts, LenProperties DEF RuntimeInv, CachesAreBehind, RuntimeTypeOK
    <3> QED
      BY <3>1, <3>2, <3>3 DEF Remembered
  <2> QED
    BY <2>2, <2>3
<1>7. NeverForgotten'
  BY <1>6 DEF NeverForgotten
<1> QED
  BY <1>4, <1>5, <1>7, IInvParts DEF IInv, TypeOK, Inv, RuntimeInv

\* A reconcile begins: nothing to do, an error, or one of the four ways on
\* from a User that is there.
LEMMA StartReconcileKeepsIInv ==
    ASSUME IInv, NEW p \in Procs, NEW o \in Objects, StartReconcile(p, o)
    PROVE  IInv'
<1>1. MayTake(p, o) /\ UNCHANGED <<log, seen, config, secrets, written>>
  BY DEF StartReconcile
<1>2. CASE GetFindsNothing(p, o) \/ GetFails(p, o)
  BY <1>1, <1>2, NothingDoneKeepsIInv
<1>3. CASE GetFindsUser(p, o)
  <2> DEFINE user == log[o][seen[p][o]]
  <2>1. user \in UserVersions
    <3>1. seen[p][o] \in 1 .. Len(log[o]) /\ log[o] \in Seq(UserVersions)
      BY <1>3, IInvParts, LenProperties
      DEF GetFindsUser, Exists, RuntimeInv, CachesAreBehind, RuntimeTypeOK, UserVersions
    <3> QED
      BY <3>1, ElementOfSeq
  <2>2. /\ Exists(o, seen[p][o])
        /\ Drop(p, o)
        /\ budget' \in Nat
        /\ \/ user.deleting /\ Reconciling(p, o, "deleteSecret", user)
           \/ /\ ~user.deleting
              /\ Reconciling(p, o, "updateStatus", SetCondition(user, ClientError))
           \/ /\ ~user.deleting
              /\ user.status.keyID = 0
              /\ Reconciling(p, o, "createSecret", IssueKey(user))
           \/ /\ ~user.deleting
              /\ Reconciling(p, o, "updateStatus", Succeed(user))
    BY <1>3, IInvParts DEF GetFindsUser, BeingDeleted, Disturb, RuntimeTypeOK
  <2>3. ClientError \in Conditions
    BY DEF Conditions
  <2> HIDE DEF user
  <2>4. \E pc \in Phases, copy \in UserVersions :
           /\ Reconciling(p, o, pc, copy)
           /\ copy.uid = user.uid
           /\ copy.gen = user.gen
           /\ copy.deleting = user.deleting
           /\ copy.spec = user.spec
           /\ pc = "deleteSecret" <=> copy.deleting
           /\ \/ /\ pc # "createSecret"
                 /\ copy.status.keyID = user.status.keyID
              \/ /\ pc = "createSecret"
                 /\ user.status.keyID = 0
                 /\ copy.status.keyID = user.gen
    <3>1. CASE user.deleting /\ Reconciling(p, o, "deleteSecret", user)
      BY <2>1, <3>1 DEF Phases
    <3>2. CASE /\ ~user.deleting
               /\ Reconciling(p, o, "updateStatus", SetCondition(user, ClientError))
      BY <2>1, <2>3, <3>2, SetConditionFacts DEF Phases
    <3>3. CASE /\ ~user.deleting
               /\ user.status.keyID = 0
               /\ Reconciling(p, o, "createSecret", IssueKey(user))
      BY <2>1, <3>3, IssueKeyFacts DEF Phases
    <3>4. CASE ~user.deleting /\ Reconciling(p, o, "updateStatus", Succeed(user))
      BY <2>1, <3>4, SucceedFacts DEF Phases
    <3> QED
      BY <2>2, <3>1, <3>2, <3>3, <3>4
  <2> QED
    BY <1>1, <2>2, <2>4, BeginKeepsIInv DEF user
<1> QED
  BY <1>2, <1>3 DEF StartReconcile

\* The creation of the secret: what the status will say of the key is backed
\* by the record of the secret, or it is CreateError.
LEMMA CreateSecretKeepsIInv ==
    ASSUME IInv, NEW p \in Procs, work[p] # Idle, CreateSecret(p)
    PROVE  IInv'
<1> DEFINE user == work[p].copy
           ref == user.spec.secretRef
           record == <<work[p].obj, user.uid, user.status.keyID>>
           secret == [keyID |-> user.status.keyID, user |-> work[p].obj,
                      uid |-> user.uid]
<1>1. /\ user \in UserVersions
      /\ user.status.keyID \in Nat
      /\ user.uid \in Nat
      /\ work[p].obj \in Objects
      /\ CreateError \in Conditions
  BY CopiesAreVersions DEF UserVersions, Versions, Statuses, Conditions
<1>2. /\ work[p].pc = "createSecret"
      /\ UNCHANGED <<log, seen, queue, config>>
      /\ budget' \in Nat
  BY IInvParts DEF CreateSecret, Disturb, RuntimeTypeOK
<1>3. \/ /\ secrets' = [secrets EXCEPT ![ref] = secret]
         /\ written' = written \cup {record}
         /\ \/ Goto(p, "updateStatus", Succeed(user))
            \/ Goto(p, "updateStatus", SetCondition(user, CreateError))
      \/ /\ Goto(p, "updateStatus", SetCondition(user, CreateError))
         /\ UNCHANGED <<secrets, written>>
  BY DEF CreateSecret, CreateFailed
<1>4. /\ secrets' \in [SecretRefs ->
                         [keyID : Nat, user : Objects \cup {NoName}, uid : Nat]]
      /\ written' \in SUBSET (Objects \X Nat \X Nat)
      /\ written \subseteq written'
  <2>1. secret \in [keyID : Nat, user : Objects \cup {NoName}, uid : Nat]
    BY <1>1
  <2>2. record \in Objects \X Nat \X Nat
    BY <1>1
  <2> HIDE DEF secret, record
  <2> QED
    BY <1>3, <2>1, <2>2, IInvParts
<1> HIDE DEF user, ref, secret, record
<1>5. PICK copy \in UserVersions :
         /\ Goto(p, "updateStatus", copy)
         /\ copy.uid = user.uid
         /\ copy.gen = user.gen
         /\ copy.deleting = user.deleting
         /\ copy.spec = user.spec
         /\ copy.status.keyID = user.status.keyID
         /\ copy.status.conditions = {CreateError} \/ record \in written'
  <2>1. CASE Goto(p, "updateStatus", SetCondition(user, CreateError))
    BY <1>1, <2>1, SetConditionFacts
  <2>2. CASE /\ Goto(p, "updateStatus", Succeed(user))
             /\ written' = written \cup {record}
    BY <1>1, <2>2, SucceedFacts
  <2> QED
    BY <1>3, <2>1, <2>2
<1>6. RuntimeTypeOK(Specs, Statuses, {}, Phases)' /\ RuntimeInv'
  <2>1. RuntimeTypeOK(Specs, Statuses, {}, Phases) /\ RuntimeInv
    BY IInvParts
  <2>2. copy \in Versions(Specs, Statuses, {}) /\ "updateStatus" \in Phases
    BY DEF UserVersions, Phases
  <2> QED
    BY <1>2, <1>5, <2>1, <2>2, GotoKeepsRuntime DEF user
<1>7. NeverForgotten'
  BY <1>2, <1>5, GotoKeepsMemory
<1>8. /\ work[p] \in Reconciles(Specs, Statuses, {}, Phases)
      /\ work' = [work EXCEPT ![p] = [work[p] EXCEPT !.pc = "updateStatus",
                                                     !.copy = copy]]
  BY <1>5, IInvParts DEF RuntimeTypeOK, Goto
<1>9. /\ work'[p].pc = "updateStatus"
      /\ work'[p].copy = copy
      /\ work'[p].obj = work[p].obj
      /\ work'[p].rv = work[p].rv
      /\ \A q \in Procs \ {p} : work'[q] = work[q]
  BY <1>8, IInvParts DEF RuntimeTypeOK, Reconciles
<1>10. ASSUME NEW q \in Procs, work'[q] # Idle
       PROVE  KeyIsEarned(q)'
  <2>1. CASE q = p
    <3>1. KeyIsEarned(p)
      BY IInvParts
    <3>2. record = <<work[p].obj, copy.uid, copy.status.keyID>>
      BY <1>5 DEF record
    <3> QED
      BY <1>2, <1>5, <1>9, <2>1, <3>1, <3>2 DEF KeyIsEarned, user
  <2>2. CASE q # p
    BY <1>2, <1>4, <1>9, <1>10, <2>2, IInvParts, KeyStays
  <2> QED
    BY <2>1, <2>2
<1> QED
  BY <1>2, <1>4, <1>6, <1>7, <1>10, IInvParts DEF IInv, TypeOK, Inv, RuntimeInv

\* The deletion of the secret: nothing is scheduled, so the User is forgotten,
\* but only if it is being deleted in its latest version.
LEMMA DeleteSecretKeepsIInv ==
    ASSUME IInv, NEW p \in Procs, work[p] # Idle, DeleteSecret(p)
    PROVE  IInv'
<1>1. /\ work[p].pc = "deleteSecret"
      /\ work' = [work EXCEPT ![p] = Idle]
      /\ UNCHANGED <<log, seen, queue, config, written>>
      /\ budget' \in Nat
  BY IInvParts DEF DeleteSecret, Disturb, RuntimeTypeOK
<1>2. secrets' \in [SecretRefs ->
                      [keyID : Nat, user : Objects \cup {NoName}, uid : Nat]]
  BY IInvParts DEF DeleteSecret, NoSecret
<1>3. RuntimeTypeOK(Specs, Statuses, {}, Phases) /\ RuntimeInv
  BY IInvParts
<1>4. queue' \in [Procs -> SUBSET Objects]
  BY <1>1, <1>3 DEF RuntimeTypeOK
<1>5. RuntimeTypeOK(Specs, Statuses, {}, Phases)' /\ RuntimeInv'
  BY <1>1, <1>3, <1>4, IdleKeepsRuntime
<1>6. work'[p] = Idle /\ \A q \in Procs \ {p} : work'[q] = work[q]
  BY <1>1, <1>3 DEF RuntimeTypeOK
<1>7. \A q \in Procs : work'[q] # Idle => KeyIsEarned(q)'
  BY <1>1, <1>6, IInvParts, KeyStays
<1>8. ASSUME NEW q \in Procs, NEW o \in Objects,
             Alive(o)', ~Latest(o)'.deleting
      PROVE  Remembered(q, o)'
  <2>1. Remembered(q, o) /\ ~Latest(o).deleting
    BY <1>1, <1>8, IInvParts DEF NeverForgotten, Alive, Exists, Latest
  <2>2. CASE ~(q = p /\ work[p].obj = o)
    BY <1>1, <1>6, <2>1, <2>2, RememberedStays
  <2>3. CASE q = p /\ work[p].obj = o /\ o \in queue[p]
    BY <1>1, <2>3 DEF Remembered
  <2>4. CASE q = p /\ work[p].obj = o /\ o \notin queue[p]
    <3>1. Rooted(p) /\ KeyIsEarned(p)
      BY IInvParts DEF RuntimeInv, WorkIsRooted
    <3>2. work[p].rv = seen[p][o] /\ work[p].rv \in 1 .. Len(log[o])
      BY <2>4, <3>1 DEF Rooted
    <3>3. log[o][work[p].rv].deleting
      <4>1. work[p].copy.deleting
        BY <1>1, <3>1 DEF KeyIsEarned
      <4>2. work[p].copy.deleting = log[work[p].obj][work[p].rv].deleting
        BY <3>1, Zenon DEF Rooted
      <4> QED
        BY <2>4, <4>1, <4>2, Zenon
    <3>4. work[p].rv # Len(log[o])
      BY <2>1, <3>3 DEF Latest
    <3>5. Len(log[o]) \in Nat
      BY <1>3, LenProperties DEF RuntimeTypeOK
    <3>6. seen[p][o] < Len(log[o])
      BY <3>2, <3>4, <3>5
    <3> QED
      BY <1>1, <2>4, <3>6 DEF Remembered
  <2> QED
    BY <2>2, <2>3, <2>4
<1>9. NeverForgotten'
  BY <1>8 DEF NeverForgotten
<1> QED
  BY <1>1, <1>2, <1>5, <1>7, <1>9, IInvParts DEF IInv, TypeOK, Inv, RuntimeInv

\* The status update: accepted or not, the object is queued again.
LEMMA UpdateStatusKeepsIInv ==
    ASSUME IInv, NEW p \in Procs, work[p] # Idle, UpdateStatus(p)
    PROVE  IInv'
<1>1. /\ StatusUpdate(p)
      /\ UNCHANGED <<config, secrets, written>>
  BY DEF UpdateStatus
<1>2. RuntimeTypeOK(Specs, Statuses, {}, Phases) /\ RuntimeInv
  BY IInvParts
<1>3. RuntimeTypeOK(Specs, Statuses, {}, Phases)' /\ RuntimeInv'
  BY <1>1, <1>2, StatusUpdateKeepsRuntime
<1>4. /\ work[p].obj \in Objects
      /\ work' = [work EXCEPT ![p] = Idle]
      /\ queue' = [queue EXCEPT ![p] = @ \cup {work[p].obj}]
      /\ seen' = seen
      /\ \/ log' = log
         \/ \E version \in UserVersions : Commit(work[p].obj, version)
  BY <1>1, <1>2, StatusUpdateStores DEF Stored, UserVersions
<1>5. /\ work'[p] = Idle
      /\ work[p].obj \in queue'[p]
      /\ \A q \in Procs : queue[q] \subseteq queue'[q]
      /\ \A q \in Procs \ {p} : work'[q] = work[q]
  BY <1>2, <1>4, IInvParts DEF RuntimeTypeOK
<1>6. ASSUME NEW q \in Procs, work'[q] # Idle
      PROVE  KeyIsEarned(q)'
  <2>1. q # p /\ work'[q] = work[q] /\ work[q] # Idle
    BY <1>5, <1>6
  <2>2. log'[work[q].obj][work[q].rv] = log[work[q].obj][work[q].rv]
    BY <1>2, <1>4, <2>1, CopiesAreVersions, CommitKeepsReads
    DEF RuntimeTypeOK, UserVersions
  <2> QED
    BY <1>1, <2>1, <2>2, IInvParts, KeyStays
<1>7. ASSUME NEW q \in Procs, NEW o \in Objects,
             Alive(o)', ~Latest(o)'.deleting
      PROVE  Remembered(q, o)'
  <2>1. CASE log'[o] # log[o]
    <3>1. \E version \in UserVersions : Commit(work[p].obj, version)
      BY <1>4, <2>1
    <3>2. work[p].obj = o
      BY <1>2, <2>1, <3>1 DEF Commit, RuntimeTypeOK
    <3> QED
      BY <1>2, <1>4, <3>1, <3>2, CommitIsNews DEF UserVersions
  <2>2. CASE log'[o] = log[o]
    <3>1. Remembered(q, o)
      BY <1>7, <2>2, IInvParts DEF NeverForgotten, Alive, Exists, Latest
    <3>2. work[q] # Idle /\ work[q].obj = o
          => \/ work'[q] # Idle /\ work'[q].obj = o
             \/ o \in queue'[q]
      BY <1>5
    <3> QED
      BY <1>4, <1>5, <2>2, <3>1, <3>2, RememberedStays
  <2> QED
    BY <2>1, <2>2
<1>8. NeverForgotten'
  BY <1>7 DEF NeverForgotten
<1> QED
  BY <1>1, <1>3, <1>6, <1>8, IInvParts DEF IInv, TypeOK, Inv, RuntimeInv

\* A worker that is in one of the phases of Reconcile is not idle.
LEMMA ReconcilesAreNotIdle ==
    ASSUME NEW p \in Procs, Reconcile(p)
    PROVE  work[p] # Idle
BY DEF Reconcile, CreateSecret, DeleteSecret, UpdateStatus, Idle

\* Every step of the specification keeps the inductive invariant.
LEMMA StepsKeepIInv == IInv /\ [Next]_vars => IInv'
<1> SUFFICES ASSUME IInv, [Next]_vars
             PROVE  IInv'
  OBVIOUS
<1>1. CASE Users
  BY <1>1, UsersKeepIInv
<1>2. CASE Kubernetes
  BY <1>2, KubernetesKeepsIInv
<1>3. ASSUME NEW p \in Procs, NEW o \in Objects, StartReconcile(p, o)
      PROVE  IInv'
  BY <1>3, StartReconcileKeepsIInv
<1>4. ASSUME NEW p \in Procs, Reconcile(p)
      PROVE  IInv'
  BY <1>4, ReconcilesAreNotIdle, CreateSecretKeepsIInv, DeleteSecretKeepsIInv,
     UpdateStatusKeepsIInv
  DEF Reconcile
<1>5. CASE UNCHANGED vars
  <2>1. UNCHANGED <<log, seen, queue, work, budget, config, secrets, written>>
    BY <1>5 DEF vars, runtimeVars
  <2>2. RuntimeTypeOK(Specs, Statuses, {}, Phases)'
    BY <2>1, IInvParts DEF RuntimeTypeOK
  <2>3. RuntimeInv' /\ NeverForgotten'
    BY <2>1, IInvParts
    DEF RuntimeInv, CachesAreBehind, WorkIsRooted, Rooted,
        NeverForgotten, Alive, Exists, Latest, Remembered
  <2>4. \A p \in Procs : work'[p] # Idle => KeyIsEarned(p)'
    BY <2>1, IInvParts, KeyStays
  <2> QED
    BY <2>1, <2>2, <2>3, <2>4, IInvParts DEF IInv, TypeOK, Inv, RuntimeInv
<1> QED
  BY <1>1, <1>2, <1>3, <1>4, <1>5 DEF Next

\* The inductive invariant holds in every reachable state.
THEOREM Invariance == Spec => []IInv
<1> QED
  BY Initially, StepsKeepIInv, PTL DEF Spec

\* Whatever users, processes, faults and crashes do, every variable keeps its
\* type: in particular the conditions of a status stay a set of conditions.
THEOREM TypeCorrectness == Spec => []TypeOK
<1>1. IInv => TypeOK
  BY DEF IInv
<1> QED
  BY <1>1, Invariance, PTL

\* Every reconcile in progress has earned what it is about to say of the key.
THEOREM KeysAreEarned == Spec => []Inv
<1>1. IInv => Inv
  BY DEF IInv
<1> QED
  BY <1>1, Invariance, PTL

\* No process ever loses track of a User that exists and is not being deleted.
THEOREM NothingIsForgotten == Spec => []NeverForgotten
<1>1. IInv => NeverForgotten
  BY DEF IInv
<1> QED
  BY <1>1, Invariance, PTL

\* A step that changes the versions of a User is something users do, or an
\* UpdateStatus that stores the copy of its worker.
LEMMA WhatStoresVersions ==
    ASSUME IInv, [Next]_vars, NEW o \in Objects, log'[o] # log[o]
    PROVE  \/ \E u \in Objects, spec \in Specs : UserAct(u, spec, NoStatus)
           \/ \E p \in Procs :
                 /\ UpdateStatus(p)
                 /\ work[p] # Idle
                 /\ work[p].pc = "updateStatus"
                 /\ work[p].obj = o
<1>1. \A p \in Procs, u \in Objects : ~StartReconcile(p, u)
  BY DEF StartReconcile
<1>2. ~Kubernetes /\ ~UNCHANGED vars
  BY DEF Kubernetes, Observe, Resync, Restart, vars, runtimeVars
<1>3. CASE Users
  BY <1>3, UsersActOnObjects DEF Users
<1>4. CASE \E p \in Procs : Reconcile(p)
  <2>1. PICK p \in Procs : UpdateStatus(p)
    BY <1>4 DEF Reconcile, CreateSecret, DeleteSecret
  <2>2. work[p] # Idle
    BY <2>1, ReconcilesAreNotIdle DEF Reconcile
  <2>3. StatusUpdate(p) /\ work[p].pc = "updateStatus"
    BY <2>1 DEF UpdateStatus
  <2>4. work[p].obj = o
    BY <2>2, <2>3, IInvParts, StatusUpdateWrites
  <2> QED
    BY <2>1, <2>2, <2>3, <2>4
<1> QED
  BY <1>1, <1>2, <1>3, <1>4 DEF Next

\* What a status update that stores something does to the key.
LEMMA KeyWrites ==
    ASSUME IInv, NEW o \in Objects, log'[o] # log[o],
           NEW p \in Procs, UpdateStatus(p), work[p] # Idle, work[p].obj = o
    PROVE  /\ Alive(o) /\ ~Latest(o).deleting
           /\ Latest(o) \in UserVersions
           /\ Latest(o)' = [Latest(o) EXCEPT !.status = work[p].copy.status]
           /\ work[p].copy.status \in Statuses
           /\ work[p].copy.uid = Latest(o).uid
           /\ work[p].copy.status.keyID \in {Latest(o).status.keyID, Latest(o).gen}
           /\ Latest(o).status.keyID # 0
              => work[p].copy.status.keyID = Latest(o).status.keyID
           /\ work[p].copy.status.keyID # Latest(o).status.keyID
              => \/ work[p].copy.status.conditions = {CreateError}
                 \/ <<o, work[p].copy.uid, work[p].copy.status.keyID>> \in written
<1>1. StatusUpdate(p) /\ work[p].pc = "updateStatus"
  BY DEF UpdateStatus
<1>2. /\ Latest(o) = log[o][work[p].rv]
      /\ Alive(o)
      /\ Latest(o) \in UserVersions
      /\ Latest(o)' = [Latest(o) EXCEPT !.status = work[p].copy.status]
  BY <1>1, IInvParts, StatusUpdateWrites DEF UserVersions
<1>3. KeyIsEarned(p) /\ Rooted(p)
  BY IInvParts DEF RuntimeInv, WorkIsRooted
<1>4. /\ work[p].copy.uid = Latest(o).uid
      /\ work[p].copy.deleting = Latest(o).deleting
  BY <1>2, <1>3, Zenon DEF Rooted
<1>5. work[p].copy.status \in Statuses
  BY CopiesAreVersions DEF UserVersions, Versions
<1>6. ~work[p].copy.deleting
  BY <1>1, <1>3 DEF KeyIsEarned
<1>7. ~Latest(o).deleting
  BY <1>4, <1>6, Zenon
<1> QED
  BY <1>1, <1>2, <1>3, <1>4, <1>5, <1>7 DEF KeyIsEarned

\* A key and its secret: an update that issues a key without an error finds
\* the secret recorded.
LEMMA IssuesHaveSecrets ==
    ASSUME IInv, [Next]_vars, NEW o \in Objects, IsStatusWrite(o),
           Latest(o).status.keyID = 0, Latest(o)'.status.keyID # 0
    PROVE  \/ Latest(o)'.status.conditions = {CreateError}
           \/ <<o, Latest(o)'.uid, Latest(o)'.status.keyID>> \in written
<1>1. log'[o] # log[o]
  BY DEF IsStatusWrite
<1>2. NoStatus \in Statuses
  BY DEF NoStatus, Statuses
<1>3. PICK p \in Procs : UpdateStatus(p) /\ work[p] # Idle /\ work[p].obj = o
  BY <1>1, <1>2, IInvParts, WhatStoresVersions, UsersWriteNoStatus
<1>4. /\ Latest(o)'.status = work[p].copy.status
      /\ Latest(o)'.uid = work[p].copy.uid
  BY <1>1, <1>3, IInvParts, StatusUpdateWrites DEF UpdateStatus
<1> QED
  BY <1>1, <1>3, <1>4, KeyWrites

\* The status of a User names a key without reporting CreateError only after
\* the secret with that key was created for that User.
THEOREM KeysComeWithSecrets == Spec => KeyIsIssuedWithItsSecret
<1>1. IInv /\ [Next]_vars
      => [\A o \in Objects :
             /\ IsStatusWrite(o)
             /\ Latest(o).status.keyID = 0
             /\ Latest(o)'.status.keyID # 0
             => \/ Latest(o)'.status.conditions = {CreateError}
                \/ <<o, Latest(o)'.uid, Latest(o)'.status.keyID>> \in written]_vars
  BY IssuesHaveSecrets
<1> QED
  BY <1>1, Invariance, PTL DEF Spec, KeyIsIssuedWithItsSecret

-----------------------------------------------------------------------------
(* UserController implements KeyLedger.                                    *)

Entries == [o \in Objects |-> LedgerEntry(o)]
Lived   == [o \in Objects |-> Generations(o)]

\* The entry of a User that exists or has existed is that of its latest
\* version.
LEMMA EntryFacts ==
    ASSUME IInv, NEW o \in Objects
    PROVE  /\ Alive(o) => /\ Latest(o) \in UserVersions
                          /\ Latest(o).alive
                          /\ Entries[o] = EntryOf(Latest(o))
           /\ ~Alive(o) => /\ Entries[o].state = "absent"
                           /\ NewUid(o) = Entries[o].uid + 1
<1>1. log[o] \in Seq(UserVersions)
  BY IInvParts DEF RuntimeTypeOK, UserVersions
<1>2. log[o] # <<>> => Latest(o) \in UserVersions /\ Len(log[o]) > 0
  BY <1>1, EmptySeq, LenProperties, ElementOfSeq DEF Latest
<1>3. Alive(o) <=> log[o] # <<>> /\ Latest(o).alive
  BY <1>1, <1>2, EmptySeq, LenProperties DEF Alive, Exists, Latest
<1>4. CASE log[o] = <<>>
  BY <1>3, <1>4 DEF Entries, LedgerEntry, NewUid
<1>5. CASE log[o] # <<>>
  BY <1>2, <1>3, <1>5 DEF Entries, LedgerEntry, NewUid, EntryOf
<1> QED
  BY <1>4, <1>5

\* A version that is stored adds the generation it is of, if it is live.
LEMMA CommitAddsGeneration ==
    ASSUME IInv, NEW o \in Objects, NEW version \in UserVersions,
           Commit(o, version)
    PROVE  Generations(o)' = IF EntryOf(version).state = "live"
                             THEN Generations(o) \cup {<<version.uid, version.gen>>}
                             ELSE Generations(o)
<1>1. log \in [Objects -> Seq(UserVersions)]
  BY IInvParts DEF RuntimeTypeOK, UserVersions
<1>2. /\ Latest(o)' = version
      /\ Len(log'[o]) = Len(log[o]) + 1
      /\ Len(log[o]) \in Nat
      /\ \A i \in 1 .. Len(log[o]) : log'[o][i] = log[o][i]
  BY <1>1, CommitFacts
<1>3. log'[o][Len(log[o]) + 1] = version
  BY <1>2 DEF Latest
<1>4. ASSUME NEW x, x \in Generations(o)
      PROVE  x \in Generations(o)'
  <2>1. PICK i \in 1 .. Len(log[o]) :
           /\ EntryOf(log[o][i]).state = "live"
           /\ x = <<log[o][i].uid, log[o][i].gen>>
    BY <1>4 DEF Generations
  <2>2. i \in 1 .. Len(log'[o]) /\ log'[o][i] = log[o][i]
    BY <1>2
  <2> QED
    BY <2>1, <2>2 DEF Generations
<1>5. EntryOf(version).state = "live"
      => <<version.uid, version.gen>> \in Generations(o)'
  <2>1. Len(log[o]) + 1 \in 1 .. Len(log'[o])
    BY <1>2
  <2> QED
    BY <1>3, <2>1 DEF Generations
<1>6. ASSUME NEW x, x \in Generations(o)'
      PROVE  \/ x \in Generations(o)
             \/ EntryOf(version).state = "live" /\ x = <<version.uid, version.gen>>
  <2>1. PICK i \in 1 .. Len(log'[o]) :
           /\ EntryOf(log'[o][i]).state = "live"
           /\ x = <<log'[o][i].uid, log'[o][i].gen>>
    BY <1>6 DEF Generations
  <2>2. CASE i = Len(log[o]) + 1
    BY <1>3, <2>1, <2>2
  <2>3. CASE i # Len(log[o]) + 1
    <3>1. i \in 1 .. Len(log[o]) /\ log'[o][i] = log[o][i]
      BY <1>2, <2>3
    <3> QED
      BY <2>1, <3>1 DEF Generations
  <2> QED
    BY <2>2, <2>3
<1> QED
  BY <1>4, <1>5, <1>6

\* Storing a version changes one entry of the ledger, and hands nothing out.
LEMMA CommitBecomes ==
    ASSUME IInv, NEW o \in Objects, NEW version \in UserVersions,
           Commit(o, version), written' = written
    PROVE  /\ Entries' = [Entries EXCEPT ![o] = EntryOf(version)]
           /\ Ledger!Becomes(o, EntryOf(version))
<1>1. log \in [Objects -> Seq(UserVersions)]
  BY IInvParts DEF RuntimeTypeOK, UserVersions
<1>2. /\ Latest(o)' = version
      /\ Len(log'[o]) = Len(log[o]) + 1
      /\ Len(log[o]) \in Nat
      /\ \A other \in Objects \ {o} : log'[other] = log[other]
  BY <1>1, CommitFacts
<1>3. log'[o] # <<>>
  BY <1>2, EmptySeq
<1>4. LedgerEntry(o)' = EntryOf(version)
  BY <1>2, <1>3 DEF LedgerEntry, EntryOf
<1>5. \A other \in Objects \ {o} : LedgerEntry(other)' = LedgerEntry(other)
  BY <1>2 DEF LedgerEntry, EntryOf, Latest
<1>6. Entries' = [Entries EXCEPT ![o] = EntryOf(version)]
  BY <1>4, <1>5 DEF Entries
<1>7. /\ EntryOf(version).uid = version.uid
      /\ EntryOf(version).gen = version.gen
  BY DEF EntryOf
<1>8. \A other \in Objects \ {o} : Generations(other)' = Generations(other)
  BY <1>2 DEF Generations
<1>9. Lived' = [Lived EXCEPT ![o] =
                  IF EntryOf(version).state = "live"
                  THEN Lived[o] \cup {<<EntryOf(version).uid, EntryOf(version).gen>>}
                  ELSE Lived[o]]
  BY <1>7, <1>8, CommitAddsGeneration DEF Lived
<1> QED
  BY <1>6, <1>9 DEF Ledger!Becomes, Entries, Lived

\* What users do creates, changes or removes a User in the ledger.
LEMMA UserActsInLedger ==
    ASSUME IInv, NEW o \in Objects, NEW spec \in Specs, UserAct(o, spec, NoStatus),
           written' = written
    PROVE  Ledger!Create(o) \/ Ledger!Change(o) \/ Ledger!Remove(o)
<1>0. NoStatus \in Statuses
  BY DEF NoStatus, Statuses
<1>1. CASE CreateObject(o, spec, NoStatus)
  <2> DEFINE new == [uid |-> NewUid(o), gen |-> 1, alive |-> TRUE,
                     deleting |-> FALSE, external |-> NoName,
                     spec |-> spec, status |-> NoStatus]
  <2>1. ~Alive(o) /\ Commit(o, new)
    BY <1>1 DEF CreateObject
  <2>2. new \in UserVersions
    <3>1. log[o] # <<>> => Latest(o) \in UserVersions
      BY IInvParts, EmptySeq, ElementOfSeq, LenProperties
      DEF RuntimeTypeOK, UserVersions, Latest
    <3>2. NewUid(o) \in Nat
      BY <3>1 DEF NewUid, UserVersions, Versions
    <3> QED
      BY <1>0, <3>2 DEF UserVersions, Versions
  <2>3. EntryOf(new) = [uid |-> NewUid(o), gen |-> 1, state |-> "live", key |-> 0]
    BY DEF EntryOf, NoStatus
  <2> HIDE DEF new
  <2>4. Ledger!Becomes(o, [uid |-> Entries[o].uid + 1, gen |-> 1,
                           state |-> "live", key |-> 0])
    BY <2>1, <2>2, <2>3, CommitBecomes, EntryFacts
  <2>5. Entries[o].state = "absent"
    BY <2>1, EntryFacts
  <2> QED
    BY <2>4, <2>5 DEF Ledger!Create, Entries
<1>2. CASE EditSpec(o, spec)
  <2> DEFINE edited == [Latest(o) EXCEPT !.spec = spec, !.gen = @ + 1]
  <2>1. Alive(o) /\ Commit(o, edited)
    BY <1>2 DEF EditSpec
  <2>2. /\ Latest(o) \in UserVersions
        /\ Latest(o).alive
        /\ Entries[o] = EntryOf(Latest(o))
    BY <2>1, EntryFacts
  <2>3. edited \in UserVersions
    BY <1>0, <2>2, VersionUpdates DEF UserVersions
  <2>4. /\ edited.uid = Latest(o).uid
        /\ edited.gen = Latest(o).gen + 1
        /\ edited.alive = Latest(o).alive
        /\ edited.deleting = Latest(o).deleting
        /\ edited.status = Latest(o).status
    BY <2>2 DEF UserVersions, Versions
  <2> HIDE DEF edited
  <2>5. Entries[o].state # "absent"
    BY <2>2 DEF EntryOf
  <2>6. EntryOf(edited) = [uid |-> Entries[o].uid, gen |-> Entries[o].gen + 1,
                           state |-> Entries[o].state, key |-> Entries[o].key]
    BY <2>2, <2>4 DEF EntryOf
  <2>7. Ledger!Becomes(o, EntryOf(edited))
    BY <2>1, <2>3, CommitBecomes
  <2> QED
    BY <2>5, <2>6, <2>7 DEF Ledger!Change, Entries
<1>3. CASE DeleteHeldObject(o)
  <2> DEFINE held == [Latest(o) EXCEPT !.deleting = TRUE, !.gen = @ + 1]
  <2>1. Alive(o) /\ Commit(o, held)
    BY <1>3 DEF DeleteHeldObject
  <2>2. /\ Latest(o) \in UserVersions
        /\ Latest(o).alive
        /\ Entries[o] = EntryOf(Latest(o))
    BY <2>1, EntryFacts
  <2>3. held \in UserVersions
    BY <1>0, <2>2, VersionUpdates DEF UserVersions
  <2>4. /\ held.uid = Latest(o).uid
        /\ held.gen = Latest(o).gen + 1
        /\ held.alive
        /\ held.deleting
        /\ held.status = Latest(o).status
    BY <2>2 DEF UserVersions, Versions
  <2> HIDE DEF held
  <2>5. Entries[o].state # "absent"
    BY <2>2 DEF EntryOf
  <2>6. EntryOf(held) = [uid |-> Entries[o].uid, gen |-> Entries[o].gen + 1,
                         state |-> "deleting", key |-> Entries[o].key]
    BY <2>2, <2>4 DEF EntryOf
  <2>7. Ledger!Becomes(o, EntryOf(held))
    BY <2>1, <2>3, CommitBecomes
  <2> QED
    BY <2>5, <2>6, <2>7 DEF Ledger!Change, Entries
<1>4. CASE DeleteObject(o)
  <2> DEFINE tombstone == [Latest(o) EXCEPT !.alive = FALSE]
  <2>1. Alive(o) /\ Commit(o, tombstone)
    BY <1>4 DEF DeleteObject
  <2>2. /\ Latest(o) \in UserVersions
        /\ Latest(o).alive
        /\ Entries[o] = EntryOf(Latest(o))
    BY <2>1, EntryFacts
  <2>3. tombstone \in UserVersions
    BY <1>0, <2>2, VersionUpdates DEF UserVersions
  <2>4. /\ tombstone.uid = Latest(o).uid
        /\ tombstone.gen = Latest(o).gen
        /\ ~tombstone.alive
        /\ tombstone.status = Latest(o).status
    BY <2>2 DEF UserVersions, Versions
  <2> HIDE DEF tombstone
  <2>5. Entries[o].state # "absent"
    BY <2>2 DEF EntryOf
  <2>6. EntryOf(tombstone) = [Entries[o] EXCEPT !.state = "absent"]
    BY <2>2, <2>4 DEF EntryOf
  <2>7. Ledger!Becomes(o, EntryOf(tombstone))
    BY <2>1, <2>3, CommitBecomes
  <2> QED
    BY <2>5, <2>6, <2>7 DEF Ledger!Remove, Entries
<1> QED
  BY <1>1, <1>2, <1>3, <1>4 DEF UserAct

\* The latest version of a User that is live is of a generation it has lived.
LEMMA LatestIsLived ==
    ASSUME IInv, NEW o \in Objects, Alive(o), EntryOf(Latest(o)).state = "live"
    PROVE  <<Latest(o).uid, Latest(o).gen>> \in Generations(o)
<1>1. Len(log[o]) \in 1 .. Len(log[o])
  <2>1. Len(log[o]) \in Nat
    BY IInvParts, LenProperties DEF RuntimeTypeOK
  <2> QED
    BY <2>1 DEF Alive, Exists
<1> QED
  BY <1>1 DEF Generations, Latest

\* What an UpdateStatus stores reports a key in the ledger, or changes nothing
\* there.
LEMMA UpdatesInLedger ==
    ASSUME IInv, NEW o \in Objects, log'[o] # log[o],
           NEW p \in Procs, UpdateStatus(p), work[p] # Idle, work[p].obj = o
    PROVE  Ledger!Report(o) \/ (Entries' = Entries /\ Lived' = Lived)
<1> DEFINE status == work[p].copy.status
           stored == [Latest(o) EXCEPT !.status = status]
<1>1. /\ Alive(o) /\ ~Latest(o).deleting
      /\ Latest(o) \in UserVersions
      /\ status \in Statuses
      /\ status.keyID \in {Latest(o).status.keyID, Latest(o).gen}
      /\ Latest(o).status.keyID # 0 => status.keyID = Latest(o).status.keyID
  BY KeyWrites
<1>2. Commit(o, stored)
  BY IInvParts, StatusUpdateStores DEF UpdateStatus, Stored
<1>3. Latest(o).alive /\ Entries[o] = EntryOf(Latest(o))
  BY <1>1, EntryFacts
<1> HIDE DEF status
<1>4. /\ stored \in UserVersions
      /\ stored.uid = Latest(o).uid
      /\ stored.gen = Latest(o).gen
      /\ stored.alive
      /\ stored.deleting = Latest(o).deleting
      /\ stored.status = status
  BY <1>1, <1>3 DEF UserVersions, Versions
<1> HIDE DEF stored
<1>5. /\ Entries' = [Entries EXCEPT ![o] = EntryOf(stored)]
      /\ Ledger!Becomes(o, EntryOf(stored))
  BY <1>2, <1>4, CommitBecomes DEF UpdateStatus
<1>6. CASE status.keyID = Latest(o).status.keyID
  <2>1. EntryOf(stored) = Entries[o]
    BY <1>1, <1>3, <1>4, <1>6 DEF EntryOf
  <2>2. Entries[o].state = "live"
    BY <1>1, <1>3 DEF EntryOf
  <2>3. <<Entries[o].uid, Entries[o].gen>> \in Lived[o]
    BY <1>1, <1>3, <2>2, LatestIsLived DEF EntryOf, Lived
  <2>4. Entries' = Entries
    BY <1>5, <2>1 DEF Entries
  <2>5. Lived' = [Lived EXCEPT ![o] =
                    Lived[o] \cup {<<Entries[o].uid, Entries[o].gen>>}]
    BY <1>5, <2>1, <2>2 DEF Ledger!Becomes, Lived
  <2>6. Lived[o] \cup {<<Entries[o].uid, Entries[o].gen>>} = Lived[o]
    BY <2>3
  <2>7. Lived' = Lived
    BY <2>5, <2>6 DEF Lived
  <2> QED
    BY <2>4, <2>7
<1>7. CASE status.keyID # Latest(o).status.keyID
  <2>1. /\ Latest(o).status.keyID = 0
        /\ status.keyID = Latest(o).gen
    BY <1>1, <1>7
  <2>2. Entries[o].state = "live" /\ Entries[o].key = 0
    BY <1>1, <1>3, <2>1 DEF EntryOf
  <2>3. EntryOf(stored) = [Entries[o] EXCEPT !.key = Entries[o].gen]
    BY <1>1, <1>3, <1>4, <2>1 DEF EntryOf
  <2> QED
    BY <1>5, <2>2, <2>3 DEF Ledger!Report, Entries
<1> QED
  BY <1>6, <1>7

\* While no version is stored, the ledger keeps its entries.
LEMMA NothingStored ==
    ASSUME log' = log
    PROVE  Entries' = Entries /\ Lived' = Lived
<1>1. \A o \in Objects : LedgerEntry(o)' = LedgerEntry(o)
  BY DEF LedgerEntry, EntryOf, Latest
<1>2. \A o \in Objects : Generations(o)' = Generations(o)
  BY DEF Generations
<1> QED
  BY <1>1, <1>2 DEF Entries, Lived

\* A step that adds to the record of the secrets is the creation of one.
LEMMA WhatHandsOut ==
    ASSUME [Next]_vars, written' # written
    PROVE  log' = log /\ \E p \in Procs : CreateSecret(p)
<1>1. ~Users /\ ~Kubernetes /\ ~UNCHANGED vars
  BY DEF Users, Kubernetes, vars
<1>2. \A p \in Procs, o \in Objects : ~StartReconcile(p, o)
  BY DEF StartReconcile
<1>3. PICK p \in Procs : Reconcile(p)
  BY <1>1, <1>2 DEF Next
<1>4. CreateSecret(p)
  BY <1>3 DEF Reconcile, DeleteSecret, UpdateStatus
<1> QED
  BY <1>4 DEF CreateSecret

\* The key of a secret that is created is that of a generation of the User in
\* which no deletion had begun.
LEMMA CreationsHandOut ==
    ASSUME IInv, NEW p \in Procs, CreateSecret(p), written' # written
    PROVE  \E o \in Objects : Ledger!HandOut(o)
<1> DEFINE o == work[p].obj
           read == log[o][work[p].rv]
           copy == work[p].copy
<1>1. work[p].pc = "createSecret" /\ work[p] # Idle
  BY DEF CreateSecret, Idle
<1>2. /\ log' = log
      /\ written' = written \cup {<<o, copy.uid, copy.status.keyID>>}
  BY DEF CreateSecret
<1>3. /\ o \in Objects
      /\ work[p].rv \in 1 .. Len(log[o])
  BY <1>1, CopiesAreVersions
<1>4. Rooted(p) /\ KeyIsEarned(p)
  BY <1>1, IInvParts DEF RuntimeInv, WorkIsRooted
<1>5. /\ copy.uid = read.uid
      /\ copy.deleting = read.deleting
      /\ read.alive
  BY <1>4, Zenon DEF Rooted
<1>6. ~copy.deleting /\ copy.status.keyID = read.gen
  BY <1>1, <1>4 DEF KeyIsEarned
<1>7. EntryOf(read).state = "live"
  BY <1>5, <1>6, Zenon DEF EntryOf
<1>8. <<read.uid, read.gen>> \in Generations(o)
  BY <1>3, <1>7 DEF Generations
<1> DEFINE g == <<copy.uid, copy.status.keyID>>
<1>9. g \in Generations(o) /\ g[1] = copy.uid /\ g[2] = copy.status.keyID
  BY <1>5, <1>6, <1>8
<1> HIDE DEF g
<1>10. g \in Lived[o]
  BY <1>3, <1>9 DEF Lived
<1>11. written' = written \cup {<<o, g[1], g[2]>>}
  BY <1>2, <1>9
<1>12. Entries' = Entries /\ Lived' = Lived
  BY <1>2, NothingStored
<1>13. Ledger!HandOut(o)
  BY <1>10, <1>11, <1>12 DEF Ledger!HandOut, Entries, Lived
<1> QED
  BY <1>3, <1>13

\* Every step of the controller is a step of the ledger, or none.
LEMMA StepsInLedger ==
    ASSUME IInv, [Next]_vars
    PROVE  [Ledger!Next]_Ledger!vars
<1>1. CASE written' # written
  BY <1>1, WhatHandsOut, CreationsHandOut DEF Ledger!Next
<1>2. CASE written' = written /\ log' = log
  BY <1>2, NothingStored DEF Ledger!vars, Entries, Lived
<1>3. CASE written' = written /\ log' # log
  <2>1. \A o \in Objects, spec \in Specs :
           UserAct(o, spec, NoStatus) => Ledger!Next
    BY <1>3, UserActsInLedger DEF Ledger!Next
  <2>2. log \in [Objects -> Seq(UserVersions)] /\ log' \in [Objects -> Seq(UserVersions)]
    BY IInvParts, StepsKeepIInv DEF IInv, TypeOK, RuntimeTypeOK, UserVersions
  <2>3. PICK o \in Objects : log'[o] # log[o]
    BY <1>3, <2>2
  <2>4. CASE \E p \in Procs : UpdateStatus(p) /\ work[p] # Idle /\ work[p].obj = o
    <3>1. Ledger!Report(o) \/ (Entries' = Entries /\ Lived' = Lived)
      BY <2>3, <2>4, UpdatesInLedger
    <3> QED
      BY <1>3, <3>1 DEF Ledger!Next, Ledger!vars, Entries, Lived
  <2> QED
    BY <2>1, <2>3, <2>4, WhatStoresVersions
<1> QED
  BY <1>1, <1>2, <1>3

\* The user controller implements the ledger: the status of an incarnation
\* comes to name one key, once, for the current generation and never during
\* deletion, and no secret is given a key but that of a generation that the
\* User did live through before its deletion began.
THEOREM ImplementsLedger == Spec => KeysAreReportedOnce
<1>1. Init => Ledger!Init
  <2> SUFFICES ASSUME Init PROVE Ledger!Init
    OBVIOUS
  <2>1. log = [o \in Objects |-> <<>>] /\ written = {}
    BY DEF Init, RuntimeInit
  <2>2. \A o \in Objects : log[o] = <<>> /\ Len(log[o]) = 0
    BY <2>1, EmptySeq
  <2>3. \A o \in Objects : Generations(o) = {}
    <3> SUFFICES ASSUME NEW o \in Objects, NEW x \in Generations(o)
                 PROVE  FALSE
      OBVIOUS
    <3>1. \E i : i \in 1 .. Len(log[o])
      BY Zenon DEF Generations
    <3> QED
      BY <2>2, <3>1
  <2>4. \A o \in Objects :
           LedgerEntry(o) = [uid |-> 0, gen |-> 0, state |-> "absent", key |-> 0]
    BY <2>2 DEF LedgerEntry
  <2> QED
    BY <2>1, <2>3, <2>4 DEF Ledger!Init
<1>2. IInv /\ [Next]_vars => [Ledger!Next]_Ledger!vars
  BY StepsInLedger
<1> QED
  BY <1>1, <1>2, Invariance, PTL DEF Spec, KeysAreReportedOnce, Ledger!Spec

-----------------------------------------------------------------------------
(* Among other controllers.                                                *)

\* What others do to the budget, the credentials and the secrets is
\* nothing to Users.
LEMMA OthersKeepIInv ==
    ASSUME IInv, UNCHANGED <<log, seen, queue, work, written>>,
           budget' \in Nat, config' \in Configs,
           secrets' \in [SecretRefs ->
                           [keyID : Nat, user : Objects \cup {NoName}, uid : Nat]]
    PROVE  IInv'
<1>1. RuntimeTypeOK(Specs, Statuses, {}, Phases)'
  BY IInvParts DEF RuntimeTypeOK
<1>2. RuntimeInv' /\ NeverForgotten'
  BY IInvParts
  DEF RuntimeInv, CachesAreBehind, WorkIsRooted, Rooted,
      NeverForgotten, Alive, Exists, Latest, Remembered
<1>3. \A p \in Procs : work'[p] # Idle => KeyIsEarned(p)'
  BY IInvParts, KeyStays
<1> QED
  BY <1>1, <1>2, <1>3, IInvParts DEF IInv, TypeOK, Inv, RuntimeInv

\* No User says, or is about to say, that it is Synced; no key has been
\* written and none is on its way.
NothingDone ==
    /\ StatusesAreIn({s \in Statuses : Success \notin s.conditions})
    /\ \A p \in Procs : work[p] # Idle => work[p].pc # "createSecret"
    /\ written = {}

\* Without a client no User becomes Synced and no secret is created: all that
\* Reconcile stores is ClientError.  (Secrets are deleted.)
LEMMA NothingDoneWithoutClient ==
    ASSUME IInv, NothingDone, ~GetBackblazeClient, [Next]_vars
    PROVE  /\ NothingDone'
           /\ \A ref \in SecretRefs : secrets'[ref] \in {secrets[ref], NoSecret}
<1> DEFINE Unsynced == {s \in Statuses : Success \notin s.conditions}
           Quiet == \A p \in Procs : work[p] # Idle => work[p].pc # "createSecret"
<1>1. /\ RuntimeTypeOK(Specs, Statuses, {}, Phases)
      /\ RuntimeInv
      /\ StatusesAreIn(Unsynced)
      /\ Quiet
      /\ written = {}
      /\ secrets \in [SecretRefs ->
                         [keyID : Nat, user : Objects \cup {NoName}, uid : Nat]]
  BY IInvParts DEF NothingDone
<1>2. NoStatus \in Statuses /\ NoStatus \in Unsynced
  BY DEF NoStatus, Statuses
<1> HIDE DEF Unsynced
<1> SUFFICES /\ StatusesAreIn(Unsynced)'
             /\ Quiet'
             /\ written' = {}
             /\ \A ref \in SecretRefs : secrets'[ref] \in {secrets[ref], NoSecret}
  BY DEF NothingDone, Unsynced
<1>3. CASE Users
  <2>1. written' = {} /\ secrets' = secrets
    BY <1>1, <1>3 DEF Users
  <2>2. CASE UNCHANGED <<log, work>>
    BY <1>1, <2>1, <2>2 DEF StatusesAreIn
  <2>3. CASE ~UNCHANGED <<log, work>>
    <3>1. PICK o \in Objects, spec \in Specs : UserAct(o, spec, NoStatus)
      BY <1>3, <2>3, UsersActOnObjects DEF Users
    <3>2. work' = work
      BY <1>1, <1>2, <3>1, UserActsCommit
    <3>3. StatusesAreIn(Unsynced)'
      BY <1>1, <1>2, <3>1, UsersKeepStatuses
    <3> QED
      BY <1>1, <2>1, <3>2, <3>3
  <2> QED
    BY <2>2, <2>3
<1>4. CASE Kubernetes
  <2>1. PICK p \in Procs :
          (\E o \in Objects : Observe(p, o) \/ Resync(p, o)) \/ Restart(p)
    BY <1>4 DEF Kubernetes
  <2>2. /\ StatusesAreIn(Unsynced)'
        /\ \A q \in Procs : work'[q] # Idle => work'[q] = work[q]
    BY <1>1, <2>1, CachesKeepStatuses
  <2>3. written' = {} /\ secrets' = secrets
    BY <1>1, <1>4 DEF Kubernetes
  <2> QED
    BY <1>1, <2>2, <2>3
<1>5. ASSUME NEW p \in Procs, NEW o \in Objects, StartReconcile(p, o)
      PROVE  /\ StatusesAreIn(Unsynced)'
             /\ Quiet'
             /\ written' = {}
             /\ secrets' = secrets
  <2>1. log' = log /\ written' = {} /\ secrets' = secrets
    BY <1>1, <1>5 DEF StartReconcile
  <2>2. CASE GetFindsNothing(p, o) \/ GetFails(p, o)
    BY <1>1, <2>1, <2>2 DEF StatusesAreIn, GetFindsNothing, GetFails
  <2>3. CASE GetFindsUser(p, o)
    <3> DEFINE user == log[o][seen[p][o]]
    <3>1. /\ Exists(o, seen[p][o])
          /\ \/ Reconciling(p, o, "deleteSecret", user)
             \/ Reconciling(p, o, "updateStatus", SetCondition(user, ClientError))
      BY <2>3 DEF GetFindsUser
    <3>2. user \in UserVersions /\ user.status \in Unsynced
      <4>1. seen[p][o] <= Len(log[o]) /\ seen[p][o] \in Nat
        BY <1>1 DEF RuntimeInv, CachesAreBehind, RuntimeTypeOK
      <4>2. log[o] \in Seq(UserVersions) /\ Len(log[o]) \in Nat
        BY <1>1, LenProperties DEF RuntimeTypeOK, UserVersions
      <4>3. seen[p][o] \in 1 .. Len(log[o])
        BY <3>1, <4>1, <4>2 DEF Exists
      <4> QED
        BY <1>1, <4>2, <4>3, ElementOfSeq DEF StatusesAreIn
    <3> HIDE DEF user
    <3>3. SetCondition(user, ClientError).status \in Unsynced
      <4>1. /\ ClientError \in Conditions
            /\ ClientError # Success
        BY DEF Conditions, ClientError, Success
      <4>2. /\ SetCondition(user, ClientError) \in UserVersions
            /\ SetCondition(user, ClientError).status.conditions = {ClientError}
        BY <3>2, <4>1, SetConditionFacts
      <4> QED
        BY <4>1, <4>2 DEF Unsynced, UserVersions, Versions
    <3>4. /\ work'[p].pc \in {"deleteSecret", "updateStatus"}
          /\ work'[p].copy \in {user, SetCondition(user, ClientError)}
          /\ \A q \in Procs \ {p} : work'[q] = work[q]
      BY <1>1, <3>1 DEF Reconciling, RuntimeTypeOK
    <3>5. StatusesAreIn(Unsynced)'
      BY <1>1, <2>1, <3>2, <3>3, <3>4 DEF StatusesAreIn
    <3> QED
      BY <1>1, <2>1, <3>4, <3>5
  <2> QED
    BY <1>5, <2>2, <2>3 DEF StartReconcile
<1>6. ASSUME NEW p \in Procs, DeleteSecret(p)
      PROVE  /\ StatusesAreIn(Unsynced)'
             /\ Quiet'
             /\ written' = {}
             /\ \A ref \in SecretRefs : secrets'[ref] \in {secrets[ref], NoSecret}
  <2>1. /\ log' = log
        /\ work' = [work EXCEPT ![p] = Idle]
        /\ written' = {}
        /\ \/ secrets' = [secrets EXCEPT ![work[p].copy.spec.secretRef] = NoSecret]
           \/ secrets' = secrets
    BY <1>1, <1>6 DEF DeleteSecret
  <2>2. \A q \in Procs : work'[q] # Idle => work'[q] = work[q]
    BY <1>1, <2>1 DEF RuntimeTypeOK
  <2>3. \A ref \in SecretRefs : secrets'[ref] \in {secrets[ref], NoSecret}
    BY <1>1, <2>1
  <2>4. StatusesAreIn(Unsynced)'
    BY <1>1, <2>1, <2>2 DEF StatusesAreIn
  <2> QED
    BY <1>1, <2>1, <2>2, <2>3, <2>4
<1>7. ASSUME NEW p \in Procs, UpdateStatus(p)
      PROVE  /\ StatusesAreIn(Unsynced)'
             /\ Quiet'
             /\ written' = {}
             /\ secrets' = secrets
  <2>1. work[p] # Idle /\ StatusUpdate(p) /\ written' = {} /\ secrets' = secrets
    BY <1>1, <1>7 DEF UpdateStatus, Idle
  <2>2. /\ StatusesAreIn(Unsynced)'
        /\ \A q \in Procs : work'[q] # Idle => work'[q] = work[q]
    BY <1>1, <2>1, StatusUpdateKeepsStatuses
  <2> QED
    BY <1>1, <2>1, <2>2
<1>8. \A p \in Procs : ~CreateSecret(p)
  BY <1>1 DEF CreateSecret, Idle
<1>9. CASE UNCHANGED vars
  BY <1>1, <1>9 DEF vars, runtimeVars, StatusesAreIn
<1> QED
  BY <1>3, <1>4, <1>5, <1>6, <1>7, <1>8, <1>9 DEF Next, Reconcile

=============================================================================
