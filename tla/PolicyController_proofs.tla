---------------------- MODULE PolicyController_proofs ----------------------
(***************************************************************************)
(* The safety properties of PolicyController, for any number of Policies,  *)
(* processes, names, parameters and disturbances.                          *)
(*                                                                         *)
(* RecordIsOfOneGeneration is not inductive: the next record may be stored *)
(* from a copy that a worker made of an old version.  Inv says the same of *)
(* every version that was ever stored and of every copy in memory, and     *)
(* that a copy has the record of the version it was read from, or one made *)
(* of that version's spec.                                                 *)
(***************************************************************************)
EXTENDS PolicyController, RuntimeLemmas

PolicyVersions == Versions(Specs, Statuses, {})

\* A version (stored under o, or a copy in memory) without a record, or with
\* that of one generation of the Policy.
Accounted(o, version) ==
    \/ version.status.document = NoDocument /\ version.status.policyName = NoName
    \/ \E i \in 1 .. Len(log[o]) : IsRecordOf(o, version, log[o][i])

VersionsAreAccounted ==
    \A o \in Objects : \A i \in 1 .. Len(log[o]) :
        log[o][i].alive => Accounted(o, log[o][i])

CopyIsAccounted(p) ==
    LET w == work[p]
        read == log[w.obj][w.rv]
    IN  /\ Accounted(w.obj, w.copy)
        /\ \/ SameRecord(w.copy.status, read.status)
           \/ IsRecordOf(w.obj, w.copy, read)

Inv ==
    /\ CachesAreBehind
    /\ WorkIsRooted
    /\ VersionsAreAccounted
    /\ \A p \in Procs : work[p] # Idle => CopyIsAccounted(p)

IInv == TypeOK /\ Inv /\ NeverForgotten

\* IInv in the terms of RuntimeLemmas.
LEMMA IInvParts ==
    IInv <=> /\ RuntimeTypeOK(Specs, Statuses, {}, Phases)
             /\ config \in Configs
             /\ RuntimeInv
             /\ VersionsAreAccounted
             /\ \A p \in Procs : work[p] # Idle => CopyIsAccounted(p)
             /\ NeverForgotten
BY DEF IInv, TypeOK, Inv, RuntimeInv

\* The initial states: nothing exists, nobody is at work.
LEMMA Initially == Init => IInv
<1> SUFFICES ASSUME Init PROVE IInv
  OBVIOUS
<1>1. /\ log = [o \in Objects |-> <<>>]
      /\ seen = [p \in Procs |-> [o \in Objects |-> 0]]
      /\ queue = [p \in Procs |-> {}]
      /\ work = [p \in Procs |-> Idle]
      /\ budget \in Nat
  BY BoundIsNatural DEF Init, RuntimeInit
<1>2. log \in [Objects -> Seq(PolicyVersions)]
  BY <1>1, EmptySeq
<1>3. RuntimeTypeOK(Specs, Statuses, {}, Phases)
  BY <1>1, <1>2 DEF RuntimeTypeOK, PolicyVersions
<1>4. \A p \in Procs, o \in Objects : seen[p][o] = 0 /\ Len(log[o]) = 0
  BY <1>1, EmptySeq
<1>5. CachesAreBehind /\ WorkIsRooted
  BY <1>1, <1>4 DEF CachesAreBehind, WorkIsRooted
<1>6. VersionsAreAccounted
  <2>1. \A o \in Objects : Len(log[o]) = 0
    BY <1>1, EmptySeq
  <2> QED
    BY <2>1 DEF VersionsAreAccounted
<1>7. NeverForgotten
  BY <1>4 DEF NeverForgotten, Alive, Exists
<1> QED
  BY <1>1, <1>3, <1>5, <1>6, <1>7 DEF IInv, TypeOK, Inv, Init

\* What is stored and what workers hold is well-formed.
LEMMA StoredVersions ==
    ASSUME IInv
    PROVE  /\ \A o \in Objects :
                 /\ log[o] \in Seq(PolicyVersions)
                 /\ Len(log[o]) \in Nat
                 /\ \A i \in 1 .. Len(log[o]) : log[o][i] \in PolicyVersions
                 /\ Alive(o) => /\ Latest(o) \in PolicyVersions
                                /\ Latest(o).alive
                                /\ Len(log[o]) \in 1 .. Len(log[o])
           /\ \A p \in Procs : work[p] # Idle =>
                 /\ work[p].copy \in PolicyVersions
                 /\ work[p].obj \in Objects
                 /\ work[p].rv \in 1 .. Len(log[work[p].obj])
<1>1. ASSUME NEW o \in Objects
      PROVE  /\ log[o] \in Seq(PolicyVersions)
             /\ Len(log[o]) \in Nat
             /\ \A i \in 1 .. Len(log[o]) : log[o][i] \in PolicyVersions
             /\ Alive(o) => /\ Latest(o) \in PolicyVersions
                            /\ Latest(o).alive
                            /\ Len(log[o]) \in 1 .. Len(log[o])
  <2>1. log[o] \in Seq(PolicyVersions)
    BY IInvParts DEF RuntimeTypeOK, PolicyVersions
  <2>2. Len(log[o]) \in Nat /\ \A i \in 1 .. Len(log[o]) : log[o][i] \in PolicyVersions
    BY <2>1, LenProperties, ElementOfSeq
  <2> QED
    BY <2>1, <2>2 DEF Alive, Exists, Latest
<1>2. ASSUME NEW p \in Procs, work[p] # Idle
      PROVE  /\ work[p].copy \in PolicyVersions
             /\ work[p].obj \in Objects
             /\ work[p].rv \in 1 .. Len(log[work[p].obj])
  <2>1. work[p].copy \in PolicyVersions /\ work[p].obj \in Objects
    BY <1>2, IInvParts DEF RuntimeTypeOK, Reconciles, PolicyVersions
  <2>2. work[p].rv \in 1 .. Len(log[work[p].obj])
    BY <1>2, IInvParts DEF RuntimeInv, WorkIsRooted, Rooted
  <2> QED
    BY <2>1, <2>2
<1> QED
  BY <1>1, <1>2

-----------------------------------------------------------------------------
(* Records stay accounted for while versions are added.                    *)

\* A version accounts for every record it ever accounted for: the log grows
\* at its end.
LEMMA AccountedStays ==
    ASSUME IInv, NEW o \in Objects, NEW version \in PolicyVersions,
           Commit(o, version), NEW other \in Objects, NEW v, Accounted(other, v)
    PROVE  Accounted(other, v)'
<1>1. log \in [Objects -> Seq(PolicyVersions)]
  BY IInvParts DEF RuntimeTypeOK, PolicyVersions
<1>2. CASE v.status.document = NoDocument /\ v.status.policyName = NoName
  BY <1>2 DEF Accounted
<1>3. CASE \E i \in 1 .. Len(log[other]) : IsRecordOf(other, v, log[other][i])
  <2>1. PICK i \in 1 .. Len(log[other]) : IsRecordOf(other, v, log[other][i])
    BY <1>3
  <2>2. log'[other][i] = log[other][i]
    BY <1>1, CommitKeepsReads
  <2>3. /\ Len(log[other]) \in Nat
        /\ Len(log'[other]) \in {Len(log[other]), Len(log[other]) + 1}
    <3>1. CASE other = o
      BY <1>1, <3>1, CommitFacts
    <3>2. CASE other # o
      BY <1>1, <3>2, CommitFacts, StoredVersions
    <3> QED
      BY <3>1, <3>2
  <2>4. i \in 1 .. Len(log'[other])
    BY <2>3
  <2>5. IsRecordOf(other, v, log'[other][i])
    BY <2>1, <2>2
  <2> QED
    BY <2>4, <2>5 DEF Accounted
<1> QED
  BY <1>2, <1>3 DEF Accounted

\* Only the status and the incarnation of a version matter.
LEMMA AccountedByStatus ==
    ASSUME NEW o, NEW v, NEW w, Accounted(o, v),
           w.uid = v.uid, w.status = v.status
    PROVE  Accounted(o, w)
BY DEF Accounted, IsRecordOf

\* A version that is accounted for may be added.
LEMMA CommitKeepsAccounts ==
    ASSUME IInv, NEW o \in Objects, NEW version \in PolicyVersions,
           Commit(o, version), version.alive => Accounted(o, version)
    PROVE  VersionsAreAccounted'
<1>1. /\ log \in [Objects -> Seq(PolicyVersions)]
      /\ Len(log[o]) \in Nat
  BY IInvParts, StoredVersions DEF RuntimeTypeOK, PolicyVersions
<1>2. /\ \A other \in Objects \ {o} : log'[other] = log[other]
      /\ Len(log'[o]) = Len(log[o]) + 1
      /\ Latest(o)' = version
      /\ \A i \in 1 .. Len(log[o]) : log'[o][i] = log[o][i]
  BY <1>1, CommitFacts
<1> SUFFICES ASSUME NEW other \in Objects, NEW i \in 1 .. Len(log'[other]),
                    log'[other][i].alive
             PROVE  Accounted(other, log[other][i])'
  BY DEF VersionsAreAccounted
<1>3. ASSUME NEW v, Accounted(other, v)
      PROVE  Accounted(other, v)'
  BY <1>3, AccountedStays
<1>4. CASE other = o /\ i = Len(log[o]) + 1
  <2>1. log'[other][i] = version
    BY <1>2, <1>4 DEF Latest
  <2>2. Accounted(other, version)'
    BY <1>3, <1>4, <2>1
  <2> QED
    BY <2>1, <2>2 DEF Accounted
<1>5. CASE ~(other = o /\ i = Len(log[o]) + 1)
  <2>1. i \in 1 .. Len(log[other]) /\ log'[other][i] = log[other][i]
    BY <1>1, <1>2, <1>5
  <2>2. Accounted(other, log[other][i])
    BY <2>1, IInvParts DEF VersionsAreAccounted
  <2>3. PICK v : v = log[other][i]
    OBVIOUS
  <2>4. Accounted(other, v)'
    BY <1>3, <2>2, <2>3
  <2> QED
    BY <2>1, <2>3, <2>4 DEF Accounted
<1> QED
  BY <1>4, <1>5

\* What a worker holds stays accounted for.
LEMMA CopyStays ==
    ASSUME IInv, NEW p \in Procs, work[p] # Idle, work'[p] = work[p],
           \/ log' = log
           \/ \E o \in Objects, version \in PolicyVersions : Commit(o, version)
    PROVE  CopyIsAccounted(p)'
<1>1. /\ CopyIsAccounted(p)
      /\ work[p].obj \in Objects
      /\ work[p].rv \in 1 .. Len(log[work[p].obj])
      /\ log \in [Objects -> Seq(PolicyVersions)]
  BY IInvParts, StoredVersions DEF RuntimeTypeOK, PolicyVersions
<1>2. CASE log' = log
  BY <1>1, <1>2 DEF CopyIsAccounted, Accounted
<1>3. CASE \E o \in Objects, version \in PolicyVersions : Commit(o, version)
  <2>1. PICK o \in Objects, version \in PolicyVersions : Commit(o, version)
    BY <1>3
  <2>2. log'[work[p].obj][work[p].rv] = log[work[p].obj][work[p].rv]
    BY <1>1, <2>1, CommitKeepsReads
  <2>3. Accounted(work[p].obj, work[p].copy)'
    <3>1. Accounted(work[p].obj, work[p].copy)
      BY <1>1 DEF CopyIsAccounted
    <3> DEFINE obj == work[p].obj
               copy == work[p].copy
    <3>2. obj \in Objects /\ Accounted(obj, copy) /\ work'[p].obj = obj /\ work'[p].copy = copy
      BY <1>1, <3>1
    <3> HIDE DEF obj, copy
    <3>3. \A u, v : (u = obj /\ v = copy) => Accounted(u, v)'
      BY <2>1, <3>2, AccountedStays
    <3> QED
      BY <3>2, <3>3
  <2> QED
    BY <1>1, <2>2, <2>3 DEF CopyIsAccounted
<1> QED
  BY <1>2, <1>3

\* A new version of a Policy: news to every cache, and no matter to the
\* reconciles in progress.
LEMMA CommitKeepsIInv ==
    ASSUME IInv, NEW o \in Objects, NEW version \in PolicyVersions,
           Commit(o, version), version.alive => Accounted(o, version),
           budget' \in Nat, UNCHANGED <<seen, queue, work, config>>
    PROVE  IInv'
<1>0. log \in [Objects -> Seq(PolicyVersions)]
  BY IInvParts DEF RuntimeTypeOK, PolicyVersions
<1>1. RuntimeTypeOK(Specs, Statuses, {}, Phases)' /\ RuntimeInv'
  BY IInvParts, CommitKeepsRuntime DEF PolicyVersions
<1>2. \A p \in Procs : work'[p] # Idle => CopyIsAccounted(p)'
  BY CopyStays
<1>3. ASSUME NEW p \in Procs, NEW other \in Objects,
             Alive(other)', ~Latest(other)'.deleting
      PROVE  Remembered(p, other)'
  <2>1. CASE other = o
    BY <2>1, IInvParts, CommitIsNews DEF PolicyVersions
  <2>2. CASE other # o
    <3>1. log'[other] = log[other]
      BY <1>0, <2>2, CommitFacts
    <3>2. Remembered(p, other)
      BY <1>3, <3>1, IInvParts DEF NeverForgotten, Alive, Exists, Latest
    <3> QED
      BY <3>1, <3>2, RememberedStays
  <2> QED
    BY <2>1, <2>2
<1>4. NeverForgotten'
  BY <1>3 DEF NeverForgotten
<1>5. VersionsAreAccounted'
  BY CommitKeepsAccounts
<1> QED
  BY <1>1, <1>2, <1>4, <1>5, IInvParts DEF IInv, TypeOK, Inv, RuntimeInv

\* Whatever users do to Policies is one of the acts RuntimeLemmas speaks of.
LEMMA UsersActOnObjects ==
    ASSUME IInv,
           \E o \in Objects :
              \/ \E spec \in Specs :
                    CreateObject(o, spec, NoStatus) \/ EditSpec(o, spec)
              \/ DeleteObject(o)
              \/ DeleteHeldObject(o)
    PROVE  \E o \in Objects, spec \in Specs : UserAct(o, spec, NoStatus)
<1>1. PICK o \in Objects :
         \/ \E spec \in Specs :
               CreateObject(o, spec, NoStatus) \/ EditSpec(o, spec)
         \/ DeleteObject(o)
         \/ DeleteHeldObject(o)
  OBVIOUS
<1>2. Alive(o) => Latest(o).spec \in Specs
  <2>1. log[o] \in Seq(PolicyVersions)
    BY IInvParts DEF RuntimeTypeOK, PolicyVersions
  <2>2. Alive(o) => Latest(o) \in PolicyVersions
    BY <2>1, ElementOfSeq, LenProperties DEF Alive, Exists, Latest
  <2> QED
    BY <2>2 DEF PolicyVersions, Versions
<1> QED
  BY <1>1, <1>2 DEF UserAct, DeleteObject, DeleteHeldObject

\* What users store of a Policy that exists has the status it had, and what
\* they create has none.
LEMMA UsersKeepRecords ==
    ASSUME IInv, NEW o \in Objects, NEW spec \in Specs, UserAct(o, spec, NoStatus),
           NEW version \in PolicyVersions, Commit(o, version), version.alive
    PROVE  Accounted(o, version)
<1>1. NoStatus \in Statuses
  BY DEF NoStatus, Statuses, Documents
<1>2. \/ version.status = NoStatus
      \/ /\ Alive(o)
         /\ Len(log[o]) \in 1 .. Len(log[o])
         /\ version.status = Latest(o).status
         /\ version.uid = Latest(o).uid
  BY <1>1, IInvParts, UserActsKeepStatus
<1>3. CASE version.status = NoStatus
  BY <1>3 DEF Accounted, NoStatus
<1>4. CASE version.status # NoStatus
  <2>1. Accounted(o, Latest(o))
    BY <1>2, <1>4, StoredVersions, IInvParts DEF VersionsAreAccounted, Latest
  <2> QED
    BY <1>2, <1>4, <2>1, AccountedByStatus
<1> QED
  BY <1>3, <1>4

\* What users do to Policies and to the credentials.
LEMMA UsersKeepIInv == ASSUME IInv, Users PROVE IInv'
<1>1. NoStatus \in Statuses
  BY DEF NoStatus, Statuses, Documents
<1>2. CASE /\ \E o \in Objects :
                 \/ \E spec \in Specs :
                       CreateObject(o, spec, NoStatus) \/ EditSpec(o, spec)
                 \/ DeleteObject(o)
                 \/ DeleteHeldObject(o)
           /\ UNCHANGED config
  <2>1. PICK o \in Objects, spec \in Specs : UserAct(o, spec, NoStatus)
    BY <1>2, UsersActOnObjects
  <2>2. /\ \E version \in PolicyVersions : Commit(o, version)
        /\ budget' \in Nat
        /\ UNCHANGED <<seen, queue, work>>
    BY <1>1, <2>1, IInvParts, UserActsCommit DEF PolicyVersions
  <2>3. PICK version \in PolicyVersions : Commit(o, version)
    BY <2>2
  <2>4. version.alive => Accounted(o, version)
    BY <2>1, <2>3, UsersKeepRecords
  <2> QED
    BY <1>2, <2>2, <2>3, <2>4, CommitKeepsIInv
<1>3. CASE /\ Disturb
           /\ ChangeConfig
           /\ UNCHANGED <<log, seen, queue, work>>
  <2>1. config' \in Configs /\ budget' \in Nat
    BY <1>3, IInvParts DEF Disturb, ChangeConfig, RuntimeTypeOK
  <2>2. RuntimeTypeOK(Specs, Statuses, {}, Phases)'
    BY <1>3, <2>1, IInvParts DEF RuntimeTypeOK
  <2>3. RuntimeInv'
    BY <1>3, IInvParts DEF RuntimeInv, CachesAreBehind, WorkIsRooted, Rooted
  <2>4. NeverForgotten'
    BY <1>3, IInvParts DEF NeverForgotten, Alive, Exists, Latest, Remembered
  <2>5. \A p \in Procs : work'[p] # Idle => CopyIsAccounted(p)'
    BY <1>3, CopyStays
  <2>6. VersionsAreAccounted'
    BY <1>3, IInvParts DEF VersionsAreAccounted, Accounted
  <2> QED
    BY <2>1, <2>2, <2>3, <2>4, <2>5, <2>6, IInvParts DEF IInv, TypeOK, Inv, RuntimeInv
<1> QED
  BY <1>2, <1>3 DEF Users

\* Watch events, resyncs and restarts.
LEMMA KubernetesKeepsIInv == ASSUME IInv, Kubernetes PROVE IInv'
<1>1. PICK p \in Procs :
          (\E o \in Objects : Observe(p, o) \/ Resync(p, o)) \/ Restart(p)
  BY DEF Kubernetes
<1>2. UNCHANGED config
  BY DEF Kubernetes
<1>3. log' = log
  BY <1>1 DEF Observe, Resync, Restart
<1>4. RuntimeTypeOK(Specs, Statuses, {}, Phases)' /\ RuntimeInv'
  BY <1>1, IInvParts, CachesKeepRuntime
<1>5. ASSUME NEW q \in Procs, work'[q] # Idle
      PROVE  CopyIsAccounted(q)'
  <2>1. work'[q] = work[q]
    BY <1>1, <1>5, IInvParts DEF Observe, Resync, Restart, RuntimeTypeOK
  <2> QED
    BY <1>3, <1>5, <2>1, CopyStays
<1>6. ASSUME NEW q \in Procs, NEW other \in Objects,
             Alive(other)', ~Latest(other)'.deleting
      PROVE  Remembered(q, other)'
  <2>1. Alive(other) /\ Remembered(q, other)
    BY <1>3, <1>6, IInvParts DEF NeverForgotten, Alive, Exists, Latest
  <2> QED
    BY <1>1, <2>1, IInvParts, CachesRemember
<1>7. NeverForgotten'
  BY <1>6 DEF NeverForgotten
<1>8. VersionsAreAccounted'
  BY <1>3, IInvParts DEF VersionsAreAccounted, Accounted
<1> QED
  BY <1>2, <1>4, <1>5, <1>7, <1>8, IInvParts DEF IInv, TypeOK, Inv, RuntimeInv

-----------------------------------------------------------------------------
(* What Reconcile makes of the version it has read.                        *)

\* Of the version, only the status changes.
Resembles(copy, version) ==
    /\ copy.uid = version.uid
    /\ copy.gen = version.gen
    /\ copy.deleting = version.deleting
    /\ copy.spec = version.spec

\* Setting a condition changes nothing but the conditions.
LEMMA SetConditionFacts ==
    ASSUME NEW v \in PolicyVersions, NEW c \in Conditions
    PROVE  /\ SetCondition(v, c) \in PolicyVersions
           /\ Resembles(SetCondition(v, c), v)
           /\ SetCondition(v, c).status = [v.status EXCEPT !.conditions = {c}]
           /\ SameRecord(SetCondition(v, c).status, v.status)
<1> USE DEF PolicyVersions, Versions
<1>1. v.status \in Statuses
  OBVIOUS
<1>2. [v.status EXCEPT !.conditions = {c}] \in Statuses
  BY <1>1 DEF Statuses
<1>3. SetCondition(v, c) = [v EXCEPT !.status = [v.status EXCEPT !.conditions = {c}]]
  BY DEF SetCondition
<1>4. SetCondition(v, c).status = [v.status EXCEPT !.conditions = {c}]
  BY <1>3
<1>5. SameRecord([v.status EXCEPT !.conditions = {c}], v.status)
  BY <1>1 DEF Statuses, SameRecord
<1> QED
  BY <1>2, <1>3, <1>4, <1>5 DEF Resembles

\* A version with the record of another of the same Policy has the record of
\* whatever that other has.
LEMMA SameRecordSource ==
    ASSUME NEW o, NEW v \in PolicyVersions, NEW w \in PolicyVersions,
           w.uid = v.uid, SameRecord(w.status, v.status)
    PROVE  /\ Accounted(o, v) => Accounted(o, w)
           /\ \A x : IsRecordOf(o, v, x) => IsRecordOf(o, w, x)
<1>1. /\ w.status.document = v.status.document
      /\ w.status.policyName = v.status.policyName
      /\ w.status.policyID = v.status.policyID
  <2>1. v.status \in Statuses /\ w.status \in Statuses
    BY DEF PolicyVersions, Versions
  <2> DEFINE a == [w.status EXCEPT !.conditions = {}]
             b == [v.status EXCEPT !.conditions = {}]
  <2>2. /\ a.document = w.status.document
        /\ a.policyName = w.status.policyName
        /\ a.policyID = w.status.policyID
        /\ b.document = v.status.document
        /\ b.policyName = v.status.policyName
        /\ b.policyID = v.status.policyID
    BY <2>1 DEF Statuses
  <2>3. a = b
    BY DEF SameRecord
  <2> QED
    BY <2>2, <2>3
<1>2. \A x : IsRecordOf(o, v, x) => IsRecordOf(o, w, x)
  BY <1>1 DEF IsRecordOf
<1> QED
  BY <1>1, <1>2 DEF Accounted

\* Nor does the end of a reconcile that succeeds.
LEMMA SucceedFacts ==
    ASSUME NEW v \in PolicyVersions
    PROVE  /\ Succeed(v) \in PolicyVersions
           /\ Resembles(Succeed(v), v)
           /\ SameRecord(Succeed(v).status, v.status)
<1> DEFINE ready == SetCondition(v, Available)
<1>1. Available \in Conditions /\ Success \in Conditions
  BY DEF Conditions
<1>2. /\ ready \in PolicyVersions
      /\ Resembles(ready, v)
      /\ SameRecord(ready.status, v.status)
  BY <1>1, SetConditionFacts
<1>3. Succeed(v) = SetCondition(ready, Success)
  BY DEF Succeed
<1> HIDE DEF ready
<1>4. /\ Succeed(v) \in PolicyVersions
      /\ Resembles(Succeed(v), ready)
      /\ SameRecord(Succeed(v).status, ready.status)
  BY <1>1, <1>2, <1>3, SetConditionFacts
<1>5. Resembles(Succeed(v), v)
  BY <1>2, <1>4 DEF Resembles
<1>6. SameRecord(Succeed(v).status, v.status)
  BY <1>2, <1>4, Zenon DEF SameRecord
<1> QED
  BY <1>4, <1>5, <1>6

\* A record that is created is that of the version in hand.
LEMMA CreateFacts ==
    ASSUME NEW o \in Objects, NEW v \in PolicyVersions, Creatable(v.spec)
    PROVE  /\ Create(o, v) \in PolicyVersions
           /\ Resembles(Create(o, v), v)
           /\ v.alive => IsRecordOf(o, Create(o, v), v)
<1> DEFINE status == [conditions |-> v.status.conditions,
                      policyName |-> GetPolicyName(o, v.spec),
                      document |-> DocumentFor(v.spec),
                      policyID |-> v.gen]
<1>1. /\ v.status \in Statuses
      /\ v.spec \in Specs
      /\ v.gen \in Nat
  BY DEF PolicyVersions, Versions
<1>2. GetPolicyName(o, v.spec) \in PolicyNames \cup Objects \cup {NoName}
  BY <1>1 DEF GetPolicyName, Specs
<1>3. DocumentFor(v.spec) \in Documents
  <2>1. \/ v.spec.allowBucket \in Buckets /\ v.spec.allowBucket # Unset
        \/ v.spec.allowBucket = Unset /\ v.spec.rawPolicy \in RawPolicies
    BY <1>1, UnsetIsNoValue DEF Specs, Creatable
  <2> QED
    BY <2>1 DEF DocumentFor, Documents
<1>4. status \in Statuses
  BY <1>1, <1>2, <1>3 DEF Statuses
<1>5. Create(o, v) = [v EXCEPT !.status = status]
  BY DEF Create
<1>6. /\ status.policyName = GetPolicyName(o, v.spec)
      /\ status.document = DocumentFor(v.spec)
      /\ status.policyID = v.gen
  OBVIOUS
<1> HIDE DEF status
<1>7. /\ Create(o, v) \in PolicyVersions
      /\ Create(o, v).status = status
      /\ Resembles(Create(o, v), v)
  BY <1>4, <1>5 DEF PolicyVersions, Versions, Resembles
<1> QED
  BY <1>6, <1>7 DEF IsRecordOf, Resembles

\* What Reconcile stores, for the version it has read: the record that version
\* has or, if its name is empty, the one its spec asks for.
LEMMA OutcomeFacts ==
    ASSUME IInv, NEW o \in Objects, NEW i \in 1 .. Len(log[o]), log[o][i].alive
    PROVE  /\ Outcome(o, log[o][i]) \in PolicyVersions
           /\ Resembles(Outcome(o, log[o][i]), log[o][i])
           /\ Accounted(o, Outcome(o, log[o][i]))
           /\ \/ SameRecord(Outcome(o, log[o][i]).status, log[o][i].status)
              \/ IsRecordOf(o, Outcome(o, log[o][i]), log[o][i])
<1> DEFINE v == log[o][i]
<1>1. v \in PolicyVersions /\ v.alive /\ Accounted(o, v)
  BY StoredVersions, IInvParts DEF VersionsAreAccounted
<1>2. ASSUME NEW c \in PolicyVersions, Resembles(c, v), SameRecord(c.status, v.status)
      PROVE  Accounted(o, c)
  BY <1>1, <1>2, SameRecordSource DEF Resembles
<1>3. Creatable(v.spec) => IsRecordOf(o, Create(o, v), v)
  BY <1>1, CreateFacts
<1>4. ClientError \in Conditions /\ CreateError \in Conditions
  BY DEF Conditions
<1>5. CASE ~GetBackblazeClient
  <2>1. Outcome(o, v) = SetCondition(v, ClientError)
    BY <1>5 DEF Outcome
  <2> HIDE DEF v
  <2> QED
    BY <1>1, <1>2, <1>4, <2>1, SetConditionFacts DEF v
<1>6. CASE GetBackblazeClient /\ Recorded(v)
  <2>1. Outcome(o, v) = Succeed(v)
    BY <1>6 DEF Outcome
  <2> QED
    BY <1>1, <1>2, <2>1, SucceedFacts
<1>7. CASE GetBackblazeClient /\ ~Recorded(v) /\ Creatable(v.spec)
  <2> DEFINE created == Create(o, v)
  <2>1. Outcome(o, v) = Succeed(created)
    BY <1>7 DEF Outcome
  <2>2. /\ created \in PolicyVersions
        /\ Resembles(created, v)
        /\ IsRecordOf(o, created, v)
    BY <1>1, <1>7, CreateFacts
  <2>3. Accounted(o, created)
    BY <2>2 DEF Accounted
  <2> HIDE DEF created
  <2>4. /\ Succeed(created) \in PolicyVersions
        /\ Resembles(Succeed(created), created)
        /\ SameRecord(Succeed(created).status, created.status)
    BY <2>2, SucceedFacts
  <2>5. Accounted(o, Succeed(created)) /\ IsRecordOf(o, Succeed(created), v)
    BY <2>2, <2>3, <2>4, SameRecordSource DEF Resembles
  <2>6. Resembles(Succeed(created), v)
    BY <2>2, <2>4 DEF Resembles
  <2> QED
    BY <2>1, <2>4, <2>5, <2>6
<1>8. CASE GetBackblazeClient /\ ~Recorded(v) /\ ~Creatable(v.spec)
  <2>1. Outcome(o, v) = SetCondition(v, CreateError)
    BY <1>8 DEF Outcome, CreateFailed
  <2> QED
    BY <1>1, <1>2, <1>4, <2>1, SetConditionFacts
<1> QED
  BY <1>5, <1>6, <1>7, <1>8

-----------------------------------------------------------------------------
(* The steps of a worker.                                                  *)

\* A reconcile that ends as soon as it has begun, with or without a timer.
LEMMA NothingDoneKeepsIInv ==
    ASSUME IInv, NEW p \in Procs, NEW o \in Objects, MayTake(p, o),
           UNCHANGED <<log, seen, config>>,
           NothingToDo(p, o) \/ GetFails(p, o)
    PROVE  IInv'
<1>1. work' = work /\ work[p] = Idle /\ budget' \in Nat
  BY IInvParts DEF NothingToDo, GetFails, MayTake, Disturb, RuntimeTypeOK
<1>2. \/ queue' = [queue EXCEPT ![p] = @ \ {o}] /\ (Exists(o, seen[p][o]) => log[o][seen[p][o]].deleting)
      \/ queue' = [queue EXCEPT ![p] = @ \cup {o}]
  BY DEF NothingToDo, GetFails, Drop, Requeue
<1>3. /\ work' = [work EXCEPT ![p] = Idle]
      /\ queue' \in [Procs -> SUBSET Objects]
      /\ \A q \in Procs \ {p} : queue'[q] = queue[q]
  <2>1. work' = [work EXCEPT ![p] = Idle]
    BY <1>1, IInvParts DEF RuntimeTypeOK
  <2>2. queue \in [Procs -> SUBSET Objects]
    BY IInvParts DEF RuntimeTypeOK
  <2> QED
    BY <1>2, <2>1, <2>2
<1>4. RuntimeTypeOK(Specs, Statuses, {}, Phases)' /\ RuntimeInv'
  BY <1>1, <1>3, IInvParts, IdleKeepsRuntime
<1>5. \A q \in Procs : work'[q] # Idle => CopyIsAccounted(q)'
  BY <1>1, CopyStays
<1>6. ASSUME NEW q \in Procs, NEW other \in Objects,
             Alive(other)', ~Latest(other)'.deleting
      PROVE  Remembered(q, other)'
  <2>1. Alive(other) /\ Remembered(q, other)
    BY <1>6, IInvParts DEF NeverForgotten, Alive, Exists, Latest
  <2>2. CASE other \in queue[q] => other \in queue'[q]
    BY <1>1, <2>1, <2>2, RememberedStays
  <2>3. CASE ~(other \in queue[q] => other \in queue'[q])
    <3>1. /\ q = p /\ other = o
          /\ Exists(o, seen[p][o]) => log[o][seen[p][o]].deleting
      BY <1>2, <2>3, IInvParts DEF RuntimeTypeOK
    <3>2. seen[p][o] # Len(log[o])
      BY <1>1, <1>6, <2>1, <3>1 DEF Alive, Latest
    <3>3. seen[p][o] <= Len(log[o]) /\ seen[p][o] \in Nat /\ Len(log[o]) \in Nat
      BY IInvParts, LenProperties DEF RuntimeInv, CachesAreBehind, RuntimeTypeOK
    <3> QED
      BY <3>1, <3>2, <3>3 DEF Remembered
  <2> QED
    BY <2>2, <2>3
<1>7. NeverForgotten'
  BY <1>6 DEF NeverForgotten
<1>8. VersionsAreAccounted'
  BY IInvParts DEF VersionsAreAccounted, Accounted
<1> QED
  BY <1>4, <1>5, <1>7, <1>8, IInvParts DEF IInv, TypeOK, Inv, RuntimeInv

\* A reconcile that finds a Policy makes a copy that has the record of the
\* version it has read, or one made of that version's spec.
LEMMA WhatGetFinds ==
    ASSUME IInv, NEW p \in Procs, NEW o \in Objects, GetFindsPolicy(p, o),
           seen[p][o] \in 1 .. Len(log[o]), log[o][seen[p][o]].alive
    PROVE  \E copy \in PolicyVersions :
              /\ Reconciling(p, o, "updateStatus", copy)
              /\ Resembles(copy, log[o][seen[p][o]])
              /\ Accounted(o, copy)
              /\ \/ SameRecord(copy.status, log[o][seen[p][o]].status)
                 \/ IsRecordOf(o, copy, log[o][seen[p][o]])
              /\ budget' \in Nat
<1> DEFINE read == log[o][seen[p][o]]
<1>1. budget \in Nat
  BY IInvParts DEF RuntimeTypeOK
<1>2. CASE /\ Reconciling(p, o, "updateStatus", Outcome(o, read))
           /\ UNCHANGED budget
  BY <1>1, <1>2, OutcomeFacts
<1>3. CASE /\ Reconciling(p, o, "updateStatus", SetCondition(read, ClientError))
           /\ Disturb
  <2>1. read \in PolicyVersions /\ Accounted(o, read)
    BY StoredVersions, IInvParts DEF VersionsAreAccounted
  <2>2. ClientError \in Conditions
    BY DEF Conditions
  <2> DEFINE copy == SetCondition(read, ClientError)
  <2>3. /\ copy \in PolicyVersions
        /\ Resembles(copy, read)
        /\ SameRecord(copy.status, read.status)
    BY <2>1, <2>2, SetConditionFacts
  <2>4. budget' \in Nat
    BY <1>1, <1>3 DEF Disturb
  <2> HIDE DEF copy, read
  <2>5. Accounted(o, copy)
    BY <2>1, <2>3, SameRecordSource DEF Resembles
  <2> QED
    BY <1>3, <2>3, <2>4, <2>5 DEF copy, read
<1> QED
  BY <1>2, <1>3 DEF GetFindsPolicy

\* A reconcile that finds a Policy: it holds the outcome, to be stored.
LEMMA BeginKeepsIInv ==
    ASSUME IInv, NEW p \in Procs, NEW o \in Objects, MayTake(p, o),
           GetFindsPolicy(p, o), UNCHANGED <<log, seen, config>>
    PROVE  IInv'
<1> DEFINE read == log[o][seen[p][o]]
<1>1. Exists(o, seen[p][o]) /\ Drop(p, o)
  BY DEF GetFindsPolicy
<1>2. seen[p][o] \in 1 .. Len(log[o]) /\ read.alive
  <2>1. seen[p][o] <= Len(log[o]) /\ seen[p][o] \in Nat /\ Len(log[o]) \in Nat
    BY IInvParts, StoredVersions DEF RuntimeInv, CachesAreBehind, RuntimeTypeOK
  <2> QED
    BY <1>1, <2>1 DEF Exists
<1>3. PICK copy \in PolicyVersions :
         /\ Reconciling(p, o, "updateStatus", copy)
         /\ Resembles(copy, read)
         /\ Accounted(o, copy)
         /\ SameRecord(copy.status, read.status) \/ IsRecordOf(o, copy, read)
         /\ budget' \in Nat
  BY <1>2, WhatGetFinds
<1> DEFINE begun == [pc |-> "updateStatus", obj |-> o, rv |-> seen[p][o], copy |-> copy]
<1>4. RuntimeTypeOK(Specs, Statuses, {}, Phases)' /\ RuntimeInv'
  <2>1. RuntimeTypeOK(Specs, Statuses, {}, Phases) /\ RuntimeInv
    BY IInvParts
  <2>2. copy \in Versions(Specs, Statuses, {}) /\ "updateStatus" \in Phases
    BY <1>3 DEF PolicyVersions, Phases
  <2> QED
    BY <1>1, <1>3, <2>1, <2>2, BeginKeepsRuntime DEF Resembles
<1>5. /\ work' = [work EXCEPT ![p] = begun]
      /\ queue' = [queue EXCEPT ![p] = @ \ {o}]
      /\ work[p] = Idle
  BY <1>1, <1>3 DEF Reconciling, Drop, MayTake
<1>6. /\ work'[p] = begun
      /\ \A q \in Procs \ {p} : work'[q] = work[q] /\ queue'[q] = queue[q]
      /\ \A other \in Objects \ {o} : other \in queue[p] => other \in queue'[p]
  BY <1>5, IInvParts DEF RuntimeTypeOK
<1>7. /\ work'[p].obj = o
      /\ work'[p].rv = seen[p][o]
      /\ work'[p].copy = copy
      /\ work'[p] # Idle
  BY <1>6 DEF Idle
<1> HIDE DEF begun
<1>8. ASSUME NEW q \in Procs, work'[q] # Idle
      PROVE  CopyIsAccounted(q)'
  <2>1. CASE q = p
    BY <1>3, <1>7, <2>1 DEF CopyIsAccounted, Accounted
  <2>2. CASE q # p
    BY <1>6, <1>8, <2>2, CopyStays
  <2> QED
    BY <2>1, <2>2
<1>9. ASSUME NEW q \in Procs, NEW other \in Objects,
             Alive(other)', ~Latest(other)'.deleting
      PROVE  Remembered(q, other)'
  <2>1. Remembered(q, other)
    BY <1>9, IInvParts DEF NeverForgotten, Alive, Exists, Latest
  <2>2. CASE q = p /\ other = o
    BY <1>7, <2>2 DEF Remembered
  <2>3. CASE ~(q = p /\ other = o)
    <3>1. /\ other \in queue[q] => other \in queue'[q]
          /\ work[q] # Idle => work'[q] = work[q]
      BY <1>5, <1>6, <2>3
    <3> QED
      BY <2>1, <3>1, RememberedStays
  <2> QED
    BY <2>2, <2>3
<1>10. NeverForgotten'
  BY <1>9 DEF NeverForgotten
<1>11. VersionsAreAccounted'
  BY IInvParts DEF VersionsAreAccounted, Accounted
<1> QED
  BY <1>4, <1>8, <1>10, <1>11, IInvParts DEF IInv, TypeOK, Inv, RuntimeInv

\* A reconcile begins.
LEMMA StartReconcileKeepsIInv ==
    ASSUME IInv, NEW p \in Procs, NEW o \in Objects, StartReconcile(p, o)
    PROVE  IInv'
BY NothingDoneKeepsIInv, BeginKeepsIInv DEF StartReconcile

\* What a status update stores is accounted for, as the copy it comes from is.
LEMMA UpdateKeepsAccounts ==
    ASSUME IInv, NEW p \in Procs, work[p] # Idle, StatusUpdate(p)
    PROVE  VersionsAreAccounted'
<1> DEFINE o == work[p].obj
           stored == [Latest(o) EXCEPT !.status = work[p].copy.status]
<1>1. /\ o \in Objects
      /\ \/ log' = log
         \/ /\ Latest(o) = log[o][work[p].rv]
            /\ Latest(o) \in PolicyVersions
            /\ stored \in PolicyVersions
            /\ Commit(o, stored)
  BY IInvParts, StatusUpdateStores DEF Stored, PolicyVersions
<1>2. CASE log' = log
  BY <1>2, IInvParts DEF VersionsAreAccounted, Accounted
<1>3. CASE log' # log
  <2>1. Rooted(p) /\ CopyIsAccounted(p)
    BY IInvParts DEF RuntimeInv, WorkIsRooted
  <2>2. work[p].copy.uid = Latest(o).uid
    BY <1>1, <1>3, <2>1, Zenon DEF Rooted
  <2>3. stored.uid = Latest(o).uid /\ stored.status = work[p].copy.status
    BY <1>1, <1>3 DEF PolicyVersions, Versions
  <2>4. Accounted(o, work[p].copy)
    BY <2>1 DEF CopyIsAccounted
  <2> HIDE DEF stored
  <2>5. Accounted(o, stored)
    BY <2>2, <2>3, <2>4, AccountedByStatus
  <2> QED
    BY <1>1, <1>3, <2>5, CommitKeepsAccounts
<1> QED
  BY <1>2, <1>3

\* The status update: accepted or not, the object is queued again.
LEMMA UpdateStatusKeepsIInv ==
    ASSUME IInv, NEW p \in Procs, work[p] # Idle, UpdateStatus(p)
    PROVE  IInv'
<1>1. /\ StatusUpdate(p)
      /\ UNCHANGED config
  BY DEF UpdateStatus
<1>2. RuntimeTypeOK(Specs, Statuses, {}, Phases) /\ RuntimeInv
  BY IInvParts
<1>3. RuntimeTypeOK(Specs, Statuses, {}, Phases)' /\ RuntimeInv'
  BY <1>1, <1>2, StatusUpdateKeepsRuntime
<1>4. /\ work[p].obj \in Objects
      /\ work' = [work EXCEPT ![p] = Idle]
      /\ queue' = [queue EXCEPT ![p] = @ \cup {work[p].obj}]
      /\ seen' = seen
      /\ \/ log' = log
         \/ \E version \in PolicyVersions : Commit(work[p].obj, version)
  BY <1>1, <1>2, StatusUpdateStores DEF Stored, PolicyVersions
<1>5. /\ work'[p] = Idle
      /\ work[p].obj \in queue'[p]
      /\ \A q \in Procs : queue[q] \subseteq queue'[q]
      /\ \A q \in Procs \ {p} : work'[q] = work[q]
  BY <1>2, <1>4, IInvParts DEF RuntimeTypeOK
<1>6. ASSUME NEW q \in Procs, work'[q] # Idle
      PROVE  CopyIsAccounted(q)'
  <2>1. q # p /\ work'[q] = work[q] /\ work[q] # Idle
    BY <1>5, <1>6
  <2> QED
    BY <1>4, <2>1, CopyStays
<1>7. ASSUME NEW q \in Procs, NEW o \in Objects,
             Alive(o)', ~Latest(o)'.deleting
      PROVE  Remembered(q, o)'
  <2>1. CASE log'[o] # log[o]
    <3>1. \E version \in PolicyVersions : Commit(work[p].obj, version)
      BY <1>4, <2>1
    <3>2. work[p].obj = o
      BY <1>2, <2>1, <3>1 DEF Commit, RuntimeTypeOK
    <3> QED
      BY <1>2, <1>4, <3>1, <3>2, CommitIsNews DEF PolicyVersions
  <2>2. CASE log'[o] = log[o]
    <3>1. Remembered(q, o)
      BY <1>7, <2>2, IInvParts DEF NeverForgotten, Alive, Exists, Latest
    <3>2. work[q] # Idle /\ work[q].obj = o
          => \/ work'[q] # Idle /\ work'[q].obj = o
             \/ o \in queue'[q]
      BY <1>5
    <3> QED
      BY <1>4, <1>5, <2>2, <3>1, <3>2, RememberedStays
  <2> QED
    BY <2>1, <2>2
<1>8. NeverForgotten'
  BY <1>7 DEF NeverForgotten
<1>9. VersionsAreAccounted'
  BY <1>1, UpdateKeepsAccounts
<1> QED
  BY <1>1, <1>3, <1>6, <1>8, <1>9, IInvParts DEF IInv, TypeOK, Inv, RuntimeInv

\* Every step of the specification keeps the inductive invariant.
LEMMA StepsKeepIInv == IInv /\ [Next]_vars => IInv'
<1> SUFFICES ASSUME IInv, [Next]_vars
             PROVE  IInv'
  OBVIOUS
<1>1. CASE Users
  BY <1>1, UsersKeepIInv
<1>2. CASE Kubernetes
  BY <1>2, KubernetesKeepsIInv
<1>3. ASSUME NEW p \in Procs, NEW o \in Objects, StartReconcile(p, o)
      PROVE  IInv'
  BY <1>3, StartReconcileKeepsIInv
<1>4. ASSUME NEW p \in Procs, UpdateStatus(p)
      PROVE  IInv'
  <2>1. work[p] # Idle
    BY <1>4 DEF UpdateStatus, Idle
  <2> QED
    BY <1>4, <2>1, UpdateStatusKeepsIInv
<1>5. CASE UNCHANGED vars
  <2>1. UNCHANGED <<log, seen, queue, work, budget, config>>
    BY <1>5 DEF vars, runtimeVars
  <2>2. RuntimeTypeOK(Specs, Statuses, {}, Phases)'
    BY <2>1, IInvParts DEF RuntimeTypeOK
  <2>3. RuntimeInv' /\ NeverForgotten'
    BY <2>1, IInvParts
    DEF RuntimeInv, CachesAreBehind, WorkIsRooted, Rooted,
        NeverForgotten, Alive, Exists, Latest, Remembered
  <2>4. \A p \in Procs : work'[p] # Idle => CopyIsAccounted(p)'
    BY <2>1, CopyStays
  <2>5. VersionsAreAccounted'
    BY <2>1, IInvParts DEF VersionsAreAccounted, Accounted
  <2> QED
    BY <2>1, <2>2, <2>3, <2>4, <2>5, IInvParts DEF IInv, TypeOK, Inv, RuntimeInv
<1> QED
  BY <1>1, <1>2, <1>3, <1>4, <1>5 DEF Next

\* The inductive invariant holds in every reachable state.
THEOREM PolicyInvariance == Spec => []IInv
<1> QED
  BY Initially, StepsKeepIInv, PTL DEF Spec

\* Whatever users, processes, faults and crashes do, every variable keeps its
\* type.
THEOREM PolicyTypes == Spec => []TypeOK
<1>1. IInv => TypeOK
  BY DEF IInv
<1> QED
  BY <1>1, PolicyInvariance, PTL

\* No process ever loses track of a Policy that exists and is not being
\* deleted.
THEOREM PoliciesAreRemembered == Spec => []NeverForgotten
<1>1. IInv => NeverForgotten
  BY DEF IInv
<1> QED
  BY <1>1, PolicyInvariance, PTL

\* The name, the document and the ID that a status reports come from one
\* generation of the Policy, one whose parameters were valid.
THEOREM RecordsAreOfOneGeneration == Spec => []RecordIsOfOneGeneration
<1>1. IInv => RecordIsOfOneGeneration
  <2> SUFFICES ASSUME IInv, NEW o \in Objects, Alive(o)
               PROVE  Accounted(o, Latest(o))
    BY DEF RecordIsOfOneGeneration, Accounted
  <2> QED
    BY StoredVersions, IInvParts DEF VersionsAreAccounted, Latest
<1> QED
  BY <1>1, PolicyInvariance, PTL

\* A step that stores a status is an UpdateStatus.
LEMMA WhatWritesStatus ==
    ASSUME IInv, [Next]_vars, NEW o \in Objects, IsStatusWrite(o)
    PROVE  \E p \in Procs : StatusUpdate(p) /\ work[p] # Idle
<1>1. log'[o] # log[o]
  BY DEF IsStatusWrite
<1>2. \A p \in Procs, u \in Objects : ~StartReconcile(p, u)
  BY <1>1 DEF StartReconcile
<1>3. ~Kubernetes /\ ~UNCHANGED vars
  BY <1>1 DEF Kubernetes, Observe, Resync, Restart, vars, runtimeVars
<1>4. ~Users
  <2> SUFFICES ASSUME Users PROVE FALSE
    OBVIOUS
  <2>1. NoStatus \in Statuses
    BY DEF NoStatus, Statuses, Documents
  <2>2. PICK u \in Objects, spec \in Specs : UserAct(u, spec, NoStatus)
    BY <1>1, UsersActOnObjects DEF Users
  <2> QED
    BY <2>1, <2>2, IInvParts, UsersWriteNoStatus
<1>5. PICK p \in Procs : UpdateStatus(p)
  BY <1>2, <1>3, <1>4 DEF Next
<1> QED
  BY <1>5 DEF UpdateStatus, Idle

\* A status that is stored leaves the record as it is or makes one of the very
\* spec it is stored beside, whatever the caches of other processes hold.
THEOREM RecordsAreOfTheSpec == Spec => RecordsFollowTheSpec
<1>1. ASSUME IInv, [Next]_vars, NEW o \in Objects, IsStatusWrite(o)
      PROVE  KeepsOrMakesRecord(o)
  <2>1. PICK p \in Procs : StatusUpdate(p) /\ work[p] # Idle
    BY <1>1, WhatWritesStatus
  <2>2. log'[o] # log[o]
    BY <1>1 DEF IsStatusWrite
  <2>3. /\ work[p].obj = o
        /\ Latest(o) = log[o][work[p].rv]
        /\ Latest(o)'.status = work[p].copy.status
    BY <1>1, <2>1, <2>2, IInvParts, StatusUpdateWrites
  <2>4. CopyIsAccounted(p) /\ Rooted(p)
    BY <1>1, <2>1, IInvParts DEF RuntimeInv, WorkIsRooted
  <2>5. CASE SameRecord(work[p].copy.status, Latest(o).status)
    BY <2>3, <2>5 DEF KeepsOrMakesRecord
  <2>6. CASE IsRecordOf(o, work[p].copy, Latest(o))
    <3>1. Latest(o)'.uid = work[p].copy.uid
      BY <1>1, <2>3, <2>4, Zenon DEF IsStatusWrite, Rooted
    <3> QED
      BY <2>3, <2>6, <3>1 DEF KeepsOrMakesRecord, IsRecordOf
  <2> QED
    BY <2>3, <2>4, <2>5, <2>6, Zenon DEF CopyIsAccounted
<1>2. IInv /\ [Next]_vars
      => [\A o \in Objects :
             IsStatusWrite(o) => KeepsOrMakesRecord(o)]_vars
  BY <1>1
<1> QED
  BY <1>2, PolicyInvariance, PTL DEF Spec, RecordsFollowTheSpec

-----------------------------------------------------------------------------
(* Among other controllers.                                                *)

\* What others do to the budget and the credentials is nothing to Policies.
LEMMA OthersKeepIInv ==
    ASSUME IInv, UNCHANGED <<log, seen, queue, work>>,
           budget' \in Nat, config' \in Configs
    PROVE  IInv'
<1>1. RuntimeTypeOK(Specs, Statuses, {}, Phases)'
  BY IInvParts DEF RuntimeTypeOK
<1>2. RuntimeInv' /\ NeverForgotten'
  BY IInvParts
  DEF RuntimeInv, CachesAreBehind, WorkIsRooted, Rooted,
      NeverForgotten, Alive, Exists, Latest, Remembered
<1>3. \A p \in Procs : work'[p] # Idle => CopyIsAccounted(p)'
  BY CopyStays
<1>4. VersionsAreAccounted'
  BY IInvParts DEF VersionsAreAccounted, Accounted
<1> QED
  BY <1>1, <1>2, <1>3, <1>4 DEF IInv, TypeOK, Inv, RuntimeInv

\* No Policy says, or is about to say, that it is Synced.
NothingDone == StatusesAreIn({s \in Statuses : Success \notin s.conditions})

\* Without a client no Policy becomes Synced: the outcome of a reconcile is
\* ClientError.
LEMMA NothingDoneWithoutClient ==
    ASSUME IInv, NothingDone, ~GetBackblazeClient, [Next]_vars
    PROVE  NothingDone'
<1> DEFINE Unsynced == {s \in Statuses : Success \notin s.conditions}
<1>1. /\ RuntimeTypeOK(Specs, Statuses, {}, Phases)
      /\ RuntimeInv
      /\ StatusesAreIn(Unsynced)
  BY IInvParts DEF NothingDone
<1>2. NoStatus \in Statuses /\ NoStatus \in Unsynced
  BY DEF NoStatus, Statuses, Documents
<1> HIDE DEF Unsynced
<1> SUFFICES StatusesAreIn(Unsynced)'
  BY DEF NothingDone, Unsynced
<1>3. CASE Users
  <2>1. CASE UNCHANGED <<log, work>>
    BY <1>1, <2>1 DEF StatusesAreIn
  <2>2. CASE ~UNCHANGED <<log, work>>
    <3>1. PICK o \in Objects, spec \in Specs : UserAct(o, spec, NoStatus)
      BY <1>3, <2>2, UsersActOnObjects DEF Users
    <3> QED
      BY <1>1, <1>2, <3>1, UsersKeepStatuses
  <2> QED
    BY <2>1, <2>2
<1>4. CASE Kubernetes
  BY <1>1, <1>4, CachesKeepStatuses DEF Kubernetes
<1>5. ASSUME NEW p \in Procs, NEW o \in Objects, StartReconcile(p, o)
      PROVE  StatusesAreIn(Unsynced)'
  <2>1. log' = log
    BY <1>5 DEF StartReconcile
  <2>2. CASE NothingToDo(p, o) \/ GetFails(p, o)
    BY <1>1, <2>1, <2>2 DEF StatusesAreIn, NothingToDo, GetFails
  <2>3. CASE GetFindsPolicy(p, o)
    <3> DEFINE copy == SetCondition(log[o][seen[p][o]], ClientError)
    <3>1. /\ Exists(o, seen[p][o])
          /\ Reconciling(p, o, "updateStatus", copy)
      BY <2>3, Zenon DEF GetFindsPolicy, Outcome
    <3>2. log[o][seen[p][o]] \in PolicyVersions
      <4>1. seen[p][o] <= Len(log[o]) /\ seen[p][o] \in Nat /\ Len(log[o]) \in Nat
        BY <1>1, StoredVersions DEF RuntimeInv, CachesAreBehind, RuntimeTypeOK
      <4> QED
        BY <3>1, <4>1, StoredVersions DEF Exists
    <3>3. copy.status \in Unsynced
      <4>1. /\ ClientError \in Conditions
            /\ ClientError # Success
        BY DEF Conditions, ClientError, Success
      <4>2. /\ copy \in PolicyVersions
            /\ copy.status.conditions = {ClientError}
        <5>1. log[o][seen[p][o]].status \in Statuses
          BY <3>2 DEF PolicyVersions, Versions
        <5> QED
          BY <3>2, <4>1, <5>1, SetConditionFacts DEF Statuses
      <4> QED
        BY <4>1, <4>2 DEF Unsynced, PolicyVersions, Versions
    <3> HIDE DEF copy
    <3>4. \A q \in Procs : work'[q] # Idle => work'[q].copy.status \in Unsynced
      BY <1>1, <3>1, <3>3 DEF Reconciling, StatusesAreIn, RuntimeTypeOK
    <3> QED
      BY <1>1, <2>1, <3>4 DEF StatusesAreIn
  <2> QED
    BY <1>5, <2>2, <2>3 DEF StartReconcile
<1>6. ASSUME NEW p \in Procs, UpdateStatus(p)
      PROVE  StatusesAreIn(Unsynced)'
  <2>1. work[p] # Idle /\ StatusUpdate(p)
    BY <1>6 DEF UpdateStatus, Idle
  <2> QED
    BY <1>1, <2>1, StatusUpdateKeepsStatuses
<1>7. CASE UNCHANGED vars
  BY <1>1, <1>7 DEF vars, runtimeVars, StatusesAreIn
<1> QED
  BY <1>3, <1>4, <1>5, <1>6, <1>7 DEF Next
=============================================================================
