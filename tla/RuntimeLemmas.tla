--------------------------- MODULE RuntimeLemmas ---------------------------
(***************************************************************************)
(* What the actions of ControllerRuntime preserve, for every controller    *)
(* that is built on it: the types, and that caches and reconciles in       *)
(* progress are rooted in versions the server has stored.                  *)
(***************************************************************************)
EXTENDS ControllerRuntime, SequenceTheorems, TLAPS

\* Storing a version keeps the earlier ones and puts the new one last.
LEMMA CommitFacts ==
    ASSUME NEW V, log \in [Objects -> Seq(V)],
           NEW o \in Objects, NEW version \in V, Commit(o, version)
    PROVE  /\ log' \in [Objects -> Seq(V)]
           /\ \A other \in Objects \ {o} : log'[other] = log[other]
           /\ Len(log[o]) \in Nat
           /\ Len(log'[o]) = Len(log[o]) + 1
           /\ Latest(o)' = version
           /\ \A i \in 1 .. Len(log[o]) : log'[o][i] = log[o][i]
<1>1. log[o] \in Seq(V)
  OBVIOUS
<1>2. log'[o] = Append(log[o], version)
  BY DEF Commit
<1>3. /\ Append(log[o], version) \in Seq(V)
      /\ Len(Append(log[o], version)) = Len(log[o]) + 1
      /\ Append(log[o], version)[Len(log[o]) + 1] = version
      /\ \A i \in 1 .. Len(log[o]) : Append(log[o], version)[i] = log[o][i]
  BY <1>1, AppendProperties
<1>4. Len(log[o]) \in Nat
  BY <1>1, LenProperties
<1>5. log' \in [Objects -> Seq(V)]
  BY <1>2, <1>3 DEF Commit
<1>6. Latest(o)' = version
  BY <1>2, <1>3 DEF Latest
<1>7. \A other \in Objects \ {o} : log'[other] = log[other]
  BY DEF Commit
<1> QED
  BY <1>2, <1>3, <1>4, <1>5, <1>6, <1>7

\* Every change that is made to a version, stored or in memory, is one.
LEMMA VersionUpdates ==
    ASSUME NEW S, NEW T, NEW N, NEW v \in Versions(S, T, N),
           NEW spec \in S, NEW status \in T
    PROVE  /\ [v EXCEPT !.spec = spec, !.gen = @ + 1] \in Versions(S, T, N)
           /\ [v EXCEPT !.alive = FALSE] \in Versions(S, T, N)
           /\ [v EXCEPT !.deleting = TRUE, !.gen = @ + 1] \in Versions(S, T, N)
           /\ [v EXCEPT !.status = status] \in Versions(S, T, N)
<1>1. [v EXCEPT !.spec = spec] \in Versions(S, T, N)
  BY DEF Versions
<1>2. \A w \in Versions(S, T, N) : [w EXCEPT !.gen = @ + 1] \in Versions(S, T, N)
  BY DEF Versions
<1>3. [v EXCEPT !.alive = FALSE] \in Versions(S, T, N)
  BY DEF Versions
<1>4. [v EXCEPT !.deleting = TRUE] \in Versions(S, T, N)
  BY DEF Versions
<1>5. [v EXCEPT !.status = status] \in Versions(S, T, N)
  BY DEF Versions
<1>6. /\ [v EXCEPT !.spec = spec].gen = v.gen
      /\ [v EXCEPT !.deleting = TRUE].gen = v.gen
  BY DEF Versions
<1>7. [v EXCEPT !.spec = spec, !.gen = @ + 1] \in Versions(S, T, N)
  BY <1>1, <1>2, <1>6
<1>8. [v EXCEPT !.deleting = TRUE, !.gen = @ + 1] \in Versions(S, T, N)
  BY <1>2, <1>4, <1>6
<1> QED
  BY <1>3, <1>5, <1>7, <1>8

\* What the proofs need to know of caches and workers.
RuntimeInv == CachesAreBehind /\ WorkIsRooted

\* Storing a version moves no cache and uproots no reconcile in progress.
LEMMA CommitKeepsCaches ==
    ASSUME NEW S, NEW T, NEW N, NEW P,
           RuntimeTypeOK(S, T, N, P), RuntimeInv,
           NEW o \in Objects, NEW version \in Versions(S, T, N),
           Commit(o, version), UNCHANGED seen
    PROVE  CachesAreBehind'
<1>1. log \in [Objects -> Seq(Versions(S, T, N))]
  BY DEF RuntimeTypeOK
<1>2. /\ \A other \in Objects \ {o} : log'[other] = log[other]
      /\ Len(log'[o]) = Len(log[o]) + 1
  BY <1>1, CommitFacts
<1> SUFFICES ASSUME NEW p \in Procs, NEW other \in Objects
             PROVE  seen[p][other] <= Len(log'[other])
  BY DEF CachesAreBehind
<1>3. /\ seen[p][other] <= Len(log[other])
      /\ seen[p][other] \in Nat
      /\ Len(log[other]) \in Nat
  BY <1>1, LenProperties DEF CachesAreBehind, RuntimeInv, RuntimeTypeOK
<1>4. CASE other = o
  BY <1>2, <1>3, <1>4
<1>5. CASE other # o
  BY <1>2, <1>3, <1>5
<1> QED
  BY <1>4, <1>5

\* A reconcile in progress stays rooted when a version is stored: its own is
\* still there.
LEMMA CommitKeepsRooted ==
    ASSUME NEW S, NEW T, NEW N, NEW P,
           RuntimeTypeOK(S, T, N, P), RuntimeInv,
           NEW o \in Objects, NEW version \in Versions(S, T, N),
           Commit(o, version), UNCHANGED seen,
           NEW p \in Procs, work[p] # Idle,
           work'[p] = work[p], queue'[p] = queue[p]
    PROVE  Rooted(p)'
<1>1. log \in [Objects -> Seq(Versions(S, T, N))]
  BY DEF RuntimeTypeOK
<1>2. /\ \A other \in Objects \ {o} : log'[other] = log[other]
      /\ Len(log'[o]) = Len(log[o]) + 1
      /\ \A i \in 1 .. Len(log[o]) : log'[o][i] = log[o][i]
  BY <1>1, CommitFacts
<1>3. Rooted(p) /\ work[p].obj \in Objects /\ Len(log[work[p].obj]) \in Nat
  BY <1>1, LenProperties DEF RuntimeTypeOK, Reconciles, RuntimeInv, WorkIsRooted
<1>4. \A i \in 1 .. Len(log[work[p].obj]) :
         log'[work[p].obj][i] = log[work[p].obj][i]
  BY <1>2, <1>3
<1>5. /\ Len(log[work[p].obj]) <= Len(log'[work[p].obj])
      /\ Len(log'[work[p].obj]) \in Nat
  BY <1>2, <1>3
<1>6. log'[work[p].obj][work[p].rv] = log[work[p].obj][work[p].rv]
  BY <1>3, <1>4 DEF Rooted
<1>7. work[p].rv \in 1 .. Len(log'[work[p].obj])
  BY <1>3, <1>5 DEF Rooted
<1> QED
  BY <1>3, <1>6, <1>7, Zenon DEF Rooted

\* The versions that reconciles in progress have read stay what they were.
LEMMA CommitKeepsReads ==
    ASSUME NEW V, log \in [Objects -> Seq(V)],
           NEW o \in Objects, NEW version \in V, Commit(o, version),
           NEW other \in Objects, NEW i \in 1 .. Len(log[other])
    PROVE  log'[other][i] = log[other][i]
<1>1. CASE other = o
  BY <1>1, CommitFacts
<1>2. CASE other # o
  BY <1>2 DEF Commit
<1> QED
  BY <1>1, <1>2

\* The two together: storing a version is no matter to the runtime.
LEMMA CommitKeepsRuntime ==
    ASSUME NEW S, NEW T, NEW N, NEW P,
           RuntimeTypeOK(S, T, N, P), RuntimeInv,
           NEW o \in Objects, NEW version \in Versions(S, T, N),
           Commit(o, version), budget' \in Nat, UNCHANGED <<seen, queue, work>>
    PROVE  RuntimeTypeOK(S, T, N, P)' /\ RuntimeInv'
<1>1. log' \in [Objects -> Seq(Versions(S, T, N))]
  BY CommitFacts DEF RuntimeTypeOK
<1>2. RuntimeTypeOK(S, T, N, P)'
  BY <1>1 DEF RuntimeTypeOK
<1>3. CachesAreBehind'
  BY CommitKeepsCaches
<1>4. WorkIsRooted'
  BY CommitKeepsRooted DEF WorkIsRooted
<1> QED
  BY <1>2, <1>3, <1>4 DEF RuntimeInv

\* What users do to an object.
UserAct(o, spec, status) ==
    \/ CreateObject(o, spec, status)
    \/ EditSpec(o, spec)
    \/ DeleteObject(o)
    \/ DeleteHeldObject(o)

\* A user who creates, edits or deletes stores one well-formed version.
LEMMA UserActsCommit ==
    ASSUME NEW S, NEW T, NEW N, NEW P,
           RuntimeTypeOK(S, T, N, P),
           NEW o \in Objects, NEW spec \in S, NEW status \in T,
           UserAct(o, spec, status)
    PROVE  /\ \E version \in Versions(S, T, N) : Commit(o, version)
           /\ budget' \in Nat
           /\ UNCHANGED <<seen, queue, work>>
<1> DEFINE V == Versions(S, T, N)
<1>0. log[o] \in Seq(V) /\ budget \in Nat /\ Len(log[o]) \in Nat
  BY LenProperties DEF RuntimeTypeOK
<1>1. /\ budget' \in Nat
      /\ UNCHANGED <<seen, queue, work>>
  BY <1>0 DEF UserAct, CreateObject, EditSpec, DeleteObject, DeleteHeldObject, Disturb
<1>2. log[o] # <<>> => Latest(o) \in V
  BY <1>0, EmptySeq, ElementOfSeq DEF Latest
<1>3. Alive(o) => Latest(o) \in V
  BY <1>0, ElementOfSeq DEF Alive, Exists, Latest
<1>4. NewUid(o) \in Nat
  BY <1>2 DEF NewUid, Versions
<1>5. CASE CreateObject(o, spec, status)
  <2> DEFINE new == [uid |-> NewUid(o), gen |-> 1, alive |-> TRUE,
                     deleting |-> FALSE, external |-> NoName,
                     spec |-> spec, status |-> status]
  <2>1. new \in V
    BY <1>4 DEF Versions
  <2> QED
    BY <1>1, <1>5, <2>1 DEF CreateObject
<1>6. CASE EditSpec(o, spec)
  <2>1. [Latest(o) EXCEPT !.spec = spec, !.gen = @ + 1] \in V
    BY <1>3, <1>6, VersionUpdates DEF EditSpec
  <2> QED
    BY <1>1, <1>6, <2>1 DEF EditSpec
<1>7. CASE DeleteObject(o)
  <2>1. [Latest(o) EXCEPT !.alive = FALSE] \in V
    BY <1>3, <1>7, VersionUpdates DEF DeleteObject
  <2> QED
    BY <1>1, <1>7, <2>1 DEF DeleteObject
<1>8. CASE DeleteHeldObject(o)
  <2>1. [Latest(o) EXCEPT !.deleting = TRUE, !.gen = @ + 1] \in V
    BY <1>3, <1>8, VersionUpdates DEF DeleteHeldObject
  <2> QED
    BY <1>1, <1>8, <2>1 DEF DeleteHeldObject
<1> QED
  BY <1>5, <1>6, <1>7, <1>8 DEF UserAct

\* The caches only follow the server, and a reconcile the cache leaves behind
\* has its object queued.
LEMMA CachesKeepRuntime ==
    ASSUME NEW S, NEW T, NEW N, NEW P,
           RuntimeTypeOK(S, T, N, P), RuntimeInv,
           NEW p \in Procs,
           (\E o \in Objects : Observe(p, o) \/ Resync(p, o)) \/ Restart(p)
    PROVE  RuntimeTypeOK(S, T, N, P)' /\ RuntimeInv'
<1> USE DEF RuntimeTypeOK
<1>0. /\ \A other \in Objects : Len(log[other]) \in Nat
      /\ \A o \in Objects : seen[p][o] \in Nat
      /\ \A q \in Procs : work[q] # Idle => work[q].obj \in Objects
  BY LenProperties DEF Reconciles
<1>1. ASSUME NEW o \in Objects, Observe(p, o)
      PROVE  RuntimeTypeOK(S, T, N, P)' /\ RuntimeInv'
  <2>1. RuntimeTypeOK(S, T, N, P)'
    BY <1>0, <1>1 DEF Observe
  <2>2. CachesAreBehind'
    BY <1>0, <1>1 DEF Observe, CachesAreBehind, RuntimeInv
  <2>3. WorkIsRooted'
    <3> SUFFICES ASSUME NEW q \in Procs, work'[q] # Idle
                 PROVE  Rooted(q)'
      BY DEF WorkIsRooted
    <3>1. Rooted(q) /\ work[q].obj \in Objects /\ work' = work /\ log' = log
      BY <1>0, <1>1 DEF Observe, RuntimeInv, WorkIsRooted
    <3>2. \/ work[q].rv = seen'[q][work[q].obj]
          \/ work[q].obj \in queue'[q]
      BY <1>1, <3>1 DEF Observe, Rooted
    <3> QED
      BY <3>1, <3>2, Zenon DEF Rooted
  <2> QED
    BY <2>1, <2>2, <2>3 DEF RuntimeInv
<1>2. ASSUME NEW o \in Objects, Resync(p, o)
      PROVE  RuntimeTypeOK(S, T, N, P)' /\ RuntimeInv'
  <2>1. RuntimeTypeOK(S, T, N, P)'
    BY <1>2 DEF Resync
  <2>2. CachesAreBehind'
    BY <1>2 DEF Resync, CachesAreBehind, RuntimeInv
  <2>3. WorkIsRooted'
    <3> SUFFICES ASSUME NEW q \in Procs, work'[q] # Idle
                 PROVE  Rooted(q)'
      BY DEF WorkIsRooted
    <3>1. Rooted(q) /\ work' = work /\ log' = log /\ seen' = seen
      BY <1>2 DEF Resync, RuntimeInv, WorkIsRooted
    <3>2. queue[q] \subseteq queue'[q]
      BY <1>2 DEF Resync
    <3> QED
      BY <3>1, <3>2, Zenon DEF Rooted
  <2> QED
    BY <2>1, <2>2, <2>3 DEF RuntimeInv
<1>3. CASE Restart(p)
  <2>1. PICK relisted \in [Objects -> UNION {0 .. Len(log[x]) : x \in Objects}] :
          /\ \A x \in Objects : relisted[x] <= Len(log[x])
          /\ seen' = [seen EXCEPT ![p] = relisted]
          /\ queue' = [queue EXCEPT ![p] = {x \in Objects : Exists(x, relisted[x])}]
    BY <1>3 DEF Restart
  <2>6. \A x \in Objects : relisted[x] \in Nat
    BY <1>0
  <2>2. /\ work' = [work EXCEPT ![p] = Idle]
        /\ log' = log
        /\ budget' \in Nat
    BY <1>3 DEF Restart, Disturb
  <2>3. RuntimeTypeOK(S, T, N, P)'
    BY <1>0, <2>1, <2>2, <2>6
  <2>4. CachesAreBehind'
    BY <1>0, <2>1, <2>2, <2>6 DEF CachesAreBehind, RuntimeInv
  <2>5. WorkIsRooted'
    <3> SUFFICES ASSUME NEW q \in Procs, work'[q] # Idle
                 PROVE  Rooted(q)'
      BY DEF WorkIsRooted
    <3>1. q # p
      BY <2>2
    <3>2. Rooted(q)
      BY <2>2, <3>1 DEF RuntimeInv, WorkIsRooted
    <3>3. /\ work'[q] = work[q]
          /\ seen'[q] = seen[q]
          /\ queue'[q] = queue[q]
      BY <2>1, <2>2, <3>1
    <3> QED
      BY <2>2, <3>2, <3>3, Zenon DEF Rooted
  <2> QED
    BY <2>3, <2>4, <2>5 DEF RuntimeInv
<1> QED
  BY <1>1, <1>2, <1>3

\* A reconcile that begins is rooted in the version the cache holds.
LEMMA BeginKeepsRuntime ==
    ASSUME NEW S, NEW T, NEW N, NEW P,
           RuntimeTypeOK(S, T, N, P), RuntimeInv,
           NEW p \in Procs, NEW o \in Objects, NEW pc \in P,
           NEW copy \in Versions(S, T, N),
           MayTake(p, o), Exists(o, seen[p][o]), Drop(p, o),
           Reconciling(p, o, pc, copy),
           copy.uid = log[o][seen[p][o]].uid, copy.gen = log[o][seen[p][o]].gen,
           copy.deleting = log[o][seen[p][o]].deleting,
           copy.spec = log[o][seen[p][o]].spec,
           budget' \in Nat, UNCHANGED <<log, seen>>
    PROVE  RuntimeTypeOK(S, T, N, P)' /\ RuntimeInv'
<1> DEFINE begun == [pc |-> pc, obj |-> o, rv |-> seen[p][o], copy |-> copy]
<1>1. begun \in Reconciles(S, T, N, P)
  BY DEF Reconciles, RuntimeTypeOK
<1>2. /\ work' = [work EXCEPT ![p] = begun]
      /\ queue' = [queue EXCEPT ![p] = @ \ {o}]
  BY DEF Reconciling, Drop
<1>3. RuntimeTypeOK(S, T, N, P)'
  BY <1>1, <1>2 DEF RuntimeTypeOK
<1>4. CachesAreBehind'
  BY DEF CachesAreBehind, RuntimeInv
<1>5. WorkIsRooted'
  <2> SUFFICES ASSUME NEW q \in Procs, work'[q] # Idle
               PROVE  Rooted(q)'
    BY DEF WorkIsRooted
  <2>1. CASE q = p
    <3>1. work'[q] = begun
      BY <1>2, <2>1 DEF RuntimeTypeOK
    <3>2. /\ work'[q].obj = o
          /\ work'[q].rv = seen[q][o]
          /\ work'[q].copy = copy
      BY <2>1, <3>1
    <3>3. seen[q][o] \in 1 .. Len(log[o])
      BY <2>1, LenProperties DEF RuntimeTypeOK, RuntimeInv, CachesAreBehind, Exists
    <3>4. log[o][seen[q][o]].alive
      BY <2>1 DEF Exists
    <3> HIDE DEF begun
    <3> QED
      BY <2>1, <3>2, <3>3, <3>4, Zenon DEF Rooted
  <2>2. CASE q # p
    <3>1. work'[q] = work[q] /\ queue'[q] = queue[q]
      BY <1>2, <2>2 DEF RuntimeTypeOK
    <3>2. Rooted(q)
      BY <3>1 DEF RuntimeInv, WorkIsRooted
    <3> QED
      BY <3>1, <3>2, Zenon DEF Rooted
  <2> QED
    BY <2>1, <2>2
<1> QED
  BY <1>3, <1>4, <1>5 DEF RuntimeInv

\* A reconcile that goes on changes only the status and the external name of
\* its copy.
LEMMA GotoKeepsRuntime ==
    ASSUME NEW S, NEW T, NEW N, NEW P,
           RuntimeTypeOK(S, T, N, P), RuntimeInv,
           NEW p \in Procs, NEW pc \in P, NEW copy \in Versions(S, T, N),
           work[p] # Idle, Goto(p, pc, copy),
           copy.uid = work[p].copy.uid, copy.gen = work[p].copy.gen,
           copy.deleting = work[p].copy.deleting, copy.spec = work[p].copy.spec,
           budget' \in Nat, UNCHANGED <<log, seen, queue>>
    PROVE  RuntimeTypeOK(S, T, N, P)' /\ RuntimeInv'
<1> DEFINE next == [work[p] EXCEPT !.pc = pc, !.copy = copy]
<1>0. work[p] \in Reconciles(S, T, N, P)
  BY DEF RuntimeTypeOK
<1>1. /\ next \in Reconciles(S, T, N, P)
      /\ next.obj = work[p].obj
      /\ next.rv = work[p].rv
      /\ next.copy = copy
      /\ next.pc = pc
  BY <1>0 DEF Reconciles
<1>2. work' = [work EXCEPT ![p] = next]
  BY DEF Goto
<1> HIDE DEF next
<1>3. RuntimeTypeOK(S, T, N, P)'
  BY <1>1, <1>2 DEF RuntimeTypeOK
<1>4. CachesAreBehind'
  BY DEF CachesAreBehind, RuntimeInv
<1>5. WorkIsRooted'
  <2> SUFFICES ASSUME NEW q \in Procs, work'[q] # Idle
               PROVE  Rooted(q)'
    BY DEF WorkIsRooted
  <2>1. CASE q = p
    <3>1. work'[q] = next
      BY <1>2, <2>1 DEF RuntimeTypeOK
    <3>2. Rooted(q)
      BY <2>1 DEF RuntimeInv, WorkIsRooted
    <3> QED
      BY <1>1, <2>1, <3>1, <3>2, Zenon DEF Rooted
  <2>2. CASE q # p
    <3>1. work'[q] = work[q]
      BY <1>2, <2>2 DEF RuntimeTypeOK
    <3>2. Rooted(q)
      BY <3>1 DEF RuntimeInv, WorkIsRooted
    <3> QED
      BY <3>1, <3>2, Zenon DEF Rooted
  <2> QED
    BY <2>1, <2>2
<1> QED
  BY <1>3, <1>4, <1>5 DEF RuntimeInv

\* A worker that becomes or stays idle, whether or not a timer is left behind.
LEMMA IdleKeepsRuntime ==
    ASSUME NEW S, NEW T, NEW N, NEW P,
           RuntimeTypeOK(S, T, N, P), RuntimeInv,
           NEW p \in Procs, work' = [work EXCEPT ![p] = Idle],
           queue' \in [Procs -> SUBSET Objects],
           \A q \in Procs \ {p} : queue'[q] = queue[q],
           budget' \in Nat, UNCHANGED <<log, seen>>
    PROVE  RuntimeTypeOK(S, T, N, P)' /\ RuntimeInv'
<1>1. RuntimeTypeOK(S, T, N, P)'
  BY DEF RuntimeTypeOK
<1>2. CachesAreBehind'
  BY DEF CachesAreBehind, RuntimeInv
<1>3. WorkIsRooted'
  <2> SUFFICES ASSUME NEW q \in Procs, work'[q] # Idle
               PROVE  Rooted(q)'
    BY DEF WorkIsRooted
  <2>1. q # p
    BY DEF RuntimeTypeOK
  <2>2. work'[q] = work[q] /\ queue'[q] = queue[q]
    BY <2>1 DEF RuntimeTypeOK
  <2>3. Rooted(q)
    BY <2>2 DEF RuntimeInv, WorkIsRooted
  <2> QED
    BY <2>2, <2>3, Zenon DEF Rooted
<1> QED
  BY <1>1, <1>2, <1>3 DEF RuntimeInv

\* A status update stores the status of the copy beside the spec the copy was
\* made from, or nothing.
LEMMA StatusUpdateStores ==
    ASSUME NEW S, NEW T, NEW N, NEW P,
           RuntimeTypeOK(S, T, N, P), RuntimeInv,
           NEW p \in Procs, work[p] # Idle, StatusUpdate(p)
    PROVE  /\ \/ log' = log
              \/ /\ UpToDate(p)
                 /\ Latest(work[p].obj) = log[work[p].obj][work[p].rv]
                 /\ Latest(work[p].obj) \in Versions(S, T, N)
                 /\ [Latest(work[p].obj) EXCEPT !.status = work[p].copy.status]
                       \in Versions(S, T, N)
                 /\ Stored(work[p].obj, work[p].copy.status)
           /\ work[p].obj \in Objects
           /\ work[p].copy \in Versions(S, T, N)
           /\ work' = [work EXCEPT ![p] = Idle]
           /\ queue' = [queue EXCEPT ![p] = @ \cup {work[p].obj}]
           /\ budget' \in Nat
           /\ seen' = seen
<1>1. work[p].obj \in Objects /\ work[p].copy \in Versions(S, T, N)
  BY DEF RuntimeTypeOK, Reconciles
<1>2. /\ work' = [work EXCEPT ![p] = Idle]
      /\ queue' = [queue EXCEPT ![p] = @ \cup {work[p].obj}]
      /\ budget' \in Nat
      /\ seen' = seen
  BY DEF StatusUpdate, Requeue, Disturb, RuntimeTypeOK
<1>3. \/ log' = log
      \/ UpToDate(p) /\ Stored(work[p].obj, work[p].copy.status)
  BY DEF StatusUpdate
<1>4. ASSUME UpToDate(p)
      PROVE  /\ Latest(work[p].obj) = log[work[p].obj][work[p].rv]
             /\ Latest(work[p].obj) \in Versions(S, T, N)
  <2>1. Latest(work[p].obj) = log[work[p].obj][work[p].rv]
    BY <1>4 DEF UpToDate, Latest
  <2>2. work[p].rv \in 1 .. Len(log[work[p].obj])
    BY DEF RuntimeInv, WorkIsRooted, Rooted
  <2>3. log[work[p].obj] \in Seq(Versions(S, T, N))
    BY <1>1 DEF RuntimeTypeOK
  <2> QED
    BY <2>1, <2>2, <2>3, ElementOfSeq
<1>5. work[p].copy.status \in T
  BY <1>1 DEF Versions
<1>6. \A v \in Versions(S, T, N) :
         [v EXCEPT !.status = work[p].copy.status] \in Versions(S, T, N)
  BY <1>5 DEF Versions
<1> QED
  BY <1>1, <1>2, <1>3, <1>4, <1>6

\* A status update, accepted or not, leaves the worker idle and the others
\* rooted.
LEMMA StatusUpdateKeepsRuntime ==
    ASSUME NEW S, NEW T, NEW N, NEW P,
           RuntimeTypeOK(S, T, N, P), RuntimeInv,
           NEW p \in Procs, work[p] # Idle, StatusUpdate(p)
    PROVE  RuntimeTypeOK(S, T, N, P)' /\ RuntimeInv'
<1>1. /\ work[p].obj \in Objects
      /\ work' = [work EXCEPT ![p] = Idle]
      /\ queue' = [queue EXCEPT ![p] = @ \cup {work[p].obj}]
      /\ budget' \in Nat
      /\ seen' = seen
  BY StatusUpdateStores
<1>2. /\ queue' \in [Procs -> SUBSET Objects]
      /\ \A q \in Procs \ {p} : queue'[q] = queue[q] /\ work'[q] = work[q]
      /\ work'[p] = Idle
  BY <1>1 DEF RuntimeTypeOK
<1>3. CASE log' = log
  BY <1>1, <1>2, <1>3, IdleKeepsRuntime
<1>4. CASE log' # log
  <2> DEFINE o == work[p].obj
             stored == [Latest(o) EXCEPT !.status = work[p].copy.status]
  <2>1. stored \in Versions(S, T, N) /\ Commit(o, stored)
    BY <1>4, StatusUpdateStores DEF Stored
  <2> HIDE DEF stored
  <2>2. log' \in [Objects -> Seq(Versions(S, T, N))]
    BY <1>1, <2>1, CommitFacts DEF RuntimeTypeOK
  <2>3. RuntimeTypeOK(S, T, N, P)'
    BY <1>1, <1>2, <2>2 DEF RuntimeTypeOK
  <2>4. CachesAreBehind'
    BY <1>1, <2>1, CommitKeepsCaches
  <2>5. WorkIsRooted'
    <3> SUFFICES ASSUME NEW q \in Procs, work'[q] # Idle
                 PROVE  Rooted(q)'
      BY DEF WorkIsRooted
    <3>1. q # p /\ work'[q] = work[q] /\ queue'[q] = queue[q] /\ work[q] # Idle
      BY <1>2
    <3> HIDE DEF o
    <3>2. o \in Objects
      BY <1>1 DEF o
    <3> QED
      BY <1>1, <2>1, <3>1, <3>2, CommitKeepsRooted
  <2> QED
    BY <2>3, <2>4, <2>5 DEF RuntimeInv
<1> QED
  BY <1>3, <1>4

\* What a process remembers of an object stays remembered until the process
\* takes the object up.
LEMMA RememberedStays ==
    ASSUME NEW p \in Procs, NEW o \in Objects, Remembered(p, o),
           log'[o] = log[o], seen'[p][o] = seen[p][o],
           o \in queue[p] => o \in queue'[p],
           work[p] # Idle /\ work[p].obj = o
           => \/ work'[p] # Idle /\ work'[p].obj = o
              \/ o \in queue'[p]
    PROVE  Remembered(p, o)'
BY Zenon DEF Remembered

\* A new version is news to every cache.
LEMMA CommitIsNews ==
    ASSUME NEW S, NEW T, NEW N, NEW P,
           RuntimeTypeOK(S, T, N, P), RuntimeInv,
           NEW o \in Objects, NEW version \in Versions(S, T, N),
           Commit(o, version), UNCHANGED seen, NEW p \in Procs
    PROVE  Remembered(p, o)'
<1>1. /\ Len(log'[o]) = Len(log[o]) + 1
      /\ Len(log[o]) \in Nat
  BY CommitFacts DEF RuntimeTypeOK
<1>2. seen[p][o] <= Len(log[o]) /\ seen[p][o] \in Nat
  BY DEF RuntimeInv, CachesAreBehind, RuntimeTypeOK
<1>3. seen'[p][o] < Len(log'[o])
  BY <1>1, <1>2
<1> QED
  BY <1>3 DEF Remembered

\* A cache that lists an object as existing in its latest version queues it.
LEMMA CachesRemember ==
    ASSUME NEW S, NEW T, NEW N, NEW P,
           RuntimeTypeOK(S, T, N, P), RuntimeInv,
           NEW p \in Procs,
           (\E o \in Objects : Observe(p, o) \/ Resync(p, o)) \/ Restart(p),
           NEW q \in Procs, NEW other \in Objects,
           Alive(other), Remembered(q, other)
    PROVE  Remembered(q, other)'
<1> USE DEF RuntimeTypeOK
<1>1. ASSUME NEW o \in Objects, Observe(p, o)
      PROVE  Remembered(q, other)'
  <2>1. /\ log' = log
        /\ work' = work
        /\ queue' = [queue EXCEPT ![p] = @ \cup {o}]
        /\ seen' = [seen EXCEPT ![p][o] = @ + 1]
    BY <1>1 DEF Observe
  <2>2. CASE q = p /\ other = o
    BY <2>1, <2>2 DEF Remembered
  <2>3. CASE ~(q = p /\ other = o)
    <3>1. seen'[q][other] = seen[q][other] /\ queue[q] \subseteq queue'[q]
      BY <2>1, <2>3
    <3> QED
      BY <2>1, <3>1, RememberedStays
  <2> QED
    BY <2>2, <2>3
<1>2. ASSUME NEW o \in Objects, Resync(p, o)
      PROVE  Remembered(q, other)'
  <2>1. /\ log' = log
        /\ work' = work
        /\ seen' = seen
        /\ queue[q] \subseteq queue'[q]
    BY <1>2 DEF Resync
  <2> QED
    BY <2>1, RememberedStays
<1>3. CASE Restart(p)
  <2>1. /\ log' = log
        /\ work' = [work EXCEPT ![p] = Idle]
        /\ \A r \in Procs \ {p} : seen'[r] = seen[r] /\ queue'[r] = queue[r]
    BY <1>3 DEF Restart
  <2>2. CASE q # p
    <3>1. work'[q] = work[q] /\ seen'[q] = seen[q] /\ queue'[q] = queue[q]
      BY <2>1, <2>2
    <3> QED
      BY <2>1, <3>1, RememberedStays
  <2>3. CASE q = p
    <3>1. PICK relisted \in [Objects -> UNION {0 .. Len(log[x]) : x \in Objects}] :
            /\ \A x \in Objects : relisted[x] <= Len(log[x])
            /\ seen' = [seen EXCEPT ![p] = relisted]
            /\ queue' = [queue EXCEPT ![p] = {x \in Objects : Exists(x, relisted[x])}]
      BY <1>3 DEF Restart
    <3>2. /\ seen'[p][other] = relisted[other]
          /\ Exists(other, relisted[other]) => other \in queue'[p]
      BY <3>1
    <3>3. /\ relisted[other] <= Len(log[other])
          /\ relisted[other] \in Nat
          /\ Len(log[other]) \in Nat
      BY <3>1, LenProperties
    <3>4. CASE seen'[p][other] = Len(log[other])
      BY <2>3, <3>2, <3>4 DEF Alive, Remembered
    <3>5. CASE seen'[p][other] # Len(log[other])
      <4>1. seen'[p][other] < Len(log'[other])
        BY <2>1, <3>2, <3>3, <3>5
      <4> QED
        BY <2>3, <4>1 DEF Remembered
    <3> QED
      BY <3>4, <3>5
  <2> QED
    BY <2>2, <2>3
<1> QED
  BY <1>1, <1>2, <1>3

\* Users write no status: what they store is a new incarnation, a new
\* generation or a tombstone.
LEMMA UsersWriteNoStatus ==
    ASSUME NEW S, NEW T, NEW N, NEW P,
           RuntimeTypeOK(S, T, N, P),
           NEW o \in Objects, NEW spec \in S, NEW status \in T,
           UserAct(o, spec, status), NEW other \in Objects
    PROVE  ~IsStatusWrite(other)
<1> SUFFICES ASSUME IsStatusWrite(other)
             PROVE  FALSE
  OBVIOUS
<1>1. /\ Alive(other)
      /\ log'[other] # log[other]
      /\ Latest(other)'.alive
      /\ Latest(other)'.gen = Latest(other).gen
  BY DEF IsStatusWrite
<1>2. \E version \in Versions(S, T, N) : Commit(o, version)
  BY UserActsCommit
<1>3. other = o
  BY <1>1, <1>2 DEF Commit, RuntimeTypeOK
<1>4. Latest(o) \in Versions(S, T, N)
  <2>1. log[o] \in Seq(Versions(S, T, N)) /\ Len(log[o]) \in Nat /\ Len(log[o]) > 0
    BY <1>1, <1>3, LenProperties DEF RuntimeTypeOK, Alive, Exists
  <2> QED
    BY <2>1, ElementOfSeq DEF Latest
<1>5. \A version \in Versions(S, T, N) : Commit(o, version) => Latest(o)' = version
  BY CommitFacts DEF RuntimeTypeOK
<1>6. CASE CreateObject(o, spec, status)
  BY <1>1, <1>3, <1>6 DEF CreateObject
<1>7. CASE EditSpec(o, spec)
  <2> DEFINE edited == [Latest(o) EXCEPT !.spec = spec, !.gen = @ + 1]
  <2>1. edited \in Versions(S, T, N) /\ edited.gen = Latest(o).gen + 1
    <3>1. edited \in Versions(S, T, N)
      BY <1>4, VersionUpdates
    <3>2. edited.gen = Latest(o).gen + 1
      BY <1>4 DEF Versions
    <3> QED
      BY <3>1, <3>2
  <2>2. Commit(o, edited)
    BY <1>7 DEF EditSpec
  <2> HIDE DEF edited
  <2>3. Latest(o)'.gen = Latest(o).gen + 1 /\ Latest(o).gen \in Nat
    BY <1>4, <1>5, <2>1, <2>2 DEF Versions
  <2> QED
    BY <1>1, <1>3, <2>3
<1>8. CASE DeleteObject(o)
  <2> DEFINE tombstone == [Latest(o) EXCEPT !.alive = FALSE]
  <2>1. tombstone \in Versions(S, T, N) /\ ~tombstone.alive
    BY <1>4, VersionUpdates DEF Versions
  <2>2. Commit(o, tombstone)
    BY <1>8 DEF DeleteObject
  <2> HIDE DEF tombstone
  <2> QED
    BY <1>1, <1>3, <1>5, <2>1, <2>2
<1>9. CASE DeleteHeldObject(o)
  <2> DEFINE held == [Latest(o) EXCEPT !.deleting = TRUE, !.gen = @ + 1]
  <2>1. held \in Versions(S, T, N) /\ held.gen = Latest(o).gen + 1
    <3>1. held \in Versions(S, T, N)
      BY <1>4, VersionUpdates
    <3>2. held.gen = Latest(o).gen + 1
      BY <1>4 DEF Versions
    <3> QED
      BY <3>1, <3>2
  <2>2. Commit(o, held)
    BY <1>9 DEF DeleteHeldObject
  <2> HIDE DEF held
  <2>3. Latest(o)'.gen = Latest(o).gen + 1 /\ Latest(o).gen \in Nat
    BY <1>4, <1>5, <2>1, <2>2 DEF Versions
  <2> QED
    BY <1>1, <1>3, <2>3
<1> QED
  BY <1>6, <1>7, <1>8, <1>9 DEF UserAct

\* A status update that stores something stores the status of the copy, and
\* beside it the spec, the generation and the incarnation the copy has.
LEMMA StatusUpdateWrites ==
    ASSUME NEW S, NEW T, NEW N, NEW P,
           RuntimeTypeOK(S, T, N, P), RuntimeInv,
           NEW p \in Procs, work[p] # Idle, StatusUpdate(p),
           NEW o \in Objects, log'[o] # log[o]
    PROVE  /\ work[p].obj = o
           /\ work'[p] = Idle
           /\ Latest(o) = log[o][work[p].rv]
           /\ Alive(o)
           /\ Latest(o) \in Versions(S, T, N)
           /\ Latest(o)' = [Latest(o) EXCEPT !.status = work[p].copy.status]
           /\ Latest(o)'.status = work[p].copy.status
           /\ Latest(o)'.spec = work[p].copy.spec
           /\ Latest(o)'.uid = work[p].copy.uid
           /\ Latest(o)'.gen = work[p].copy.gen
           /\ Latest(o)'.deleting = work[p].copy.deleting
           /\ Latest(o)'.alive
<1> DEFINE w == work[p].obj
           stored == [Latest(w) EXCEPT !.status = work[p].copy.status]
<1>1. /\ UpToDate(p)
      /\ Latest(w) = log[w][work[p].rv]
      /\ Latest(w) \in Versions(S, T, N)
      /\ stored \in Versions(S, T, N)
      /\ Commit(w, stored)
      /\ w \in Objects
      /\ work'[p] = Idle
  BY StatusUpdateStores DEF Stored, RuntimeTypeOK
<1>2. /\ stored.status = work[p].copy.status
      /\ stored.spec = Latest(w).spec
      /\ stored.uid = Latest(w).uid
      /\ stored.gen = Latest(w).gen
      /\ stored.deleting = Latest(w).deleting
      /\ stored.alive = Latest(w).alive
  BY <1>1 DEF Versions
<1>3. w = o
  BY <1>1 DEF Commit, RuntimeTypeOK
<1>4. Latest(o)' = stored
  <2> HIDE DEF stored
  <2>1. Commit(o, stored) /\ log \in [Objects -> Seq(Versions(S, T, N))]
    BY <1>1, <1>3 DEF RuntimeTypeOK
  <2> QED
    BY <1>1, <2>1, CommitFacts
<1>5. Rooted(p)
  BY DEF RuntimeInv, WorkIsRooted
<1>6. Alive(w)
  BY <1>1 DEF UpToDate
<1> HIDE DEF stored
<1>7. /\ work[p].copy.uid = Latest(w).uid
      /\ work[p].copy.gen = Latest(w).gen
      /\ work[p].copy.deleting = Latest(w).deleting
      /\ work[p].copy.spec = Latest(w).spec
      /\ Latest(w).alive
  BY <1>1, <1>5, Zenon DEF Rooted
<1> QED
  <2>1. Latest(o)' = [Latest(o) EXCEPT !.status = work[p].copy.status]
    BY <1>3, <1>4 DEF stored
  <2> QED
    BY <1>1, <1>2, <1>3, <1>4, <1>6, <1>7, <2>1

-----------------------------------------------------------------------------
(* Statuses: where they come from.                                         *)

\* Every status that is stored, or held by a worker, is one of C.
StatusesAreIn(C) ==
    /\ \A o \in Objects : \A i \in 1 .. Len(log[o]) : log[o][i].status \in C
    /\ \A p \in Procs : work[p] # Idle => work[p].copy.status \in C

\* A step stores one version.
LEMMA CommittedOnce ==
    ASSUME NEW V, log \in [Objects -> Seq(V)], NEW o \in Objects,
           NEW version, Commit(o, version), NEW other, Commit(o, other)
    PROVE  version = other
<1>1. log[o] \in Seq(V)
  OBVIOUS
<1>2. Append(log[o], version) = Append(log[o], other)
  BY DEF Commit
<1> QED
  BY <1>1, <1>2

\* What users store has the status, and is the incarnation, that was there
\* before; or it is new.
LEMMA UserActsKeepStatus ==
    ASSUME NEW S, NEW T, NEW N, NEW P,
           RuntimeTypeOK(S, T, N, P),
           NEW o \in Objects, NEW spec \in S, NEW status \in T,
           UserAct(o, spec, status), NEW version, Commit(o, version)
    PROVE  \/ version.status = status
           \/ /\ Alive(o)
              /\ Len(log[o]) \in 1 .. Len(log[o])
              /\ version.status = Latest(o).status
              /\ version.uid = Latest(o).uid
<1>1. /\ log \in [Objects -> Seq(Versions(S, T, N))]
      /\ log[o] \in Seq(Versions(S, T, N))
      /\ Len(log[o]) \in Nat
  BY LenProperties DEF RuntimeTypeOK
<1>2. CASE CreateObject(o, spec, status)
  <2> DEFINE new == [uid |-> NewUid(o), gen |-> 1, alive |-> TRUE,
                     deleting |-> FALSE, external |-> NoName,
                     spec |-> spec, status |-> status]
  <2>1. new.status = status
    OBVIOUS
  <2>2. Commit(o, new)
    BY <1>2 DEF CreateObject
  <2> HIDE DEF new
  <2>3. version = new
    BY <1>1, <2>2, CommittedOnce
  <2> QED
    BY <2>1, <2>3
<1>3. CASE ~CreateObject(o, spec, status)
  <2>1. Alive(o)
    BY <1>3 DEF UserAct, EditSpec, DeleteObject, DeleteHeldObject
  <2>2. Latest(o) \in Versions(S, T, N) /\ Len(log[o]) \in 1 .. Len(log[o])
    BY <1>1, <2>1, ElementOfSeq DEF Alive, Exists, Latest
  <2>3. \/ version = [Latest(o) EXCEPT !.spec = spec, !.gen = @ + 1]
        \/ version = [Latest(o) EXCEPT !.alive = FALSE]
        \/ version = [Latest(o) EXCEPT !.deleting = TRUE, !.gen = @ + 1]
    BY <1>1, <1>3, CommittedOnce
    DEF UserAct, EditSpec, DeleteObject, DeleteHeldObject
  <2>4. version.uid = Latest(o).uid /\ version.status = Latest(o).status
    BY <2>2, <2>3 DEF Versions
  <2> QED
    BY <2>1, <2>2, <2>4
<1> QED
  BY <1>2, <1>3

\* A version with a status of C may be added.
LEMMA CommitKeepsStatuses ==
    ASSUME NEW V, log \in [Objects -> Seq(V)], NEW C, StatusesAreIn(C),
           NEW o \in Objects, NEW version \in V, Commit(o, version),
           version.status \in C,
           \A p \in Procs : work'[p] # Idle => work'[p] = work[p]
    PROVE  StatusesAreIn(C)'
<1>1. /\ \A other \in Objects \ {o} : log'[other] = log[other]
      /\ Len(log[o]) \in Nat
      /\ Len(log'[o]) = Len(log[o]) + 1
      /\ Latest(o)' = version
      /\ \A i \in 1 .. Len(log[o]) : log'[o][i] = log[o][i]
  BY CommitFacts
<1>2. ASSUME NEW other \in Objects, NEW i \in 1 .. Len(log'[other])
      PROVE  log'[other][i].status \in C
  <2>1. CASE other = o /\ i = Len(log[o]) + 1
    BY <1>1, <2>1 DEF Latest
  <2>2. CASE ~(other = o /\ i = Len(log[o]) + 1)
    <3>1. i \in 1 .. Len(log[other]) /\ log'[other][i] = log[other][i]
      BY <1>1, <2>2
    <3> QED
      BY <3>1 DEF StatusesAreIn
  <2> QED
    BY <2>1, <2>2
<1>3. \A p \in Procs : work'[p] # Idle => work'[p].copy.status \in C
  BY DEF StatusesAreIn
<1> QED
  BY <1>2, <1>3 DEF StatusesAreIn

\* Users bring no status but that of new objects.
LEMMA UsersKeepStatuses ==
    ASSUME NEW S, NEW T, NEW N, NEW P,
           RuntimeTypeOK(S, T, N, P), NEW C, StatusesAreIn(C),
           NEW o \in Objects, NEW spec \in S, NEW status \in T, status \in C,
           UserAct(o, spec, status)
    PROVE  StatusesAreIn(C)'
<1>1. PICK version \in Versions(S, T, N) : Commit(o, version)
  BY UserActsCommit
<1>2. version.status \in C
  BY <1>1, UserActsKeepStatus DEF StatusesAreIn, Latest
<1>3. log \in [Objects -> Seq(Versions(S, T, N))] /\ work' = work
  BY UserActsCommit DEF RuntimeTypeOK
<1> QED
  BY <1>1, <1>2, <1>3, CommitKeepsStatuses

\* Watches, resyncs and restarts store nothing and start no reconcile.
LEMMA CachesKeepStatuses ==
    ASSUME NEW S, NEW T, NEW N, NEW P,
           RuntimeTypeOK(S, T, N, P), NEW C, StatusesAreIn(C), NEW p \in Procs,
           (\E o \in Objects : Observe(p, o) \/ Resync(p, o)) \/ Restart(p)
    PROVE  /\ StatusesAreIn(C)'
           /\ \A q \in Procs : work'[q] # Idle => work'[q] = work[q]
<1>1. log' = log
  BY DEF Observe, Resync, Restart
<1>2. \A q \in Procs : work'[q] # Idle => work'[q] = work[q]
  BY DEF Observe, Resync, Restart, RuntimeTypeOK
<1> QED
  BY <1>1, <1>2 DEF StatusesAreIn

\* A status update stores the status of the copy, and no other.
LEMMA StatusUpdateKeepsStatuses ==
    ASSUME NEW S, NEW T, NEW N, NEW P,
           RuntimeTypeOK(S, T, N, P), RuntimeInv, NEW C, StatusesAreIn(C),
           NEW p \in Procs, work[p] # Idle, StatusUpdate(p)
    PROVE  /\ StatusesAreIn(C)'
           /\ \A q \in Procs : work'[q] # Idle => work'[q] = work[q]
<1> DEFINE stored == [Latest(work[p].obj) EXCEPT !.status = work[p].copy.status]
<1>1. /\ \/ log' = log
         \/ /\ Latest(work[p].obj) \in Versions(S, T, N)
            /\ stored \in Versions(S, T, N)
            /\ Commit(work[p].obj, stored)
      /\ work[p].obj \in Objects
      /\ work' = [work EXCEPT ![p] = Idle]
  BY StatusUpdateStores DEF Stored
<1>2. \A q \in Procs : work'[q] # Idle => work'[q] = work[q]
  BY <1>1 DEF RuntimeTypeOK
<1>3. CASE log' = log
  BY <1>2, <1>3 DEF StatusesAreIn
<1>4. CASE log' # log
  <2>1. stored.status \in C
    BY <1>1, <1>4 DEF Versions, StatusesAreIn
  <2> HIDE DEF stored
  <2>2. log \in [Objects -> Seq(Versions(S, T, N))]
    BY DEF RuntimeTypeOK
  <2> QED
    BY <1>1, <1>2, <1>4, <2>1, <2>2, CommitKeepsStatuses
<1> QED
  BY <1>2, <1>3, <1>4

=============================================================================
