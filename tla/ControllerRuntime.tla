------------------------- MODULE ControllerRuntime -------------------------
(***************************************************************************)
(* What every controller of the provider runs on, for the objects of one   *)
(* kind: the API server that stores the objects, the informer cache the    *)
(* reconcilers read, and the work queue that decides what is reconciled    *)
(* next.  None of it is code of this repository: it is modelled from the   *)
(* way internal/controller/*/*.go and cmd/provider/main.go use it.         *)
(*                                                                         *)
(* The API server keeps, for every name, the sequence of the versions the  *)
(* object has had; the position in that sequence stands for the resource   *)
(* version.  A deletion appends a tombstone (alive = FALSE), a later       *)
(* creation under the same name starts a new incarnation (uid).            *)
(***************************************************************************)
EXTENDS Naturals, Sequences

CONSTANTS
    Objects,         \* names of the custom resources of this kind
    Procs,           \* provider processes (leader election is off by default)
    MaxDisturbances, \* bound on what users, faults, crashes and clocks may do
    NoName           \* the empty string, in an external name

ASSUME BoundIsNatural == MaxDisturbances \in Nat

VARIABLES
    log,     \* [Objects -> Seq(version)]: every version the server has stored
    seen,    \* [Procs -> [Objects -> Nat]]: version the informer cache holds
    queue,   \* [Procs -> SUBSET Objects]: what the work queue holds, or will
             \* be given by a timer (RequeueAfter, back-off) that is running
    work,    \* [Procs -> Idle or the reconcile in progress]
    budget   \* disturbances the environment may still cause

runtimeVars == <<log, seen, queue, work, budget>>

Idle == [pc |-> "idle"]

Exists(o, i) == i > 0 /\ log[o][i].alive
Latest(o) == log[o][Len(log[o])]
Alive(o) == Exists(o, Len(log[o]))

Disturb == budget > 0 /\ budget' = budget - 1

Commit(o, version) == log' = [log EXCEPT ![o] = Append(@, version)]

RuntimeInit ==
    /\ log = [o \in Objects |-> <<>>]
    /\ seen = [p \in Procs |-> [o \in Objects |-> 0]]
    /\ queue = [p \in Procs |-> {}]
    /\ work = [p \in Procs |-> Idle]
    /\ budget = MaxDisturbances

-----------------------------------------------------------------------------
(* What users do to the objects through the API server.                    *)

NewUid(o) == IF log[o] = <<>> THEN 1 ELSE Latest(o).uid + 1

\* kubectl apply of a name that does not exist (again).
CreateObject(o, spec, status) ==
    /\ ~Alive(o)
    /\ Disturb
    /\ Commit(o, [uid |-> NewUid(o), gen |-> 1, alive |-> TRUE,
                  deleting |-> FALSE, external |-> NoName,
                  spec |-> spec, status |-> status])
    /\ UNCHANGED <<seen, queue, work>>

\* kubectl apply of a changed spec: the generation goes up, the status stays.
\* The edit may be to a field the model leaves out (spec unchanged).
EditSpec(o, spec) ==
    /\ Alive(o)
    /\ Disturb
    /\ Commit(o, [Latest(o) EXCEPT !.spec = spec, !.gen = @ + 1])
    /\ UNCHANGED <<seen, queue, work>>

\* kubectl delete.  The provider adds no finalizer, so the object goes at
\* once, unless someone else's finalizer (foreground deletion) holds it.
DeleteObject(o) ==
    /\ Alive(o)
    /\ Disturb
    /\ Commit(o, [Latest(o) EXCEPT !.alive = FALSE])
    /\ UNCHANGED <<seen, queue, work>>

DeleteHeldObject(o) ==
    /\ Alive(o)
    /\ ~Latest(o).deleting
    /\ Disturb
    /\ Commit(o, [Latest(o) EXCEPT !.deleting = TRUE, !.gen = @ + 1])
    /\ UNCHANGED <<seen, queue, work>>

-----------------------------------------------------------------------------
(* Informer cache and work queue.                                          *)

\* The watch delivers the next version; For(&Kind{}) has no predicates, so
\* every event, status updates included, enqueues the object.
Observe(p, o) ==
    /\ seen[p][o] < Len(log[o])
    /\ seen' = [seen EXCEPT ![p][o] = @ + 1]
    /\ queue' = [queue EXCEPT ![p] = @ \cup {o}]
    /\ UNCHANGED <<log, work, budget>>

\* cache.Options.SyncPeriod: every cached object is enqueued again.
Resync(p, o) ==
    /\ Exists(o, seen[p][o])
    /\ queue' = [queue EXCEPT ![p] = @ \cup {o}]
    /\ UNCHANGED <<log, seen, work, budget>>

\* The process dies and comes back: everything in memory is lost, the cache
\* is listed anew and the objects in the list are enqueued.  The first list
\* is served from a watch cache that may be behind (resourceVersion "0"): it
\* may be older than what the process had seen before.
Restart(p) ==
    /\ Disturb
    /\ \E relisted \in [Objects -> UNION {0 .. Len(log[o]) : o \in Objects}] :
          /\ \A o \in Objects : relisted[o] <= Len(log[o])
          /\ seen' = [seen EXCEPT ![p] = relisted]
          /\ queue' = [queue EXCEPT ![p] =
                         {o \in Objects : Exists(o, relisted[o])}]
    /\ work' = [work EXCEPT ![p] = Idle]
    /\ UNCHANGED log

-----------------------------------------------------------------------------
(* Steps of a worker (one per controller and process).                     *)

\* A reconcile in progress: pc, the object's name, the resource version it
\* was read at, and the copy in memory that the reconciler works on.
Reconciling(p, o, pc, copy) ==
    work' = [work EXCEPT ![p] =
                [pc |-> pc, obj |-> o, rv |-> seen[p][o], copy |-> copy]]

Goto(p, pc, copy) ==
    work' = [work EXCEPT ![p] = [@ EXCEPT !.pc = pc, !.copy = copy]]

\* The worker may take o from the queue.
MayTake(p, o) == work[p] = Idle /\ o \in queue[p]

\* o leaves the queue: a reconcile of it begins, or one that ends at once
\* returns Result{}, nil.
Drop(p, o) == queue' = [queue EXCEPT ![p] = @ \ {o}]

\* Reconcile returns an error or RequeueAfter: a timer puts o back.  How long
\* it runs (10s, 1m, 5m, back-off) does not matter here, only that it ends.
Requeue(p, o) == queue' = [queue EXCEPT ![p] = @ \cup {o}]

\* Optimistic concurrency: the server takes an update that carries the
\* current resource version.
UpToDate(p) ==
    /\ Alive(work[p].obj)
    /\ work[p].rv = Len(log[work[p].obj])

Stored(o, status) == Commit(o, [Latest(o) EXCEPT !.status = status])

\* For mutants: a patch, which carries no resource version.
StatusPatch(p) ==
    /\ IF Alive(work[p].obj) /\ work[p].copy.status # Latest(work[p].obj).status
       THEN Stored(work[p].obj, work[p].copy.status)
       ELSE UNCHANGED log
    /\ work' = [work EXCEPT ![p] = Idle]
    /\ Requeue(p, work[p].obj)
    /\ UNCHANGED <<seen, budget>>

\* r.Client.Status().Update(ctx, obj) and the return that follows it: an
\* error or RequeueAfter, in every case.  The server takes the status and
\* nothing else of the object.  Conditions carry the time in seconds: the same
\* status stored in a later second is one more version (bounded by budget),
\* in the same second it is none.  A request may be lost; one whose answer is
\* lost has the effect of one that succeeds, as both are retried.
StatusUpdate(p) ==
    /\ \/ /\ UpToDate(p)
          /\ work[p].copy.status # Latest(work[p].obj).status
          /\ Stored(work[p].obj, work[p].copy.status)
          /\ UNCHANGED budget
       \/ /\ UpToDate(p)
          /\ work[p].copy.status = Latest(work[p].obj).status
          /\ \/ UNCHANGED <<log, budget>>
             \/ Disturb /\ Stored(work[p].obj, work[p].copy.status)
       \/ ~UpToDate(p) /\ UNCHANGED <<log, budget>>
       \/ Disturb /\ UNCHANGED log
    /\ work' = [work EXCEPT ![p] = Idle]
    /\ Requeue(p, work[p].obj)
    /\ UNCHANGED seen

-----------------------------------------------------------------------------
(* Notions the properties of the controllers share.                        *)

\* The object is not going to be overlooked by process p: a change is still
\* on its way to the cache, it is queued or a timer runs for it, or it is
\* being reconciled.
Remembered(p, o) ==
    \/ seen[p][o] < Len(log[o])
    \/ o \in queue[p]
    \/ work[p] # Idle /\ work[p].obj = o

\* A step that stores a status: same incarnation, same generation.
IsStatusWrite(o) ==
    /\ Alive(o)
    /\ log'[o] # log[o]
    /\ Latest(o)'.alive
    /\ Latest(o)'.uid = Latest(o).uid
    /\ Latest(o)'.gen = Latest(o).gen

-----------------------------------------------------------------------------
(* What holds of the runtime whatever the controller is.                   *)

Versions(Specs, Statuses, Names) ==
    [uid : Nat, gen : Nat, alive : BOOLEAN, deleting : BOOLEAN,
     external : Names \cup {NoName}, spec : Specs, status : Statuses]

Reconciles(Specs, Statuses, Names, Phases) ==
    [pc : Phases, obj : Objects, rv : Nat, copy : Versions(Specs, Statuses, Names)]

RuntimeTypeOK(Specs, Statuses, Names, Phases) ==
    /\ log \in [Objects -> Seq(Versions(Specs, Statuses, Names))]
    /\ seen \in [Procs -> [Objects -> Nat]]
    /\ queue \in [Procs -> SUBSET Objects]
    /\ work \in [Procs -> {Idle} \cup Reconciles(Specs, Statuses, Names, Phases)]
    /\ budget \in Nat

\* No cache is ahead of the server.
CachesAreBehind ==
    \A p \in Procs, o \in Objects : seen[p][o] <= Len(log[o])

\* The copy a worker holds differs from a version that was stored only where
\* the reconciler may change it, and if the cache has moved on since, the
\* object is queued again.
Rooted(p) ==
    LET w == work[p]
        read == log[w.obj][w.rv]
    IN  /\ w.rv \in 1 .. Len(log[w.obj])
        /\ w.rv = seen[p][w.obj] \/ w.obj \in queue[p]
        /\ read.alive
        /\ w.copy.uid = read.uid
        /\ w.copy.gen = read.gen
        /\ w.copy.deleting = read.deleting
        /\ w.copy.spec = read.spec

WorkIsRooted == \A p \in Procs : work[p] # Idle => Rooted(p)
=============================================================================
