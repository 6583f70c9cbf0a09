--------------------------- MODULE UserController ---------------------------
(***************************************************************************)
(* internal/controller/user: the reconciler that issues an application key *)
(* for every User resource and stores it in the secret the User names.     *)
(* The key is simulated: its ID and its value are both functions of the    *)
(* generation of the User, which stands for them here.                     *)
(***************************************************************************)
EXTENDS ControllerRuntime, ProviderCredentials

CONSTANTS
    SecretRefs,     \* namespaced names a spec.forProvider.writeSecretToRef has
    ForeignSecrets  \* those under which a secret exists that nobody issued

ASSUME ForeignSecretsAreNamed == ForeignSecrets \subseteq SecretRefs

VARIABLES
    secrets, \* [SecretRefs -> secret or NoSecret]
    written  \* history: <<user, uid, key>> for every secret ever created

vars == <<runtimeVars, config, secrets, written>>

Specs == [secretRef : SecretRefs]

\* Conditions, without time and message.
Available   == [type |-> "Ready",  status |-> "True",  reason |-> "Available"]
ClientError == [type |-> "Ready",  status |-> "False", reason |-> "ClientError"]
CreateError == [type |-> "Ready",  status |-> "False", reason |-> "CreateError"]
Success     == [type |-> "Synced", status |-> "True",  reason |-> "ReconcileSuccess"]
Conditions  == {Available, ClientError, CreateError, Success}

\* status.atProvider.applicationKeyId: 0 while it is empty.
Statuses == [conditions : SUBSET Conditions, keyID : Nat]
NoStatus == [conditions |-> {}, keyID |-> 0]

Phases == {"createSecret", "deleteSecret", "updateStatus"}

\* A secret holds a key.  Whom it was issued to is history: the code sets no
\* owner reference.
NoSecret == [keyID |-> 0, user |-> NoName, uid |-> 0]
Foreign  == [keyID |-> 0, user |-> NoName, uid |-> 1]

\* Mutant: every condition goes under the type Synced.
MistypedCondition(user, c) ==
    [user EXCEPT !.status.conditions = {[c EXCEPT !.type = "Synced"]}]

\* Mutant: the new condition is added to the old ones.
ConditionsPileUp(user, c) == [user EXCEPT !.status.conditions = @ \cup {c}]

\* UserStatus.SetConditions replaces the whole slice.
SetCondition(user, c) == [user EXCEPT !.status.conditions = {c}]

Init ==
    /\ RuntimeInit
    /\ config \in Configs
    /\ secrets = [ref \in SecretRefs |->
                    IF ref \in ForeignSecrets THEN Foreign ELSE NoSecret]
    /\ written = {}

-----------------------------------------------------------------------------
(* UserReconciler.Reconcile                                                *)

GetFindsNothing(p, o) ==
    /\ ~Exists(o, seen[p][o])
    /\ Drop(p, o)
    /\ UNCHANGED <<work, budget>>

\* Mutant: every error of the Get is taken for NotFound.
GetFailureIgnored(p, o) ==
    /\ Disturb
    /\ Drop(p, o)
    /\ UNCHANGED work

GetFails(p, o) ==
    /\ Disturb
    /\ Requeue(p, o)
    /\ UNCHANGED work

\* createApplicationKey sets the status of the copy before writeSecret is
\* called: an error of writeSecret leaves it set.
IssueKey(user) == [user EXCEPT !.status.keyID = user.gen]

\* The end of Reconcile: Ready is set, then Synced.
Succeed(user) == SetCondition(SetCondition(user, Available), Success)

\* Mutant: its error is logged only; the key is simulated and needs no client.
ClientErrorIgnored == TRUE

\* The reconciler's getBackblazeClient returns a client, unless it fails for
\* reasons of its own.
GetBackblazeClient == ClientAvailable(config)

\* Mutant: the client is needed to delete, too.
DeletionAfterClient(user) == user.deleting /\ GetBackblazeClient

\* user.GetDeletionTimestamp() is set.
BeingDeleted(user) == user.deleting

\* The Get succeeds.  Deletion is looked at before the client and the key.
GetFindsUser(p, o) ==
    LET user == log[o][seen[p][o]] IN
    /\ Exists(o, seen[p][o])
    /\ Drop(p, o)
    /\ \/ /\ BeingDeleted(user)
          /\ Reconciling(p, o, "deleteSecret", user)
          /\ UNCHANGED budget
       \/ /\ ~BeingDeleted(user)
          /\ Reconciling(p, o, "updateStatus", SetCondition(user, ClientError))
          /\ (~GetBackblazeClient /\ UNCHANGED budget) \/ Disturb
       \/ /\ ~BeingDeleted(user)
          /\ GetBackblazeClient
          /\ user.status.keyID = 0
          /\ Reconciling(p, o, "createSecret", IssueKey(user))
          /\ UNCHANGED budget
       \/ /\ ~BeingDeleted(user)
          /\ GetBackblazeClient
          /\ user.status.keyID # 0
          /\ Reconciling(p, o, "updateStatus", Succeed(user))
          /\ UNCHANGED budget

StartReconcile(p, o) ==
    /\ MayTake(p, o)
    /\ GetFindsNothing(p, o) \/ GetFails(p, o) \/ GetFindsUser(p, o)
    /\ UNCHANGED <<log, seen, config, secrets, written>>

\* Mutant: an existing secret will do.
TakenIsFine(user) == Succeed(user)

CreateFailed(user) == SetCondition(user, CreateError)

\* writeSecret: a Create, refused when the name is taken by any secret.  The
\* request or its answer may be lost.
CreateSecret(p) ==
    LET user == work[p].copy
        ref == user.spec.secretRef
    IN
    /\ work[p].pc = "createSecret"
    /\ \/ /\ secrets[ref] = NoSecret
          /\ secrets' = [secrets EXCEPT ![ref] =
                [keyID |-> user.status.keyID, user |-> work[p].obj, uid |-> user.uid]]
          /\ written' = written \cup {<<work[p].obj, user.uid, user.status.keyID>>}
          /\ \/ Goto(p, "updateStatus", Succeed(user)) /\ UNCHANGED budget
             \/ Goto(p, "updateStatus", CreateFailed(user)) /\ Disturb
       \/ /\ Goto(p, "updateStatus", CreateFailed(user))
          /\ (secrets[ref] # NoSecret /\ UNCHANGED budget) \/ Disturb
          /\ UNCHANGED <<secrets, written>>
    /\ UNCHANGED <<log, seen, queue, config>>

\* handleDeletion: whatever secret has the name is deleted, an error is logged
\* and forgotten, and nothing is scheduled.
DeleteSecret(p) ==
    /\ work[p].pc = "deleteSecret"
    /\ \/ /\ secrets' = [secrets EXCEPT ![work[p].copy.spec.secretRef] = NoSecret]
          /\ UNCHANGED budget
       \/ Disturb /\ UNCHANGED secrets
    /\ work' = [work EXCEPT ![p] = Idle]
    /\ UNCHANGED <<log, seen, queue, config, written>>

\* Mutant: the status is patched, whatever has been stored meanwhile.
PatchStatus(p) ==
    /\ work[p].pc = "updateStatus"
    /\ StatusPatch(p)
    /\ UNCHANGED <<config, secrets, written>>

\* r.Client.Status().Update, then the return: RequeueAfter, or the error.
UpdateStatus(p) ==
    /\ work[p].pc = "updateStatus"
    /\ StatusUpdate(p)
    /\ UNCHANGED <<config, secrets, written>>

Reconcile(p) == CreateSecret(p) \/ DeleteSecret(p) \/ UpdateStatus(p)

-----------------------------------------------------------------------------
Users ==
    \/ /\ \E o \in Objects :
             \/ \E spec \in Specs :
                   CreateObject(o, spec, NoStatus) \/ EditSpec(o, spec)
             \/ DeleteObject(o)
             \/ DeleteHeldObject(o)
       /\ UNCHANGED <<config, secrets, written>>
    \/ /\ Disturb
       /\ ChangeConfig
       /\ UNCHANGED <<log, seen, queue, work, secrets, written>>

Kubernetes ==
    /\ \E p \in Procs :
          \/ \E o \in Objects : Observe(p, o) \/ Resync(p, o)
          \/ Restart(p)
    /\ UNCHANGED <<config, secrets, written>>

Next ==
    \/ Users
    \/ Kubernetes
    \/ \E p \in Procs :
          \/ \E o \in Objects : StartReconcile(p, o)
          \/ Reconcile(p)

\* The watch delivers, the cache is resynced every SyncPeriod, a worker
\* finishes what it began, timers expire, and the FIFO work queue gets to
\* every object in it however often others are added.
Fairness ==
    \A p \in Procs :
        /\ WF_vars(Reconcile(p))
        /\ \A o \in Objects :
              /\ WF_vars(Observe(p, o) /\ UNCHANGED <<config, secrets, written>>)
              /\ WF_vars(Resync(p, o) /\ UNCHANGED <<config, secrets, written>>)
              /\ SF_vars(StartReconcile(p, o))

Spec == Init /\ [][Next]_vars

FairSpec == Spec /\ Fairness

-----------------------------------------------------------------------------
TypeOK ==
    /\ RuntimeTypeOK(Specs, Statuses, {}, Phases)
    /\ config \in Configs
    /\ secrets \in [SecretRefs ->
                      [keyID : Nat, user : Objects \cup {NoName}, uid : Nat]]
    /\ written \in SUBSET (Objects \X Nat \X Nat)

Synced(version) == Success \in version.status.conditions

\* No User that exists and is not being deleted is ever overlooked by any
\* process: an event, a queue entry, a timer or a running reconcile is left
\* for it after every fault, conflict and restart.  (A User that is being
\* deleted is: handleDeletion schedules nothing.)
NeverForgotten ==
    \A p \in Procs, o \in Objects :
        Alive(o) /\ ~Latest(o).deleting => Remembered(p, o)

\* What KeyLedger sees: the status of each User, the generations that each
\* has lived through before a deletion began, and the keys put in secrets.
EntryOf(version) ==
    [uid |-> version.uid, gen |-> version.gen,
     state |-> IF ~version.alive THEN "absent"
               ELSE IF version.deleting THEN "deleting" ELSE "live",
     key |-> version.status.keyID]

LedgerEntry(o) ==
    IF log[o] = <<>>
    THEN [uid |-> 0, gen |-> 0, state |-> "absent", key |-> 0]
    ELSE EntryOf(Latest(o))

Generations(o) ==
    {<<log[o][i].uid, log[o][i].gen>> :
        i \in {j \in 1 .. Len(log[o]) : EntryOf(log[o][j]).state = "live"}}

Ledger == INSTANCE KeyLedger WITH
    Users <- Objects,
    ledger <- [o \in Objects |-> LedgerEntry(o)],
    lived <- [o \in Objects |-> Generations(o)],
    handed <- written

\* However stale the caches and however many processes: the status of an
\* incarnation comes to name one key, once, that of its current generation and
\* never during deletion; and a secret is given no key but that of a
\* generation in which that incarnation lived and no deletion had begun (be it
\* late, and be it one of several).
KeysAreReportedOnce == Ledger!Spec

\* A status update that issues a key and says that all went well was preceded
\* by the creation of a secret with that very key for that very User; in any
\* other case the update that issues the key reports CreateError.
KeyIsIssuedWithItsSecret ==
    [][\A o \in Objects :
          /\ IsStatusWrite(o)
          /\ Latest(o).status.keyID = 0
          /\ Latest(o)'.status.keyID # 0
          => \/ Latest(o)'.status.conditions = {CreateError}
             \/ <<o, Latest(o)'.uid, Latest(o)'.status.keyID>> \in written]_vars

\* The strengthening the proofs need: a reconcile deletes the secret of a User
\* just when it has read that the User is being deleted; any other leaves an
\* issued key alone and issues none but that of the generation it has read,
\* together with its secret or with CreateError.
KeyIsEarned(p) ==
    LET w == work[p]
        read == log[w.obj][w.rv]
    IN
    /\ w.pc = "deleteSecret" <=> w.copy.deleting
    /\ w.copy.status.keyID \in {read.status.keyID, read.gen}
    /\ read.status.keyID # 0 => w.copy.status.keyID = read.status.keyID
    /\ w.pc = "createSecret"
       => read.status.keyID = 0 /\ w.copy.status.keyID = read.gen
    /\ /\ w.pc = "updateStatus"
       /\ w.copy.status.keyID # read.status.keyID
       => \/ w.copy.status.conditions = {CreateError}
          \/ <<w.obj, w.copy.uid, w.copy.status.keyID>> \in written

Inv ==
    /\ CachesAreBehind
    /\ WorkIsRooted
    /\ \A p \in Procs : work[p] # Idle => KeyIsEarned(p)

\* What a User's status should come to say: that it is Synced, if the key it
\* names was put in a secret, some verdict on its key if it was not, or that
\* the client is at fault, just when it is.
Settled(o) ==
    LET v == Latest(o)
        conditions == v.status.conditions
    IN
    Alive(o) /\ ~v.deleting =>
        IF GetBackblazeClient
        THEN /\ conditions # {} /\ ClientError \notin conditions
             /\ <<o, v.uid, v.status.keyID>> \in written => Synced(v)
        ELSE ClientError \in conditions /\ Available \notin conditions

\* Once users, faults and crashes stop, every User's status is about the
\* credentials and the key as they are, however long they were not so.
EventuallySettled == <>[](\A o \in Objects : Settled(o))

\* A User that is held by a finalizer while it is being deleted loses its
\* secret, even though a failure to delete it is swallowed: the resync is
\* what retries it.
StillHasSecret(o) ==
    /\ Alive(o)
    /\ Latest(o).deleting
    /\ secrets[Latest(o).spec.secretRef].user = o

HeldUsersLoseTheirSecret ==
    \A o \in Objects : StillHasSecret(o) ~> ~StillHasSecret(o)

-----------------------------------------------------------------------------
(* What the comments and examples say and the code does not do.            *)

\* user.go:201, "creates or updates the secret containing the application key
\* credentials": the secret this very User was given holds the key its status
\* names.
SecretHoldsReportedKey ==
    \A o \in Objects :
        LET v == Latest(o)
            s == secrets[v.spec.secretRef]
        IN  Alive(o) /\ Synced(v) /\ s.user = o /\ s.uid = v.uid
            => s.keyID = v.status.keyID

\* user.go:120, "Application key exists and is ready", and user.go:168, "Create
\* the secret with the application key credentials": of a User that is Synced
\* the key is in a secret, or was.
SyncedUsersHadASecret ==
    \A o \in Objects :
        LET v == Latest(o) IN
        Alive(o) /\ Synced(v) => <<o, v.uid, v.status.keyID>> \in written

\* user.go:131, "Delete the associated secret": what deletes the secret that was
\* made for a User is the deletion of that User, not a late one on behalf of an
\* earlier User of the same name.
LiveUsersKeepTheirSecret ==
    [][\A ref \in SecretRefs :
          LET s == secrets[ref] IN
          s.user # NoName /\ secrets'[ref] = NoSecret
          => ~(/\ Alive(s.user)
               /\ Latest(s.user).uid = s.uid
               /\ ~Latest(s.user).deleting)]_vars
=============================================================================
