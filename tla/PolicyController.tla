-------------------------- MODULE PolicyController --------------------------
(***************************************************************************)
(* internal/controller/policy: the reconciler that turns a Policy resource *)
(* into a policy document.  The policy is simulated: its record is the     *)
(* status of the resource, and nothing outside Kubernetes is called.       *)
(***************************************************************************)
EXTENDS ControllerRuntime, ProviderCredentials

CONSTANTS
    PolicyNames,  \* names a spec.forProvider.policyName may give, but ""
    Buckets,      \* what spec.forProvider.allowBucket may point to
    RawPolicies,  \* what spec.forProvider.rawPolicy may point to
    ValidJSON,    \* those of RawPolicies that json.Unmarshal accepts
    Unset         \* the nil pointer, for all three

ASSUME RawPoliciesMayBeValid == ValidJSON \subseteq RawPolicies
ASSUME UnsetIsNoValue == Unset \notin PolicyNames \cup Buckets \cup RawPolicies \cup {NoName}
ASSUME ObjectsHaveNames == NoName \notin Objects \cup PolicyNames

vars == <<runtimeVars, config>>

Specs == [policyName : PolicyNames \cup {NoName, Unset},
          allowBucket : Buckets \cup {Unset},
          rawPolicy : RawPolicies \cup {Unset}]

\* Conditions, without time and message.
Available   == [type |-> "Ready",  status |-> "True",  reason |-> "Available"]
ClientError == [type |-> "Ready",  status |-> "False", reason |-> "ClientError"]
CreateError == [type |-> "Ready",  status |-> "False", reason |-> "CreateError"]
Success     == [type |-> "Synced", status |-> "True",  reason |-> "ReconcileSuccess"]
Conditions  == {Available, ClientError, CreateError, Success}

\* A document, by what it was made from.
NoDocument == [form |-> "none", of |-> Unset]
Documents == [form : {"simple", "raw"}, of : Buckets \cup RawPolicies] \cup {NoDocument}

\* The policyId is a function of the generation, which stands for it; 0 while
\* it is empty.
Statuses == [conditions : SUBSET Conditions,
             policyName : PolicyNames \cup Objects \cup {NoName},
             document : Documents, policyID : Nat]
NoStatus == [conditions |-> {}, policyName |-> NoName,
             document |-> NoDocument, policyID |-> 0]

Phases == {"updateStatus"}

Init == RuntimeInit /\ config \in Configs

-----------------------------------------------------------------------------
(* PolicyReconciler.Reconcile                                              *)

\* Mutant: every condition goes under the type Synced.
MistypedCondition(policy, c) ==
    [policy EXCEPT !.status.conditions = {[c EXCEPT !.type = "Synced"]}]

\* PolicyStatus.SetConditions replaces the whole slice.
SetCondition(policy, c) == [policy EXCEPT !.status.conditions = {c}]

\* An explicit "" is a name like any other.
GetPolicyName(o, spec) == IF spec.policyName = Unset THEN o ELSE spec.policyName

\* createPolicy returns no error: exactly one of the two parameters is set,
\* and a raw policy is JSON.
Creatable(spec) ==
    /\ (spec.allowBucket = Unset) # (spec.rawPolicy = Unset)
    /\ spec.rawPolicy # Unset => spec.rawPolicy \in ValidJSON

DocumentFor(spec) ==
    IF spec.allowBucket # Unset
    THEN [form |-> "simple", of |-> spec.allowBucket]
    ELSE [form |-> "raw", of |-> spec.rawPolicy]

\* What createPolicy writes into the copy.
Create(o, policy) ==
    [policy EXCEPT !.status = [conditions |-> @.conditions,
                               policyName |-> GetPolicyName(o, policy.spec),
                               document |-> DocumentFor(policy.spec),
                               policyID |-> policy.gen]]

\* Mutant: the name is recorded before the parameters are looked at.
NamedAnyway(o, policy) ==
    [SetCondition(policy, CreateError) EXCEPT
        !.status.policyName = GetPolicyName(o, policy.spec)]

CreateFailed(o, policy) == SetCondition(policy, CreateError)

\* The end of Reconcile: Ready is set, then Synced.
Succeed(policy) == SetCondition(SetCondition(policy, Available), Success)

\* Status.AtProvider.PolicyName is not empty.
Recorded(policy) == policy.status.policyName # NoName

\* The reconciler's getBackblazeClient returns a client, unless it fails for
\* reasons of its own.
GetBackblazeClient == ClientAvailable(config)

\* The copy that Reconcile stores in the end, but for such a failure.
Outcome(o, policy) ==
    IF ~GetBackblazeClient THEN SetCondition(policy, ClientError)
    ELSE IF Recorded(policy) THEN Succeed(policy)
    ELSE IF Creatable(policy.spec) THEN Succeed(Create(o, policy))
    ELSE CreateFailed(o, policy)

\* The Get finds no Policy, or one that is being deleted (handleDeletion does
\* nothing): Result{}, nil.
NothingToDo(p, o) ==
    /\ Exists(o, seen[p][o]) => log[o][seen[p][o]].deleting
    /\ Drop(p, o)
    /\ UNCHANGED <<work, budget>>

\* Mutant: every error of the Get is taken for NotFound.
GetFailureIgnored(p, o) ==
    /\ Disturb
    /\ Drop(p, o)
    /\ UNCHANGED work

GetFails(p, o) ==
    /\ Disturb
    /\ Requeue(p, o)
    /\ UNCHANGED work

GetFindsPolicy(p, o) ==
    LET policy == log[o][seen[p][o]] IN
    /\ Exists(o, seen[p][o])
    /\ ~policy.deleting
    /\ Drop(p, o)
    /\ \/ /\ Reconciling(p, o, "updateStatus", Outcome(o, policy))
          /\ UNCHANGED budget
       \/ /\ Reconciling(p, o, "updateStatus", SetCondition(policy, ClientError))
          /\ Disturb

StartReconcile(p, o) ==
    /\ MayTake(p, o)
    /\ NothingToDo(p, o) \/ GetFails(p, o) \/ GetFindsPolicy(p, o)
    /\ UNCHANGED <<log, seen, config>>

\* Mutant: the status is patched, whatever has been stored meanwhile.
PatchStatus(p) ==
    /\ work[p].pc = "updateStatus"
    /\ StatusPatch(p)
    /\ UNCHANGED config

UpdateStatus(p) ==
    /\ work[p].pc = "updateStatus"
    /\ StatusUpdate(p)
    /\ UNCHANGED config

-----------------------------------------------------------------------------
Users ==
    \/ /\ \E o \in Objects :
             \/ \E spec \in Specs :
                   CreateObject(o, spec, NoStatus) \/ EditSpec(o, spec)
             \/ DeleteObject(o)
             \/ DeleteHeldObject(o)
       /\ UNCHANGED config
    \/ /\ Disturb
       /\ ChangeConfig
       /\ UNCHANGED <<log, seen, queue, work>>

Kubernetes ==
    /\ \E p \in Procs :
          \/ \E o \in Objects : Observe(p, o) \/ Resync(p, o)
          \/ Restart(p)
    /\ UNCHANGED config

Next ==
    \/ Users
    \/ Kubernetes
    \/ \E p \in Procs :
          \/ \E o \in Objects : StartReconcile(p, o)
          \/ UpdateStatus(p)

\* The watch delivers, a worker finishes what it began, timers expire, and the
\* FIFO work queue gets to every object in it however often others are added.
Fairness ==
    \A p \in Procs :
        /\ WF_vars(UpdateStatus(p))
        /\ \A o \in Objects :
              /\ WF_vars(Observe(p, o) /\ UNCHANGED config)
              /\ SF_vars(StartReconcile(p, o))

Spec == Init /\ [][Next]_vars

FairSpec == Spec /\ Fairness

-----------------------------------------------------------------------------
TypeOK ==
    /\ RuntimeTypeOK(Specs, Statuses, {}, Phases)
    /\ config \in Configs

Synced(version) == Success \in version.status.conditions

\* No Policy that exists and is not being deleted is ever overlooked by any
\* process, whatever fails, crashes or is refused.
NeverForgotten ==
    \A p \in Procs, o \in Objects :
        Alive(o) /\ ~Latest(o).deleting => Remembered(p, o)

\* The name, the document and the ID that a status reports all come from one
\* generation of this very Policy, and from one whose parameters were valid:
\* edits, conflicts and a new Policy of the same name never mix them.
IsRecordOf(o, record, version) ==
    /\ version.alive
    /\ version.uid = record.uid
    /\ version.gen = record.status.policyID
    /\ Creatable(version.spec)
    /\ record.status.document = DocumentFor(version.spec)
    /\ record.status.policyName = GetPolicyName(o, version.spec)

RecordIsOfOneGeneration ==
    \A o \in Objects :
        Alive(o) =>
        \/ Latest(o).status.document = NoDocument /\ Latest(o).status.policyName = NoName
        \/ \E i \in 1 .. Len(log[o]) : IsRecordOf(o, Latest(o), log[o][i])

\* Two statuses with the same record, whatever their conditions say.
SameRecord(status, other) ==
    [status EXCEPT !.conditions = {}] = [other EXCEPT !.conditions = {}]

\* The record is left as it is, or is that of the spec it is stored beside.
KeepsOrMakesRecord(o) ==
    \/ SameRecord(Latest(o)'.status, Latest(o).status)
    \/ IsRecordOf(o, Latest(o)', Latest(o))

\* No process with an old cache takes a record back, or overwrites it with one
\* of parameters that have been edited since.
RecordsFollowTheSpec ==
    [][\A o \in Objects : IsStatusWrite(o) => KeepsOrMakesRecord(o)]_vars

\* What a Policy's status should come to say.
Settled(o) ==
    LET v == Latest(o) IN
    Alive(o) /\ ~v.deleting =>
        IF ~GetBackblazeClient
        THEN v.status.conditions = {ClientError}
        ELSE IF v.status.policyName # NoName \/ Creatable(v.spec)
        THEN Synced(v) /\ v.status.document # NoDocument
        ELSE v.status.conditions = {CreateError}

\* Once users, faults and crashes stop, every Policy has a document and is
\* Synced, or says what is wrong with its parameters or the credentials.
EventuallySettled == <>[](\A o \in Objects : Settled(o))
=============================================================================
