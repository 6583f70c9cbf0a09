------------------------------ MODULE Provider ------------------------------
(***************************************************************************)
(* cmd/provider/main.go and internal/controller/controller.go: one process *)
(* that runs the three controllers.  They share the API server, the caches *)
(* of the ProviderConfig and of the secrets, and the process itself; the   *)
(* secret a User asks for may be the one that holds the credentials.       *)
(***************************************************************************)
EXTENDS Naturals, Sequences

CONSTANTS
    Buckets, Accounts, Policies,  \* names of Bucket, User, Policy resources
    BucketNames, BucketTypes, MissingBucketErrors,
    SecretRefs,                   \* what a User's writeSecretToRef may be
    Credentials,                  \* the secret that the ProviderConfig names
    PolicyNames, AllowBuckets, RawPolicies, ValidJSON, Unset,
    Proc,                         \* the process
    MaxDisturbances, NoName

ASSUME CredentialsAreASecret == Credentials \in SecretRefs
\* What the three controllers assume of their constants.
ASSUME ControllersCanRun ==
    /\ MaxDisturbances \in Nat
    /\ BucketTypes # {} /\ BucketTypes \subseteq {"allPrivate", "allPublic"}
    /\ NoName \notin BucketNames \cup Policies \cup PolicyNames
    /\ ValidJSON \subseteq RawPolicies
    /\ Unset \notin PolicyNames \cup AllowBuckets \cup RawPolicies \cup {NoName}

VARIABLES
    bucketLog, bucketSeen, bucketQueue, bucketWork, b2, witnessed,
    userLog, userSeen, userQueue, userWork, secrets, written,
    policyLog, policySeen, policyQueue, policyWork,
    installed,  \* the ProviderConfig exists
    config,     \* what the caches hold of it and of its secret
    provided,   \* history: what people have ever put in place of the two
    budget

\* The ProviderConfig, when there is one, names its secret.
Configs == [found : BOOLEAN, source : {"Secret"}, secretRef : {TRUE},
            secret : {"missing", "refused", "complete"}]

B == INSTANCE BucketController WITH
        Objects <- Buckets, Procs <- {Proc}, log <- bucketLog,
        seen <- bucketSeen, queue <- bucketQueue, work <- bucketWork

U == INSTANCE UserController WITH
        Objects <- Accounts, Procs <- {Proc}, log <- userLog,
        seen <- userSeen, queue <- userQueue, work <- userWork,
        ForeignSecrets <- {}

P == INSTANCE PolicyController WITH
        Objects <- Policies, Procs <- {Proc}, log <- policyLog,
        seen <- policySeen, queue <- policyQueue, work <- policyWork,
        Buckets <- AllowBuckets

bucketVars == <<bucketLog, bucketSeen, bucketQueue, bucketWork, b2, witnessed>>
userVars == <<userLog, userSeen, userQueue, userWork, secrets, written>>
policyVars == <<policyLog, policySeen, policyQueue, policyWork>>
configVars == <<installed, config, provided>>

vars == <<bucketVars, userVars, policyVars, configVars, budget>>

\* The ProviderConfig and its secret as the API server has them.  People put
\* keys there that B2 accepts; the key of a User is simulated (user.go:151-152)
\* and B2 does not know it.
Actual == [found |-> installed, source |-> "Secret", secretRef |-> TRUE,
           secret |-> IF secrets[Credentials] = U!NoSecret THEN "missing"
                      ELSE IF secrets[Credentials].user = NoName THEN "complete"
                      ELSE "refused"]

\* Either or both may be in place when the process starts, and the caches have
\* been listed.
Init ==
    /\ B!RuntimeInit /\ U!RuntimeInit /\ P!RuntimeInit
    /\ b2 = [name \in BucketNames |-> "none"]
    /\ witnessed = [p \in {Proc} |-> {}]
    /\ provided \in SUBSET {"config", "secret"}
    /\ installed = ("config" \in provided)
    /\ secrets = [ref \in SecretRefs |->
                    IF ref = Credentials /\ "secret" \in provided
                    THEN U!Foreign ELSE U!NoSecret]
    /\ written = {}
    /\ config = Actual

-----------------------------------------------------------------------------
(* Steps that concern one kind of resource.                                *)

OfBuckets(step) == UNCHANGED <<userVars, policyVars, configVars>> /\ step
OfUsers(step) == UNCHANGED <<bucketVars, policyVars, configVars>> /\ step
OfPolicies(step) == UNCHANGED <<bucketVars, userVars, configVars>> /\ step

BucketReconcile == OfBuckets(B!Reconcile(Proc))
UserReconcile == OfUsers(U!Reconcile(Proc))
PolicyReconcile == OfPolicies(P!UpdateStatus(Proc))

StartBucket(o) == OfBuckets(B!StartReconcile(Proc, o))
StartUser(o) == OfUsers(U!StartReconcile(Proc, o))
StartPolicy(o) == OfPolicies(P!StartReconcile(Proc, o))

ObserveBucket(o) == OfBuckets(B!Observe(Proc, o) /\ UNCHANGED <<b2, witnessed>>)
ObserveUser(o) == OfUsers(U!Observe(Proc, o) /\ UNCHANGED <<secrets, written>>)
ObservePolicy(o) == OfPolicies(P!Observe(Proc, o))

ResyncBucket(o) == OfBuckets(B!Resync(Proc, o) /\ UNCHANGED <<b2, witnessed>>)
ResyncUser(o) == OfUsers(U!Resync(Proc, o) /\ UNCHANGED <<secrets, written>>)
ResyncPolicy(o) == OfPolicies(P!Resync(Proc, o))

\* People create, edit and delete resources, and B2 changes.  (config stays as
\* it is: that it changes at will is for the controllers alone.)  Policies have
\* valid parameters and no name but their own: PolicyController has the others.
PolicySpecs == {spec \in P!Specs : P!Creatable(spec) /\ spec.policyName = Unset}

Outside ==
    \/ OfBuckets(B!Users \/ B!OutsideChange)
    \/ OfUsers(U!Users)
    \/ \E o \in Policies :
          OfPolicies(\/ \E spec \in PolicySpecs :
                          P!CreateObject(o, spec, P!NoStatus) \/ P!EditSpec(o, spec)
                     \/ P!DeleteObject(o)
                     \/ P!DeleteHeldObject(o))

-----------------------------------------------------------------------------
(* Steps that concern all three.                                           *)

\* People create and delete the ProviderConfig ...
ChangeProviderConfig ==
    /\ B!Disturb
    /\ installed' = ~installed
    /\ provided' = provided \cup {"config"}
    /\ UNCHANGED <<bucketVars, userVars, policyVars, config>>

\* ... and the secret with the credentials, be it in place of a User's.
ChangeSecret ==
    /\ B!Disturb
    /\ \E secret \in {U!NoSecret, U!Foreign} \ {secrets[Credentials]} :
          secrets' = [secrets EXCEPT ![Credentials] = secret]
    /\ provided' = provided \cup {"secret"}
    /\ UNCHANGED <<userLog, userSeen, userQueue, userWork, written>>
    /\ UNCHANGED <<bucketVars, policyVars, installed, config>>

\* Each has a watch of its own that brings its cache up to date, when it does.
Watch(field) ==
    /\ config[field] # Actual[field]
    /\ config' = [config EXCEPT ![field] = Actual[field]]
    /\ UNCHANGED <<bucketVars, userVars, policyVars, installed, provided, budget>>

\* All controllers go down with the process.
Restart ==
    /\ B!Restart(Proc) /\ U!Restart(Proc) /\ P!Restart(Proc)
    /\ witnessed' = [p \in {Proc} |-> {}]
    /\ UNCHANGED <<b2, secrets, written, configVars>>

Next ==
    \/ Outside \/ ChangeProviderConfig \/ ChangeSecret \/ Restart
    \/ \E field \in {"found", "secret"} : Watch(field)
    \/ BucketReconcile \/ UserReconcile \/ PolicyReconcile
    \/ \E o \in Buckets : ObserveBucket(o) \/ ResyncBucket(o) \/ StartBucket(o)
    \/ \E o \in Accounts : ObserveUser(o) \/ ResyncUser(o) \/ StartUser(o)
    \/ \E o \in Policies : ObservePolicy(o) \/ ResyncPolicy(o) \/ StartPolicy(o)

\* As for each controller alone; and the caches of the credentials follow.
Fairness ==
    /\ WF_vars(BucketReconcile) /\ WF_vars(UserReconcile) /\ WF_vars(PolicyReconcile)
    /\ \A field \in {"found", "secret"} : WF_vars(Watch(field))
    /\ \A o \in Buckets : WF_vars(ObserveBucket(o)) /\ SF_vars(StartBucket(o))
    /\ \A o \in Accounts : /\ WF_vars(ObserveUser(o)) /\ WF_vars(ResyncUser(o))
                           /\ SF_vars(StartUser(o))
    /\ \A o \in Policies : WF_vars(ObservePolicy(o)) /\ SF_vars(StartPolicy(o))

Spec == Init /\ [][Next]_vars

FairSpec == Spec /\ Fairness

-----------------------------------------------------------------------------
TypeOK ==
    /\ B!TypeOK /\ U!TypeOK /\ P!TypeOK
    /\ installed \in BOOLEAN
    /\ provided \subseteq {"config", "secret"}

\* What a controller has done that it needs credentials for.
KeysAreWritten == written # {}
BucketsAreReady == \E o \in Buckets : B!Alive(o) /\ B!Ready(B!Latest(o))
UsersAreSynced == \E o \in Accounts : U!Alive(o) /\ U!Synced(U!Latest(o))
PoliciesAreSynced == \E o \in Policies : P!Alive(o) /\ P!Synced(P!Latest(o))

\* The provider cannot give itself credentials: whatever Users ask for the
\* very secret the ProviderConfig names, no controller does or reports
\* anything before people have put both in place (getBackblazeClient comes
\* first in every Reconcile, and none goes on without a client).
NothingWithoutCredentials ==
    KeysAreWritten \/ BucketsAreReady \/ UsersAreSynced \/ PoliciesAreSynced
    => provided = {"config", "secret"}

\* Once people, faults and crashes stop, all resources of all kinds settle, by
\* the credentials there are in the end, be it that a User has put its key,
\* which B2 refuses, in their place or has taken them along when it was
\* deleted, and however long the controllers go on before they learn of it.
AllSettle ==
    <>[](/\ config = Actual
         /\ \A o \in Buckets : B!Settled(o)
         /\ \A o \in Accounts : U!Settled(o)
         /\ \A o \in Policies : P!Settled(o))
=============================================================================
