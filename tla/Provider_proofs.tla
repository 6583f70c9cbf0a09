-------------------------- MODULE Provider_proofs --------------------------
(***************************************************************************)
(* The safety properties of Provider, for any number of resources and of   *)
(* disturbances.                                                           *)
(*                                                                         *)
(* Each controller keeps its own inductive invariant among the others: a   *)
(* step of the process is a step of it, or touches nothing it knows of but *)
(* the budget and the credentials.  On top of these, NothingWithoutSource  *)
(* says that caches and secrets hold no more of the credentials than       *)
(* people have put there, and that before they have put both in place no   *)
(* worker, no status and no secret owes anything to a client.              *)
(***************************************************************************)
EXTENDS Provider, SequenceTheorems, TLAPS

BP == INSTANCE BucketController_proofs WITH
         Objects <- Buckets, Procs <- {Proc}, log <- bucketLog,
         seen <- bucketSeen, queue <- bucketQueue, work <- bucketWork

UP == INSTANCE UserController_proofs WITH
         Objects <- Accounts, Procs <- {Proc}, log <- userLog,
         seen <- userSeen, queue <- userQueue, work <- userWork,
         ForeignSecrets <- {}

PP == INSTANCE PolicyController_proofs WITH
         Objects <- Policies, Procs <- {Proc}, log <- policyLog,
         seen <- policySeen, queue <- policyQueue, work <- policyWork,
         Buckets <- AllowBuckets

\* What people have put in place: the ProviderConfig and its secret.
BothProvided == provided = {"config", "secret"}

\* Neither the server nor the caches have more of the credentials than people
\* have put there: no controller adds to them.
NoMoreThanProvided ==
    /\ installed \/ config.found => "config" \in provided
    /\ \/ secrets[Credentials] # U!NoSecret
       \/ config.secret # "missing"
       => "secret" \in provided

\* No controller has done, or is about to do, what it needs a client for.
NothingDone == BP!NothingDone /\ UP!NothingDone /\ PP!NothingDone

IInv ==
    /\ BP!IInv /\ UP!IInv /\ PP!IInv
    /\ installed \in BOOLEAN
    /\ provided \subseteq {"config", "secret"}
    /\ NoMoreThanProvided
    /\ ~BothProvided => NothingDone

-----------------------------------------------------------------------------
(* The controllers among the others.  Their definitions are those of their *)
(* proofs, and what they assume of the constants holds of the process.     *)

\* The steps of the Bucket controller are those its proofs are about ...
LEMMA BucketSteps == B!Next => BP!Next
BY
DEF B!Next, B!Users, B!OutsideChange, B!Kubernetes, B!StartReconcile,
    B!Reconcile, B!Specs, B!CreateObject, B!NoStatus, B!EditSpec,
    B!DeleteObject, B!DeleteHeldObject, B!Disturb, B!ChangeConfig,
    B!Appears, B!Observe, B!Resync, B!Restart, B!MayTake, B!GetFindsNothing,
    B!GetFails, B!GetFindsBucket, B!HeadBucket, B!HeadRefused, B!CreateBucket,
    B!UpdateStatus, B!Alive, B!Commit, B!NewUid, B!Latest, B!Idle, B!Exists,
    B!Drop, B!Requeue, B!GetBackblazeClient, B!Reconciling, B!SetCondition,
    B!ClientError, B!Ours, B!GetBucketName, B!Goto, B!Succeed,
    B!IsNotFoundError, B!CheckError, B!CreateFailed, B!StatusUpdate,
    B!ClientAvailable, B!Available, B!CreateError, B!UpToDate, B!Stored,
    B!HasCredentials, B!NewBackblazeClient, B!Accepted, BP!Next, BP!Users,
    BP!OutsideChange, BP!Kubernetes, BP!StartReconcile, BP!Reconcile,
    BP!Specs, BP!CreateObject, BP!NoStatus, BP!EditSpec, BP!DeleteObject,
    BP!DeleteHeldObject, BP!Disturb, BP!ChangeConfig, BP!Appears,
    BP!Observe, BP!Resync, BP!Restart, BP!MayTake, BP!GetFindsNothing,
    BP!GetFails, BP!GetFindsBucket, BP!HeadBucket, BP!HeadRefused, BP!CreateBucket,
    BP!UpdateStatus, BP!Alive, BP!Commit, BP!NewUid, BP!Latest, BP!Idle,
    BP!Exists, BP!Drop, BP!Requeue, BP!GetBackblazeClient, BP!Reconciling,
    BP!SetCondition, BP!ClientError, BP!Ours, BP!GetBucketName, BP!Goto,
    BP!Succeed, BP!IsNotFoundError, BP!CheckError, BP!CreateFailed,
    BP!StatusUpdate, BP!ClientAvailable, BP!Available, BP!CreateError,
    BP!UpToDate, BP!Stored, BP!HasCredentials, BP!NewBackblazeClient,
    BP!Accepted

\* ... those of the User controller ...
LEMMA UserSteps == U!Next => UP!Next
BY
DEF U!Next, U!Users, U!Kubernetes, U!StartReconcile, U!Reconcile, U!Specs,
    U!CreateObject, U!NoStatus, U!EditSpec, U!DeleteObject,
    U!DeleteHeldObject, U!Disturb, U!ChangeConfig, U!Observe, U!Resync,
    U!Restart, U!MayTake, U!GetFindsNothing, U!GetFails, U!GetFindsUser,
    U!CreateSecret, U!DeleteSecret, U!UpdateStatus, U!Alive, U!Commit,
    U!NewUid, U!Latest, U!Exists, U!Idle, U!Drop, U!Requeue, U!BeingDeleted,
    U!Reconciling, U!GetBackblazeClient, U!SetCondition, U!ClientError,
    U!IssueKey, U!Succeed, U!NoSecret, U!Goto, U!CreateFailed,
    U!StatusUpdate, U!ClientAvailable, U!Available, U!Success,
    U!CreateError, U!UpToDate, U!Stored, U!HasCredentials,
    U!NewBackblazeClient, UP!Next, UP!Users, UP!Kubernetes,
    UP!StartReconcile, UP!Reconcile, UP!Specs, UP!CreateObject, UP!NoStatus,
    UP!EditSpec, UP!DeleteObject, UP!DeleteHeldObject, UP!Disturb,
    UP!ChangeConfig, UP!Observe, UP!Resync, UP!Restart, UP!MayTake,
    UP!GetFindsNothing, UP!GetFails, UP!GetFindsUser, UP!CreateSecret,
    UP!DeleteSecret, UP!UpdateStatus, UP!Alive, UP!Commit, UP!NewUid,
    UP!Latest, UP!Exists, UP!Idle, UP!Drop, UP!Requeue, UP!BeingDeleted,
    UP!Reconciling, UP!GetBackblazeClient, UP!SetCondition, UP!ClientError,
    UP!IssueKey, UP!Succeed, UP!NoSecret, UP!Goto, UP!CreateFailed,
    UP!StatusUpdate, UP!ClientAvailable, UP!Available, UP!Success,
    UP!CreateError, UP!UpToDate, UP!Stored, UP!HasCredentials,
    UP!NewBackblazeClient

\* ... and of the Policy controller,
LEMMA PolicySteps == P!Next => PP!Next
BY
DEF P!Next, P!Users, P!Kubernetes, P!StartReconcile, P!UpdateStatus,
    P!Specs, P!CreateObject, P!NoStatus, P!EditSpec, P!DeleteObject,
    P!DeleteHeldObject, P!Disturb, P!ChangeConfig, P!Observe, P!Resync,
    P!Restart, P!MayTake, P!NothingToDo, P!GetFails, P!GetFindsPolicy,
    P!StatusUpdate, P!Alive, P!Commit, P!NewUid, P!NoDocument, P!Latest,
    P!Exists, P!Idle, P!Drop, P!Requeue, P!Reconciling, P!Outcome,
    P!UpToDate, P!Stored, P!GetBackblazeClient, P!SetCondition,
    P!ClientError, P!Recorded, P!Succeed, P!Creatable, P!Create,
    P!CreateFailed, P!ClientAvailable, P!Available, P!Success,
    P!GetPolicyName, P!DocumentFor, P!CreateError, P!HasCredentials,
    P!NewBackblazeClient, PP!Next, PP!Users, PP!Kubernetes,
    PP!StartReconcile, PP!UpdateStatus, PP!Specs, PP!CreateObject,
    PP!NoStatus, PP!EditSpec, PP!DeleteObject, PP!DeleteHeldObject,
    PP!Disturb, PP!ChangeConfig, PP!Observe, PP!Resync, PP!Restart,
    PP!MayTake, PP!NothingToDo, PP!GetFails, PP!GetFindsPolicy,
    PP!StatusUpdate, PP!Alive, PP!Commit, PP!NewUid, PP!NoDocument,
    PP!Latest, PP!Exists, PP!Idle, PP!Drop, PP!Requeue, PP!Reconciling,
    PP!Outcome, PP!UpToDate, PP!Stored, PP!GetBackblazeClient,
    PP!SetCondition, PP!ClientError, PP!Recorded, PP!Succeed, PP!Creatable,
    PP!Create, PP!CreateFailed, PP!ClientAvailable, PP!Available,
    PP!Success, PP!GetPolicyName, PP!DocumentFor, PP!CreateError,
    PP!HasCredentials, PP!NewBackblazeClient

\* and so are the types: of Buckets,
LEMMA BucketTypesAgree == BP!TypeOK => B!TypeOK
BY
DEF B!TypeOK, B!RuntimeTypeOK, B!Specs, B!Statuses, B!Phases, B!Versions,
    B!Idle, B!Reconciles, B!Conditions, B!Available, B!ClientError,
    B!CheckError, B!CreateError, BP!TypeOK, BP!RuntimeTypeOK, BP!Specs,
    BP!Statuses, BP!Phases, BP!Versions, BP!Idle, BP!Reconciles,
    BP!Conditions, BP!Available, BP!ClientError, BP!CheckError,
    BP!CreateError

\* of Users and their secrets,
LEMMA UserTypesAgree == UP!TypeOK => U!TypeOK
BY
DEF U!TypeOK, U!RuntimeTypeOK, U!Specs, U!Statuses, U!Phases, U!Versions,
    U!Idle, U!Reconciles, U!Conditions, U!Available, U!ClientError,
    U!CreateError, U!Success, UP!TypeOK, UP!RuntimeTypeOK, UP!Specs,
    UP!Statuses, UP!Phases, UP!Versions, UP!Idle, UP!Reconciles,
    UP!Conditions, UP!Available, UP!ClientError, UP!CreateError, UP!Success

\* and of Policies.
LEMMA PolicyTypesAgree == PP!TypeOK => P!TypeOK
BY
DEF P!TypeOK, P!RuntimeTypeOK, P!Specs, P!Statuses, P!Phases, P!Versions,
    P!Idle, P!Reconciles, P!Conditions, P!Documents, P!Available,
    P!ClientError, P!CreateError, P!Success, P!NoDocument, PP!TypeOK,
    PP!RuntimeTypeOK, PP!Specs, PP!Statuses, PP!Phases, PP!Versions,
    PP!Idle, PP!Reconciles, PP!Conditions, PP!Documents, PP!Available,
    PP!ClientError, PP!CreateError, PP!Success, PP!NoDocument

\* The ProviderConfigs of the process are some of those each controller is
\* prepared for.
LEMMA ConfigsFit ==
    /\ Configs # {}
    /\ Configs \subseteq BP!ConfigRecord
    /\ Configs \subseteq UP!ConfigRecord
    /\ Configs \subseteq PP!ConfigRecord
<1>1. [found |-> FALSE, source |-> "Secret", secretRef |-> TRUE,
       secret |-> "missing"] \in Configs
  BY DEF Configs
<1>2. \A c \in Configs : c \in BP!ConfigRecord
  BY DEF Configs, BP!ConfigRecord
<1>3. BP!ConfigRecord = UP!ConfigRecord /\ BP!ConfigRecord = PP!ConfigRecord
  BY DEF BP!ConfigRecord, UP!ConfigRecord, PP!ConfigRecord
<1> QED
  BY <1>1, <1>2, <1>3

\* What a Bucket controller does, and what others do, keeps its invariant.
LEMMA BucketInvariance ==
    /\ BP!Init => BP!IInv
    /\ BP!IInv /\ B!Next => BP!IInv'
    /\ BP!IInv /\ UNCHANGED bucketVars /\ budget' \in Nat /\ config' \in Configs
       => BP!IInv'
    /\ BP!IInv /\ BP!NothingDone /\ ~BP!GetBackblazeClient /\ B!Next
       => BP!NothingDone'
    /\ BP!NothingDone /\ UNCHANGED bucketVars => BP!NothingDone'
<1> USE ControllersCanRun, ConfigsFit
<1>1. BP!Init => BP!IInv
  BY BP!Initially
<1>2. BP!IInv /\ B!Next => BP!IInv'
  BY BP!StepsKeepIInv, BucketSteps
<1>3. BP!IInv /\ UNCHANGED bucketVars /\ budget' \in Nat /\ config' \in Configs
      => BP!IInv'
  BY BP!OthersKeepIInv DEF bucketVars
<1>4. BP!IInv /\ BP!NothingDone /\ ~BP!GetBackblazeClient /\ B!Next
      => BP!NothingDone'
  BY BP!NothingDoneWithoutClient, BucketSteps
<1>5. BP!NothingDone /\ UNCHANGED bucketVars => BP!NothingDone'
  BY DEF BP!NothingDone, BP!StatusesAreIn, bucketVars
<1> QED
  BY <1>1, <1>2, <1>3, <1>4, <1>5

\* The same of the User controller; others may change secrets, which is no
\* matter to it.
LEMMA UserInvariance ==
    /\ /\ UP!RuntimeInit /\ config \in Configs /\ written = {}
       /\ secrets \in [SecretRefs ->
                          [keyID : Nat, user : Accounts \cup {NoName}, uid : Nat]]
       => UP!IInv
    /\ UP!IInv /\ U!Next => UP!IInv'
    /\ /\ UP!IInv
       /\ UNCHANGED <<userLog, userSeen, userQueue, userWork, written>>
       /\ budget' \in Nat /\ config' \in Configs
       /\ secrets' \in [SecretRefs ->
                           [keyID : Nat, user : Accounts \cup {NoName}, uid : Nat]]
       => UP!IInv'
    /\ UP!IInv /\ UP!NothingDone /\ ~UP!GetBackblazeClient /\ U!Next
       => /\ UP!NothingDone'
          /\ \A ref \in SecretRefs : secrets'[ref] \in {secrets[ref], UP!NoSecret}
    /\ /\ UP!NothingDone
       /\ UNCHANGED <<userLog, userSeen, userQueue, userWork, written>>
       => UP!NothingDone'
<1> USE ControllersCanRun, ConfigsFit
<1>1. /\ UP!RuntimeInit /\ config \in Configs /\ written = {}
      /\ secrets \in [SecretRefs ->
                         [keyID : Nat, user : Accounts \cup {NoName}, uid : Nat]]
      => UP!IInv
  BY UP!StartsWell
<1>2. UP!IInv /\ U!Next => UP!IInv'
  BY UP!StepsKeepIInv, UserSteps
<1>3. /\ UP!IInv
      /\ UNCHANGED <<userLog, userSeen, userQueue, userWork, written>>
      /\ budget' \in Nat /\ config' \in Configs
      /\ secrets' \in [SecretRefs ->
                          [keyID : Nat, user : Accounts \cup {NoName}, uid : Nat]]
      => UP!IInv'
  BY UP!OthersKeepIInv
<1>4. UP!IInv /\ UP!NothingDone /\ ~UP!GetBackblazeClient /\ U!Next
      => /\ UP!NothingDone'
         /\ \A ref \in SecretRefs : secrets'[ref] \in {secrets[ref], UP!NoSecret}
  BY UP!NothingDoneWithoutClient, UserSteps
<1>5. /\ UP!NothingDone
      /\ UNCHANGED <<userLog, userSeen, userQueue, userWork, written>>
      => UP!NothingDone'
  BY DEF UP!NothingDone, UP!StatusesAreIn
<1> QED
  BY <1>1, <1>2, <1>3, <1>4, <1>5

\* The same of the Policy controller.
LEMMA PolicyInvariance ==
    /\ PP!Init => PP!IInv
    /\ PP!IInv /\ P!Next => PP!IInv'
    /\ PP!IInv /\ UNCHANGED policyVars /\ budget' \in Nat /\ config' \in Configs
       => PP!IInv'
    /\ PP!IInv /\ PP!NothingDone /\ ~PP!GetBackblazeClient /\ P!Next
       => PP!NothingDone'
    /\ PP!NothingDone /\ UNCHANGED policyVars => PP!NothingDone'
<1> USE ControllersCanRun, ConfigsFit
<1>1. PP!Init => PP!IInv
  BY PP!Initially
<1>2. PP!IInv /\ P!Next => PP!IInv'
  BY PP!StepsKeepIInv, PolicySteps
<1>3. PP!IInv /\ UNCHANGED policyVars /\ budget' \in Nat /\ config' \in Configs
      => PP!IInv'
  BY PP!OthersKeepIInv DEF policyVars
<1>4. PP!IInv /\ PP!NothingDone /\ ~PP!GetBackblazeClient /\ P!Next
      => PP!NothingDone'
  BY PP!NothingDoneWithoutClient, PolicySteps
<1>5. PP!NothingDone /\ UNCHANGED policyVars => PP!NothingDone'
  BY DEF PP!NothingDone, PP!StatusesAreIn, policyVars
<1> QED
  BY <1>1, <1>2, <1>3, <1>4, <1>5

-----------------------------------------------------------------------------
(* The steps of the process.                                               *)

\* A step is one of a controller, of the caches or the credentials, or it
\* takes all three controllers down.
LEMMA KindsOfSteps ==
    ASSUME BP!IInv, Next
    PROVE  \/ B!Next /\ UNCHANGED <<userVars, policyVars, configVars>>
           \/ U!Next /\ UNCHANGED <<bucketVars, policyVars, configVars>>
           \/ P!Next /\ UNCHANGED <<bucketVars, userVars, configVars>>
           \/ B!Next /\ U!Next /\ P!Next /\ UNCHANGED <<secrets, configVars>>
           \/ ChangeProviderConfig
           \/ ChangeSecret
           \/ \E field \in {"found", "secret"} : Watch(field)
<1>2. Proc \in {Proc}
  OBVIOUS
<1>3. CASE Outside
  <2>1. CASE OfBuckets(B!Users \/ B!OutsideChange)
    BY <2>1 DEF OfBuckets, B!Next
  <2>2. CASE OfUsers(U!Users)
    BY <2>2 DEF OfUsers, U!Next
  <2>3. CASE \E o \in Policies :
               OfPolicies(\/ \E spec \in PolicySpecs :
                               P!CreateObject(o, spec, P!NoStatus) \/ P!EditSpec(o, spec)
                          \/ P!DeleteObject(o)
                          \/ P!DeleteHeldObject(o))
    <3>1. P!Users
      BY <2>3 DEF OfPolicies, PolicySpecs, P!Users, configVars
    <3> QED
      BY <2>3, <3>1 DEF OfPolicies, P!Next
  <2> QED
    BY <1>3, <2>1, <2>2, <2>3 DEF Outside
<1>4. CASE BucketReconcile \/ \E o \in Buckets : StartBucket(o)
  BY <1>2, <1>4 DEF BucketReconcile, StartBucket, OfBuckets, B!Next
<1>5. CASE UserReconcile \/ \E o \in Accounts : StartUser(o)
  BY <1>2, <1>5 DEF UserReconcile, StartUser, OfUsers, U!Next
<1>6. CASE PolicyReconcile \/ \E o \in Policies : StartPolicy(o)
  BY <1>2, <1>6 DEF PolicyReconcile, StartPolicy, OfPolicies, P!Next
<1>7. CASE \E o \in Buckets : ObserveBucket(o) \/ ResyncBucket(o)
  <2>1. B!Kubernetes
    BY <1>2, <1>7 DEF ObserveBucket, ResyncBucket, OfBuckets, configVars, B!Kubernetes
  <2> QED
    BY <1>7, <2>1 DEF ObserveBucket, ResyncBucket, OfBuckets, B!Next
<1>8. CASE \E o \in Accounts : ObserveUser(o) \/ ResyncUser(o)
  <2>1. U!Kubernetes
    BY <1>2, <1>8 DEF ObserveUser, ResyncUser, OfUsers, configVars, U!Kubernetes
  <2> QED
    BY <1>8, <2>1 DEF ObserveUser, ResyncUser, OfUsers, U!Next
<1>9. CASE \E o \in Policies : ObservePolicy(o) \/ ResyncPolicy(o)
  <2>1. P!Kubernetes
    BY <1>2, <1>9 DEF ObservePolicy, ResyncPolicy, OfPolicies, configVars, P!Kubernetes
  <2> QED
    BY <1>9, <2>1 DEF ObservePolicy, ResyncPolicy, OfPolicies, P!Next
<1>10. CASE Restart
  <2>1. witnessed \in [{Proc} -> SUBSET BucketNames]
    BY DEF BP!IInv, BP!TypeOK
  <2>2. witnessed' = [witnessed EXCEPT ![Proc] = {}]
    BY <1>10, <2>1 DEF Restart
  <2>3. B!Kubernetes /\ U!Kubernetes /\ P!Kubernetes
    BY <1>2, <1>10, <2>2
    DEF Restart, configVars, B!Kubernetes, U!Kubernetes, P!Kubernetes
  <2> QED
    BY <1>10, <2>3 DEF Restart, B!Next, U!Next, P!Next
<1> QED
  BY <1>3, <1>4, <1>5, <1>6, <1>7, <1>8, <1>9, <1>10 DEF Next

\* No cache has the credentials before both parts are in place.
LEMMA NoClient ==
    ASSUME IInv, ~BothProvided
    PROVE  ~BP!GetBackblazeClient /\ ~UP!GetBackblazeClient /\ ~PP!GetBackblazeClient
<1>1. ~(config.found /\ config.secret # "missing")
  BY DEF IInv, BothProvided, NoMoreThanProvided
<1>2. config.secret \in {"missing", "refused", "complete"}
  BY DEF IInv, BP!IInv, BP!TypeOK, Configs
<1> QED
  BY <1>1, <1>2
  DEF BP!GetBackblazeClient, BP!ClientAvailable, BP!HasCredentials,
      UP!GetBackblazeClient, UP!ClientAvailable, UP!HasCredentials,
      PP!GetBackblazeClient, PP!ClientAvailable, PP!HasCredentials

\* The parts of the invariant that tell what is typed how.
LEMMA SharedTypes ==
    ASSUME BP!IInv, UP!IInv
    PROVE  /\ budget \in Nat
           /\ config \in Configs
           /\ secrets \in [SecretRefs ->
                              [keyID : Nat, user : Accounts \cup {NoName}, uid : Nat]]
BY DEF BP!IInv, BP!TypeOK, BP!RuntimeTypeOK, UP!IInv, UP!TypeOK

\* Every step keeps the invariants of the three controllers ...
LEMMA StepsKeepControllers ==
    ASSUME IInv, Next
    PROVE  BP!IInv' /\ UP!IInv' /\ PP!IInv'
<1>0. /\ BP!IInv /\ UP!IInv /\ PP!IInv
      /\ budget \in Nat
      /\ config \in Configs
      /\ secrets \in [SecretRefs ->
                         [keyID : Nat, user : Accounts \cup {NoName}, uid : Nat]]
  BY SharedTypes DEF IInv
<1>1. CASE B!Next /\ UNCHANGED <<userVars, policyVars, configVars>>
  <2>1. BP!IInv'
    BY <1>0, <1>1, BucketInvariance
  <2>2. budget' \in Nat /\ config' \in Configs
    BY <2>1 DEF BP!IInv, BP!TypeOK, BP!RuntimeTypeOK
  <2> QED
    BY <1>0, <1>1, <2>1, <2>2, UserInvariance, PolicyInvariance DEF userVars
<1>2. CASE U!Next /\ UNCHANGED <<bucketVars, policyVars, configVars>>
  <2>1. UP!IInv'
    BY <1>0, <1>2, UserInvariance
  <2>2. budget' \in Nat /\ config' \in Configs
    BY <2>1 DEF UP!IInv, UP!TypeOK, UP!RuntimeTypeOK
  <2> QED
    BY <1>0, <1>2, <2>1, <2>2, BucketInvariance, PolicyInvariance
<1>3. CASE P!Next /\ UNCHANGED <<bucketVars, userVars, configVars>>
  <2>1. PP!IInv'
    BY <1>0, <1>3, PolicyInvariance
  <2>2. budget' \in Nat /\ config' \in Configs
    BY <2>1 DEF PP!IInv, PP!TypeOK, PP!RuntimeTypeOK
  <2> QED
    BY <1>0, <1>3, <2>1, <2>2, BucketInvariance, UserInvariance DEF userVars
<1>4. CASE B!Next /\ U!Next /\ P!Next /\ UNCHANGED <<secrets, configVars>>
  BY <1>0, <1>4, BucketInvariance, UserInvariance, PolicyInvariance
<1>5. CASE ChangeProviderConfig
  BY <1>0, <1>5, BucketInvariance, UserInvariance, PolicyInvariance
  DEF ChangeProviderConfig, B!Disturb, userVars
<1>6. CASE ChangeSecret
  <2>1. \A s \in {U!Foreign, U!NoSecret} :
           s \in [keyID : Nat, user : Accounts \cup {NoName}, uid : Nat]
    BY DEF U!Foreign, U!NoSecret
  <2>2. secrets' \in [SecretRefs ->
                        [keyID : Nat, user : Accounts \cup {NoName}, uid : Nat]]
    BY <1>0, <1>6, <2>1 DEF ChangeSecret
  <2> QED
    BY <1>0, <1>6, <2>2, BucketInvariance, UserInvariance, PolicyInvariance
    DEF ChangeSecret, B!Disturb
<1>7. CASE \E field \in {"found", "secret"} : Watch(field)
  <2>1. installed \in BOOLEAN
    BY DEF IInv
  <2>2. UNCHANGED <<bucketVars, userVars, policyVars, budget>>
    BY <1>7 DEF Watch
  <2>3. \/ config' = [config EXCEPT !.found = Actual.found]
        \/ config' = [config EXCEPT !.secret = Actual.secret]
    BY <1>7 DEF Watch
  <2>4. Actual.found \in BOOLEAN /\ Actual.secret \in {"missing", "refused", "complete"}
    BY <2>1 DEF Actual
  <2>5. config' \in Configs
    BY <1>0, <2>3, <2>4 DEF Configs
  <2> QED
    BY <1>0, <2>2, <2>5, BucketInvariance, UserInvariance, PolicyInvariance DEF userVars
<1> QED
  BY <1>0, <1>1, <1>2, <1>3, <1>4, <1>5, <1>6, <1>7, KindsOfSteps

\* ... and that nothing is done before both parts are in place.
LEMMA StepsKeepNothingDone ==
    ASSUME IInv, Next, ~BothProvided'
    PROVE  NothingDone' /\ ~BothProvided
<1>1. ~BothProvided /\ provided \subseteq provided'
  <2>1. provided \subseteq provided'
    BY KindsOfSteps DEF IInv, configVars, ChangeProviderConfig, ChangeSecret, Watch
  <2>2. provided' \subseteq {"config", "secret"}
    BY KindsOfSteps DEF IInv, configVars, ChangeProviderConfig, ChangeSecret, Watch
  <2> QED
    BY <2>1, <2>2 DEF BothProvided
<1>2. /\ BP!IInv /\ UP!IInv /\ PP!IInv
      /\ BP!NothingDone /\ UP!NothingDone /\ PP!NothingDone
      /\ ~BP!GetBackblazeClient /\ ~UP!GetBackblazeClient /\ ~PP!GetBackblazeClient
  BY <1>1, NoClient DEF IInv, NothingDone
<1>3. B!Next \/ UNCHANGED bucketVars => BP!NothingDone'
  BY <1>2, BucketInvariance
<1>4. U!Next \/ UNCHANGED <<userLog, userSeen, userQueue, userWork, written>>
      => UP!NothingDone'
  BY <1>2, UserInvariance
<1>5. P!Next \/ UNCHANGED policyVars => PP!NothingDone'
  BY <1>2, PolicyInvariance
<1> QED
  BY <1>1, <1>2, <1>3, <1>4, <1>5, KindsOfSteps
  DEF NothingDone, userVars, ChangeProviderConfig, ChangeSecret, Watch

\* Caches and secrets get the credentials from people only.
LEMMA StepsKeepSources ==
    ASSUME IInv, Next
    PROVE  /\ installed' \in BOOLEAN
           /\ provided' \subseteq {"config", "secret"}
           /\ NoMoreThanProvided'
<1>0. /\ BP!IInv /\ UP!IInv
      /\ installed \in BOOLEAN
      /\ provided \subseteq {"config", "secret"}
      /\ NoMoreThanProvided
      /\ config \in Configs
      /\ secrets \in [SecretRefs ->
                         [keyID : Nat, user : Accounts \cup {NoName}, uid : Nat]]
  BY SharedTypes DEF IInv
<1>1. CASE UNCHANGED <<secrets, configVars>>
  BY <1>0, <1>1 DEF configVars, NoMoreThanProvided
<1>2. CASE U!Next /\ UNCHANGED <<bucketVars, policyVars, configVars>>
  <2>1. CASE BothProvided
    BY <1>0, <1>2, <2>1 DEF configVars, NoMoreThanProvided, BothProvided
  <2>2. CASE ~BothProvided
    <3>1. secrets'[Credentials] \in {secrets[Credentials], UP!NoSecret}
      BY <1>0, <1>2, <2>2, NoClient, UserInvariance, CredentialsAreASecret
      DEF IInv, NothingDone
    <3>2. UP!NoSecret = U!NoSecret
      BY DEF UP!NoSecret, U!NoSecret
    <3> QED
      BY <1>0, <1>2, <3>1, <3>2 DEF configVars, NoMoreThanProvided
  <2> QED
    BY <2>1, <2>2
<1>3. CASE ChangeProviderConfig
  BY <1>0, <1>3 DEF ChangeProviderConfig, userVars, NoMoreThanProvided
<1>4. CASE ChangeSecret
  BY <1>0, <1>4 DEF ChangeSecret, NoMoreThanProvided
<1>5. CASE \E field \in {"found", "secret"} : Watch(field)
  BY <1>0, <1>5 DEF Watch, Actual, Configs, userVars, NoMoreThanProvided
<1> QED
  BY <1>0, <1>1, <1>2, <1>3, <1>4, <1>5, KindsOfSteps DEF userVars

\* The initial states: whatever people have put in place by then.
LEMMA Initially == Init => IInv
<1> SUFFICES ASSUME Init PROVE IInv
  OBVIOUS
<1>1. installed \in BOOLEAN /\ provided \subseteq {"config", "secret"}
  BY DEF Init
<1>2. config \in Configs
  BY <1>1 DEF Init, Actual, Configs
<1>3. BP!RuntimeInit /\ UP!RuntimeInit /\ PP!RuntimeInit
  BY DEF Init, B!RuntimeInit, U!RuntimeInit, P!RuntimeInit, B!Idle, U!Idle, P!Idle,
         BP!RuntimeInit, UP!RuntimeInit, PP!RuntimeInit, BP!Idle, UP!Idle, PP!Idle
<1>4. BP!IInv
  BY <1>2, <1>3, BucketInvariance, ConfigsFit DEF Init, BP!Init
<1>5. UP!IInv
  <2>1. \A s \in {U!Foreign, U!NoSecret} :
           s \in [keyID : Nat, user : Accounts \cup {NoName}, uid : Nat]
    BY DEF U!Foreign, U!NoSecret
  <2>2. secrets \in [SecretRefs ->
                        [keyID : Nat, user : Accounts \cup {NoName}, uid : Nat]]
    BY <2>1 DEF Init
  <2> QED
    BY <1>2, <1>3, <2>2, UserInvariance DEF Init
<1>6. PP!IInv
  BY <1>2, <1>3, PolicyInvariance, ConfigsFit DEF Init, PP!Init
<1>7. NoMoreThanProvided
  BY CredentialsAreASecret DEF Init, Actual, NoMoreThanProvided
<1>8. NothingDone
  <2>1. /\ bucketWork[Proc] = BP!Idle /\ \A o \in Buckets : bucketLog[o] = <<>>
        /\ userWork[Proc] = UP!Idle /\ \A o \in Accounts : userLog[o] = <<>>
        /\ policyWork[Proc] = PP!Idle /\ \A o \in Policies : policyLog[o] = <<>>
        /\ written = {}
    BY <1>3 DEF Init, BP!RuntimeInit, UP!RuntimeInit, PP!RuntimeInit
  <2>2. Len(<<>>) = 0 /\ 1 .. 0 = {}
    OBVIOUS
  <2>3. BP!NothingDone
    BY <2>1, <2>2 DEF BP!NothingDone, BP!StatusesAreIn
  <2>4. UP!NothingDone
    BY <2>1, <2>2 DEF UP!NothingDone, UP!StatusesAreIn
  <2>5. PP!NothingDone
    BY <2>1, <2>2 DEF PP!NothingDone, PP!StatusesAreIn
  <2> QED
    BY <2>3, <2>4, <2>5 DEF NothingDone
<1> QED
  BY <1>1, <1>4, <1>5, <1>6, <1>7, <1>8 DEF IInv

\* The invariant is about the variables of the system only.
LEMMA StuttersKeepIInv == IInv /\ UNCHANGED vars => IInv'
<1> SUFFICES ASSUME IInv, UNCHANGED vars PROVE IInv'
  OBVIOUS
<1>1. BP!IInv' /\ UP!IInv' /\ PP!IInv'
  BY SharedTypes, BucketInvariance, UserInvariance, PolicyInvariance
  DEF IInv, vars, userVars, configVars
<1>2. ~BothProvided' => NothingDone'
  BY BucketInvariance, UserInvariance, PolicyInvariance
  DEF IInv, BothProvided, NothingDone, vars, userVars, configVars
<1> QED
  BY <1>1, <1>2 DEF IInv, NoMoreThanProvided, vars, userVars, configVars

-----------------------------------------------------------------------------
(* What the runs check, for all of the constants.                          *)

\* The inductive invariant holds in every state.
THEOREM ProviderInvariance == Spec => []IInv
<1>1. IInv /\ [Next]_vars => IInv'
  BY StepsKeepControllers, StepsKeepNothingDone, StepsKeepSources, StuttersKeepIInv
  DEF IInv
<1> QED
  BY <1>1, Initially, PTL DEF Spec

\* Types: of the controllers, of what is installed and of what people provided.
THEOREM ProviderTypes == Spec => []TypeOK
<1>1. IInv => TypeOK
  BY BucketTypesAgree, UserTypesAgree, PolicyTypesAgree
  DEF IInv, TypeOK, BP!IInv, UP!IInv, PP!IInv
<1> QED
  BY <1>1, ProviderInvariance, PTL

\* The provider cannot give itself credentials: no controller has written a
\* key or reported success before people put both parts in place.
THEOREM NoCredentialsNothingDone == Spec => []NothingWithoutCredentials
<1>1. ASSUME IInv, ~BothProvided
      PROVE  ~(KeysAreWritten \/ BucketsAreReady \/ UsersAreSynced \/ PoliciesAreSynced)
  <2>1. BP!NothingDone /\ UP!NothingDone /\ PP!NothingDone
    BY <1>1 DEF IInv, NothingDone
  <2>2. /\ \A o \in Buckets : Len(bucketLog[o]) \in Nat
        /\ \A o \in Accounts : Len(userLog[o]) \in Nat
        /\ \A o \in Policies : Len(policyLog[o]) \in Nat
    <3>1. /\ \E V : bucketLog \in [Buckets -> Seq(V)]
          /\ \E V : userLog \in [Accounts -> Seq(V)]
          /\ \E V : policyLog \in [Policies -> Seq(V)]
      BY <1>1
      DEF IInv, BP!IInv, BP!TypeOK, BP!RuntimeTypeOK, UP!IInv, UP!TypeOK,
          UP!RuntimeTypeOK, PP!IInv, PP!TypeOK, PP!RuntimeTypeOK
    <3> QED
      BY <3>1, LenProperties
  <2>3. ~BucketsAreReady
    <3>1. ASSUME NEW o \in Buckets, B!Alive(o), B!Ready(B!Latest(o))
          PROVE  FALSE
      <4>1. Len(bucketLog[o]) \in 1 .. Len(bucketLog[o])
        BY <2>2, <3>1 DEF B!Alive, B!Exists
      <4>2. BP!Available \notin B!Latest(o).status.conditions
        BY <2>1, <4>1 DEF BP!NothingDone, BP!StatusesAreIn, B!Latest
      <4> QED
        BY <3>1, <4>2 DEF B!Ready, B!Available, BP!Available
    <3> QED
      BY <3>1 DEF BucketsAreReady
  <2>4. ~UsersAreSynced
    <3>1. ASSUME NEW o \in Accounts, U!Alive(o), U!Synced(U!Latest(o))
          PROVE  FALSE
      <4>1. Len(userLog[o]) \in 1 .. Len(userLog[o])
        BY <2>2, <3>1 DEF U!Alive, U!Exists
      <4>2. UP!Success \notin U!Latest(o).status.conditions
        BY <2>1, <4>1 DEF UP!NothingDone, UP!StatusesAreIn, U!Latest
      <4> QED
        BY <3>1, <4>2 DEF U!Synced, U!Success, UP!Success
    <3> QED
      BY <3>1 DEF UsersAreSynced
  <2>5. ~PoliciesAreSynced
    <3>1. ASSUME NEW o \in Policies, P!Alive(o), P!Synced(P!Latest(o))
          PROVE  FALSE
      <4>1. Len(policyLog[o]) \in 1 .. Len(policyLog[o])
        BY <2>2, <3>1 DEF P!Alive, P!Exists
      <4>2. PP!Success \notin P!Latest(o).status.conditions
        BY <2>1, <4>1 DEF PP!NothingDone, PP!StatusesAreIn, P!Latest
      <4> QED
        BY <3>1, <4>2 DEF P!Synced, P!Success, PP!Success
    <3> QED
      BY <3>1 DEF PoliciesAreSynced
  <2>6. ~KeysAreWritten
    BY <2>1 DEF UP!NothingDone, KeysAreWritten
  <2> QED
    BY <2>3, <2>4, <2>5, <2>6
<1>2. IInv => NothingWithoutCredentials
  BY <1>1 DEF NothingWithoutCredentials, BothProvided
<1> QED
  BY <1>2, ProviderInvariance, PTL
=============================================================================
