# Provider Backblaze in TLA+

A verification project for the Crossplane provider in this repository: what its
controllers do to Kubernetes objects and to Backblaze B2 when caches are stale,
processes crash, answers are lost and users change things meanwhile. TLC checks
small instances; TLAPS proves the main results for every value of the constants.

## The system

| Part | State | Operations | Talks to |
|---|---|---|---|
| Bucket controller (`internal/controller/bucket`) | none of its own: a Bucket's status, B2's buckets | `Reconcile`: Get, client, `BucketExists`, `CreateBucket`, `Status().Update` | API server through a cache, B2 |
| User controller (`internal/controller/user`) | a User's status, the secret it names | `Reconcile`, `createApplicationKey` (simulated), `writeSecret`, `handleDeletion`, `deleteSecret` | API server |
| Policy controller (`internal/controller/policy`) | a Policy's status | `Reconcile`, `createPolicy` (simulated), `handleDeletion` (does nothing) | API server |
| Credentials (`clients.GetProviderConfig`, `NewBackblazeClient`, `getBackblazeClient` x 3) | ProviderConfig and its secret, owned by users | read at every reconcile | cache |
| S3 client (`internal/clients`) | none | bucket requests, `DeleteAllObjectsInBucket`, bucket policies | B2's S3 API |
| B2 native client (`internal/clients`) | cached authorization | `authorizeAccount`, create / delete / find an application key | B2's native API |
| Runtime (controller-runtime, API server) | versions of objects, cache, work queue, timers | watch, resync, restart, optimistic concurrency | everything above |
| ProviderConfig usage controller | - | never registered: `controller.Setup` does not call it | - |
| API types, tracing, features, version | - | - | - |

How they interact: a worker takes a name from the queue, reads the object **from
the cache**, calls outside services one by one with nothing locked, and stores
the **status** of its copy with the resource version it has read. Each call is a
moment at which a user, another replica, B2 or a crash can come between. Nothing
is scheduled but by a watch event, an error, or `RequeueAfter`; the watch of
ProviderConfig has no handler at all.

What is hard, and what correctness means:

* **Stale reads**: a status must be true of the spec it is stored beside
  (`ReadyDescribesSpec`, `RecordsFollowTheSpec`), a key must not be reported
  twice, nor one be handed out that no User asked for (`KeysAreReportedOnce`), a
  record must not mix generations (`RecordIsOfOneGeneration`).
* **Several writes, no transaction**: B2 then status; secret then status
  (`ReadyWasWitnessed`, `KeyIsIssuedWithItsSecret`).
* **Retries only where the code asks for them**: no object is ever dropped
  (`NeverForgotten`), and all of them settle (`EventuallySettled`).
* **Deletion by name, without finalizers**, carried out late
  (`LiveUsersKeepTheirSecret`) or swallowed when it fails
  (`HeldUsersLoseTheirSecret`).
* **Lists read in pages while they change** (`CallsAreAtomic`,
  `EverythingIsDeleted`).
* **Requests that are repeated, calls that follow each other** while others act
  (`AnswersWereTrue`), resources that are held or kept too long
  (`ConnectionsAreBounded`, `OutagesEnd`).
* **Three controllers over one set of credentials**, one of which writes and
  deletes secrets (`NothingWithoutCredentials`, `AllSettle`).

`PROJECT.json` lists every hazard at its line with the properties that cover it.

## Modules

| Module | What it is |
|---|---|
| `ControllerRuntime` | API server, cache, queue, restart; extended by the controllers |
| `ProviderCredentials` | when a reconciler gets a client |
| `BucketController`, `UserController`, `PolicyController` | one reconciler each, with its users and the services behind it |
| `Provider` | the three controllers in one process, over the same secrets and credentials |
| `KeyLedger` | abstract specification of reporting and handing out keys; `UserController` implements it |
| `ApplicationKeys` | the B2 native client and the key service |
| `KeyDirectory` | abstract specification of its methods: atomic; `ApplicationKeys` implements it |
| `EmptyBucket` | `DeleteAllObjectsInBucket` against other clients |
| `S3Client` | all methods of the S3 client about one bucket; extends `EmptyBucket` |
| `RuntimeLemmas` | facts about `ControllerRuntime` the proofs share |
| `KeyOrder` | facts about pages of keys that are listed in order |
| `BucketController_proofs`, `UserController_proofs`, `PolicyController_proofs`, `Provider_proofs`, `ApplicationKeys_proofs`, `S3Client_proofs` | the theorems about the module each is named after (`EmptyBucket` with `S3Client`) |
| `MC*` | instances for TLC |

### The runtime

`log[o]` is the sequence of versions of object `o` the API server has stored; an
index is a resource version. Deletion appends a tombstone; creating the name
again starts a new `uid`. `seen[p][o]` is the version the cache of process `p`
holds, `queue[p]` what its work queue holds *or a running timer will put there*,
`work[p]` the reconcile in progress with the version it has read and its copy.
There is one worker per controller and process (`MaxConcurrentReconciles` is not
passed on by `Setup*`). `StatusUpdate` is `r.Client.Status().Update`: it takes
effect if and only if the copy's resource version is current, and stores nothing
but the status. `Restart` loses queue, timers and work, and lists the objects,
from a list that may be older than what the process had seen before.

Users, faults, crashes, outside changes and clock ticks draw on one `budget`,
which starts at `MaxDisturbances`; the steps of the provider and of the watch
cost nothing. The histories TLC sees are therefore all those with at most that
many disturbances, in any order and at any point; the proofs have no bound but
that it is a natural number.

### The controllers

`StartReconcile` is everything up to the first call that leaves the process,
`HeadBucket`, `CreateBucket`, `CreateSecret`, `DeleteSecret` are one call each
with the code that follows it up to the next, `UpdateStatus` is the last call
and the return. Each call may fail before or after it took effect; getting a
client, which calls no one, may fail without a reason as well
(`LoadDefaultConfig`). Whether B2 accepts the keys of a client (`Accepted`) shows
in the first request only: with keys it refuses, the Bucket controller goes
through `HeadRefused`. The
`PolicyController` calls no one but the API server. `witnessed` and `written`
are history variables: what was ours at some moment of a reconcile, and which
secrets were ever created.

Abstractions: a policy document is what it was made from; a key, its ID and a
policy ID are functions of the generation, which stands for them; conditions
have no time and no message, but the same status stored in a later second counts
as a new version (from the budget); the delays (10 s, 1 m, 5 m, back-off) only
end; a bucket is its owner and type; `config` is what the caches hold of the
ProviderConfig and its secret.

Assumption: objects decode with their metadata as they do under the fake client
of the tests, although `ObjectMeta` is tagged `json:",inline"` without the name
`metadata`.

`KeyLedger` speaks of two things. What a status *reports*: an incarnation names one
key, once, that of its current generation, and never during deletion. And what is
*handed out* in secrets: only keys of generations that the User lived through
before its deletion began. The second is weaker because the code is: a worker with
an old copy may create a secret late, even while the User is being deleted, and one
incarnation may be given several keys (see "The models also show these").

### The provider

`Provider` instantiates the three controllers with variables of their own for
log, cache, queue and work, as `controller.Setup` registers them with one
manager. They share the budget, `config` and the process: `Restart` is the
restart of all three. `config` is no longer changed at will: `installed` and the
secret `Credentials` are what the API server has, and the caches follow each of
the two in a step of its own (`Watch`), skipping versions but never the last.
`secrets` is the variable of the User controller, so a User whose
`writeSecretToRef` is the credentials secret meets, recreates or deletes it. The
keys people put there are those of our account; the key of a User is simulated, so
credentials that a User has written make a client that B2 refuses (`Actual`), and
Buckets then settle at `CheckError`.
`provided` remembers what people have ever put in place; that both were once
there at the same time is not needed, as the two caches are not of one moment.

### The B2 client

`ApplicationKeys` makes a request and its answer one step, at the moment the
service acts. The service lists keys in the order of their IDs and names the
first key of the next page. One client is used by one goroutine at a time: every
reconcile makes its own. Hours pass between calls only, as a request (of one
page) is cut off after 30 s, and a lookup that takes hours would need thousands
of pages. The service may stop accepting a token early (`Revoke`): the client
keeps it until its age says otherwise, so calls fail; `OutagesEnd` says that this
ends for a client that stays in use (`StaysInUse`, part of the property). That
the token a 200 answer of `b2_authorize_account` carries is one the service
accepts is assumed. `call.open` counts the bodies that the `defer` in the loop
leaves open.

`EmptyBucket` keeps, beside what is stored, the objects that have been there
since before the call. A bucket of B2 keeps the versions of its files: `stored`
is what is listed, `hidden` says whether there are versions that are not, which
deletions without a version and uploads over an old object leave behind, and
which lifecycle rules or people may `Purge`. "Deleted" means no longer listed.
B2 deletes no bucket that holds versions of files, hidden ones included.
`S3Client` extends it with the methods of one request, called in any order about
one bucket, which is missing, ours or somebody else's; `bucket`, `policy` and
the objects change under the calls. The AWS SDK, which `NewBackblazeClient`
leaves at its defaults, sends a request whose answer is lost again, up to three
times (`SendAgain`, `DeleteAgain`), so one call may act more than once. It
returns error codes plainly or wrapped in a longer text (`Refused`), and
`ErrorOf` compares as the code does. `moments` is history: what was
true during the call. Of a bucket policy only its presence is
kept; the region is left out.

## Runs

`tlc -config X.cfg MCx`.

| Run (configuration) | Instance | Shows |
|---|---|---|
| `bucket_replicas` | 1 Bucket, 2 replicas, 2 names, credentials that come, go and are refused, 2 disturbances | no Bucket is forgotten; Ready is witnessed and about the spec; the inductive invariant; the loser of a race settles too |
| `user_replicas` | 1 User, 2 replicas, 4 disturbances | the ledger is implemented; the update that reports a key comes with its secret or with CreateError; the inductive invariant |
| `user_lifecycle` | 1 User, 2 secret names of which one is taken, 1 replica, 4 disturbances | held Users lose their secret; Users settle |
| `policy_lifecycle` (`MCPolicy.cfg`) | 1 Policy with parameters of every kind, 1 replica, 3 disturbances | a record is of one valid generation of this Policy, and no old cache overwrites it; Policies are not forgotten and settle |
| `provider` (`MCProvider.cfg`) | 2 Buckets and 1 bucket name, 1 User with the credentials secret, 1 Policy, 3 disturbances, credentials in place or not | nothing without credentials; all settle by the credentials there are, competitors for one name included, be the credentials a User's that B2 refuses |
| `keys` (`MCKeys.cfg`) | 5 keys, pages of 2 | calls are atomic and return; tokens are valid; lookups hold a bounded number of connections; outages end |
| `s3_client` (`MCS3.cfg`) | 5 objects, pages of 2, 3 attempts per request | answers were true; emptying a bucket misses no object; every call returns |

Runs that are expected to be violated, each with a finding that quotes what the
repository says:

| Run | What the code does |
|---|---|
| `bucket_sdk_errors` | never recognises the SDK's "not found", so never creates a bucket |
| `user_stale_secret` | Synced with another key in the secret than in the status |
| `user_late_deletion` | one replica deletes, for a User that is gone, the secret the other has made for its successor |
| `user_unwritten_key` | CreateError is stored with the key ID, which the next reconcile takes for a key that exists: Synced, with the key written nowhere |
| `empty_partial` | ignores the per-key errors of `DeleteObjects` |

The models also show these, for which there is no run:

* Synced replaces Ready, and so does every other condition: `SetConditions`
  (`user_types.go:88`) replaces the list, so no User or Policy is ever Ready.
* A User may be given several keys: when `writeSecretToRef` is edited between
  the creation of the secret and the status update, the update conflicts and the
  next reconcile makes another key, in the other secret; the first one stays.
* `deleteSecret` deletes whatever has the name in `writeSecretToRef`, the secret
  of another User included.
* A Policy whose `allowBucket` or `rawPolicy` is edited after its record was made
  stays Synced with the old document, also when it has both now and would be
  invalid.
* A bucket that was emptied by `DeleteAllObjectsInBucket`, and that nobody else
  touches, is refused by `DeleteBucket`: the objects were named without their
  versions (`backblaze.go:258-259`) and are only hidden. What `bucket_types.go:32`
  promises, "deletes all objects in the bucket before deleting the bucket", the
  two calls cannot do.
* Deleting a Bucket never deletes its bucket (`examples/bucket.yaml:49` says it
  does); the external name set at `bucket.go:131` is not stored by
  `Status().Update`; `bucketType` is not passed on by `CreateBucket`.
* The secret of a User that no finalizer holds stays when the User goes.
* A User whose secret could not be created is told so once, and
  `EventuallySettled` demands no verdict on it afterwards but that it is not about
  the client.

The passing bucket runs take the error texts `isNotFoundError` knows
(`PlainErrors`): what the controller does with a client that recognises a missing
bucket. `bucket_sdk_errors` takes the text the SDK gives.

**Bounds.** The interesting cases need two actors and few events: a reader with
an old cache, a writer, an edit, a crash. Two processes or two objects give the
actors; where there are two, 2 to 4 disturbances give the events (create and
edit; create, edit, delete, create again), and 3 or 4 where there is one. A
property of one process is not a weak one: its cache may be behind by any number
of versions. In `provider` three disturbances are a User
that is created and then held while it is deleted, with a Bucket to notice it; or
a deletion of the credentials, a User that recreates them from a stale cache and
a Bucket. Three attempts allow a request to act twice and its last answer to be
lost. Pages of two keys out of five give lookups of three pages with
changes before, in and behind the page. For the safety properties the proofs
remove the bounds.

**Deadlock** is not checked: when the budget is spent and nothing is left to do
the system may really stop.

**Symmetry** (of the two processes) is used in `user_replicas` only, which checks
safety alone.

**Fairness.** A worker finishes what it began (`WF` of the reconcile steps), the
watch delivers (`WF` of `Observe`), and `StartReconcile` is strongly fair for
each object: the FIFO queue reaches an object that is in it however often others
are added, but its turn comes between reconciles of others, when the worker is
free. Users additionally need `WF` of `Resync` (`cache.Options.SyncPeriod`, one
hour by default): it is what retries a deletion whose error was swallowed. No
disturbance is ever fair. `Provider` has the same, kind by kind, and `WF` of
`Watch`. In `ApplicationKeys` and `S3Client` the call goes on, and that a loop
might end by a failed request is not counted on, unless the token is refused or
the bucket is not ours any more.

## Proofs

Every safety property and every action property of the passing runs is a theorem,
and so are both refinements. They hold for all values of the constants that meet
the assumptions of the modules: names are not the empty name, the budget is a
natural number, B2 pages hold at least one key and keys are numbered in the order
they are listed, tokens are refreshed before they expire, there are attempts to
make; for `Provider`, what its three controllers assume (`ControllersCanRun`).

| Theorem | Says |
|---|---|
| `BucketController_proofs`: `TypeCorrectness`, `ClaimsAreEarned`, `NothingIsForgotten` | `Spec => []TypeOK`, `[]Inv`, `[]NeverForgotten` |
| `ReadyIsAboutTheSpec`, `ReadyIsWitnessed` | the two action properties of Ready |
| `UserController_proofs`: `TypeCorrectness`, `KeysAreEarned`, `NothingIsForgotten` | the same for Users |
| `KeysComeWithSecrets` | the action property of keys and secrets |
| `ImplementsLedger` | `Spec => KeysAreReportedOnce`: every step is a step of `KeyLedger` or a stutter |
| `PolicyController_proofs`: `PolicyTypes`, `PoliciesAreRemembered` | `Spec => []TypeOK`, `[]NeverForgotten` |
| `RecordsAreOfOneGeneration`, `RecordsAreOfTheSpec` | what a Policy's record holds, and that a status update keeps it or makes it that of the spec it is stored beside |
| `Provider_proofs`: `ProviderTypes`, `NoCredentialsNothingDone` | `Spec => []TypeOK`, `[]NothingWithoutCredentials` |
| `ApplicationKeys_proofs`: `CallTypes`, `TokensValid`, `ConnectionsBounded` | `Spec => []TypeOK`, `[]TokensAreValid`, `[]ConnectionsAreBounded` |
| `ImplementsDirectory` | `Spec => CallsAreAtomic`: every step is a step of `KeyDirectory` or a stutter |
| `S3Client_proofs`: `ClientTypes`, `AnswersTrue` | `ClientSpec => []ClientTypeOK`, `AnswersWereTrue` |
| `CallsDeleteEverything`, `ClientDeletesEverything` | `[]EverythingIsDeleted` (of `EmptyBucket`, of `S3Client`), if no deletion of a single key fails |

The hypothesis of the last two, `~DeletesFail`, is needed: it is what run
`empty_partial` is about, in which the code returns nil with objects left.

**Controllers.** `TypeOK /\ Inv /\ NeverForgotten` is inductive; none of its parts
is alone. `CachesAreBehind` keeps indices in the log. `WorkIsRooted` says that a
copy differs from a stored version of a living object only where the reconciler
may change it, and that if the cache has moved on since, the object is queued
again: that is what a status update refused for its resource version needs to
leave nothing behind. `ClaimIsEarned` (`KeyIsEarned`) says what a reconcile has
already earned for the status it is going to store. When the server accepts an
update, the version read is the current one, and the claim about the copy
becomes one about the stored object: the action properties and the refinement
follow. `RuntimeLemmas` states what each step of the runtime does to the logs
once, and the controllers' proofs cite it per action.

**Policies.** A stored record may be of an older generation than the latest one, so
the invariant speaks of all versions: each that was ever stored of a living Policy
has no record, or that of some version in its own log (`Accounted`), and so has the
copy in a worker's hands, whose record moreover is that of the version it was read
from or was made from the spec of that version (`CopyIsAccounted`). Without the second
part an accepted update could store anything.

**The ledger.** `KeyIsEarned` says that the key a copy carries to `CreateSecret` is
that of the generation it was read at, and `WorkIsRooted` that this is the generation
of a stored version that was alive and not being deleted: so the key handed out is of
a generation in `lived`, however old the copy is. A status update that reports a key
is accepted only for the latest version, which is then live and has none.

**The provider.** `Provider_proofs` instantiates the proofs of the controllers
as `Provider` instantiates the controllers, and uses their lemmas: a step of the
process is a step of one of them, of all three (`Restart`), or one that each of
them survives because it changes only the budget, the secrets or the credentials
(`KindsOfSteps`). What is new is that neither the server nor the caches hold
more of the credentials, accepted or refused, than people have put there
(`NoMoreThanProvided`), and that until they have put both in place no stored
status, no copy in a worker's hands and no secret owes anything to a client
(`NothingDone`). One is not inductive without the other: a User that had its
secret written would provide the credentials itself.

**The native client.** A lookup reads page after page while keys come and go. That
pages are full except the last bounds the connections; that no key lies between a
page and the key it names as next makes the lookup atomic: it takes effect when the
page is read that has gone past the key, or holds it.

**The S3 client.** `EverythingIsDeleted` speaks of the end of a call. What is
inductive is `NothingIsPassedOver`: whatever has been there since before the call
lies behind the continuation token, or is in the page just read, or is listed after
it. It needs that a page is a prefix of the list, and survives that requests are
sent again after they were obeyed. Of the answers, every request that ends a call
is shown to justify what it returns by the bucket of that moment.

The inductive invariants (`IInv`, `ClientInv`, `AnswerInv`) were checked
by TLC on the instances of the runs as well.

**Only model-checked**: liveness under fairness, which is out of TLAPS's reach:
`EventuallySettled` of the three controllers, `HeldUsersLoseTheirSecret`,
`AllSettle`, `CallsReturn` of both clients, and `OutagesEnd`.

## Not modelled

* Start-up (`cmd/provider/main.go`: flags, logging, health checks) and
  `internal/tracing`: a sequence of set-up steps before anything runs; nothing
  starts a span, no feature flag is read. Leader election is off by default; what
  two processes do without it is modelled.
* The ProviderConfig usage controller (`internal/controller/config`): never
  registered, so none of it runs.
* `GetExternalName` and `SetExternalName` of the client package: no caller (the
  controller uses those of crossplane-runtime).
* Scheme registration, accessors, generated deep copies: no behaviour beyond the
  copies of objects that `log` and `work` hold.
* Fields no reconciler acts on: `ValidDurationInSeconds`, capabilities, CORS,
  lifecycle rules, region.
* Promises the code makes no attempt at, listed as hazards without a property:
  the bucket type, the external name, the deletion policy.

## Plan

Order: the Bucket controller first (the only one that changes B2), then Users
(two stores, secrets), then Policies, then the client's multi-request methods,
then the other methods of the S3 client and the composition of the three
controllers; then the theorems about each of them. All of these are in place.
Next:

1. An abstract specification of what `Provider` promises to the owner of the
   credentials, with `Provider` shown to implement it.
