------------------------ MODULE ProviderCredentials ------------------------
(***************************************************************************)
(* How a reconciler gets its Backblaze client: getBackblazeClient of each  *)
(* controller reads the ProviderConfig, clients.GetProviderConfig the      *)
(* credentials secret it names, clients.NewBackblazeClient refuses empty   *)
(* keys.  The variable is what the caches hold of these two objects; both  *)
(* belong to the users, and no controller is told when they change:        *)
(* Watches(&ProviderConfig{}, handler.Funcs{}) has no handler.             *)
(***************************************************************************)
CONSTANT Configs   \* the credentials situations users may produce

VARIABLE config

\* found: a ProviderConfig of the referenced name (or "default") exists in
\* crossplane-system; source and secretRef are its fields; secret is what
\* the referenced secret contains: both keys, if it is "refused" or "complete",
\* and in the former case B2 does not accept them.
ConfigRecord ==
    [found : BOOLEAN, source : {"Secret", "Environment"}, secretRef : BOOLEAN,
     secret : {"missing", "noKeyID", "noKey", "emptyKeys", "refused", "complete"}]

ASSUME ConfigsAreRecords == Configs \subseteq ConfigRecord /\ Configs # {}

\* GetProviderConfig returns a Config: a secret is named, exists and has both
\* keys in its data.
HasCredentials(c) ==
    /\ c.source = "Secret"
    /\ c.secretRef
    /\ c.secret \in {"emptyKeys", "refused", "complete"}

\* NewBackblazeClient makes a client: it wants both keys to be non-empty.
NewBackblazeClient(c) == c.secret # "emptyKeys"

\* What every getBackblazeClient goes through: the ProviderConfig, the
\* credentials, the client.
ClientAvailable(c) ==
    /\ c.found
    /\ HasCredentials(c)
    /\ NewBackblazeClient(c)

\* B2 accepts the keys: only a request can tell.
Accepted(c) == c.secret # "refused"

\* The user creates, breaks, repairs or removes the ProviderConfig or its
\* secret.
ChangeConfig == config' \in Configs \ {config}
=============================================================================
