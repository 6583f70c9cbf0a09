\* The name of the secret is taken.
SPECIFICATION Spec
CONSTANTS
    Objects = {o1}
    Procs = {p1}
    SecretRefs = {r1}
    ForeignSecrets = {r1}
    NoName = NoName
    MaxDisturbances = 1
    Configs <- OneConfig
INVARIANTS
    SyncedUsersHadASecret
CHECK_DEADLOCK FALSE
