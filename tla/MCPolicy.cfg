\* One process with a stale cache, parameters of every kind, credentials that
\* come and go.
SPECIFICATION FairSpec
CONSTANTS
    Objects = {o1}
    Procs = {p1}
    PolicyNames = {}
    Buckets = {b1}
    RawPolicies = {json, garbage}
    ValidJSON = {json}
    Unset = Unset
    NoName = NoName
    MaxDisturbances = 3
    Configs <- TwoConfigs
INVARIANTS
    TypeOK
    NeverForgotten
    RecordIsOfOneGeneration
PROPERTIES
    RecordsFollowTheSpec
    EventuallySettled
CHECK_DEADLOCK FALSE
