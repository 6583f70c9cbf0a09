\* One process; a User may be deleted and created again, and its secret may
\* be taken.
SPECIFICATION FairSpec
CONSTANTS
    Objects = {o1}
    Procs = {p1}
    SecretRefs = {r1, r2}
    ForeignSecrets = {r2}
    NoName = NoName
    MaxDisturbances = 4
    Configs <- TwoConfigs
PROPERTIES
    EventuallySettled
    HeldUsersLoseTheirSecret
CHECK_DEADLOCK FALSE
