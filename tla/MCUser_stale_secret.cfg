\* A User is edited between the creation of its secret and its status update.
SPECIFICATION Spec
CONSTANTS
    Objects = {o1}
    Procs = {p1}
    SecretRefs = {r1}
    ForeignSecrets = {}
    NoName = NoName
    MaxDisturbances = 3
    Configs <- OneConfig
INVARIANTS
    SecretHoldsReportedKey
CHECK_DEADLOCK FALSE
