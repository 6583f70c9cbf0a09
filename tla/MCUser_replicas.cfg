\* Two replicas at once (leader election is off by default).
SPECIFICATION Spec
CONSTANTS
    Objects = {o1}
    Procs = {p1, p2}
    SecretRefs = {r1}
    ForeignSecrets = {}
    NoName = NoName
    MaxDisturbances = 4
    Configs <- OneConfig
SYMMETRY Symmetry
INVARIANTS
    TypeOK
    NeverForgotten
    Inv
PROPERTIES
    KeysAreReportedOnce
    KeyIsIssuedWithItsSecret
CHECK_DEADLOCK FALSE
