\* Two replicas at once (leader election is off by default), two names.
SPECIFICATION FairSpec
CONSTANTS
    Objects = {o1}
    Procs = {p1, p2}
    BucketNames = {n1, n2}
    NoName = NoName
    MaxDisturbances = 2
    Configs <- ThreeConfigs
    BucketTypes <- OnlyPrivate
    MissingBucketErrors <- PlainErrors
INVARIANTS
    TypeOK
    NeverForgotten
    Inv
PROPERTIES
    ReadyDescribesSpec
    ReadyWasWitnessed
    EventuallySettled
CHECK_DEADLOCK FALSE
