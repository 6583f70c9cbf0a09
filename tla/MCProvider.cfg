\* Two Buckets that want one name, and a User whose secret may be the credentials.
SPECIFICATION FairSpec
CONSTANTS
    Buckets = {o1, o2}
    Accounts = {u1}
    Policies = {q1}
    BucketNames = {n1}
    BucketTypes <- OnlyPrivate
    MissingBucketErrors <- PlainErrors
    SecretRefs = {credentials}
    Credentials = credentials
    PolicyNames = {}
    AllowBuckets = {b1}
    RawPolicies = {q1}
    ValidJSON = {}
    Unset = Unset
    Proc = p1
    MaxDisturbances = 3
    NoName = NoName
INVARIANTS
    TypeOK
    NothingWithoutCredentials
PROPERTIES
    AllSettle
CHECK_DEADLOCK FALSE
