\* The error text the AWS SDK really gives.
SPECIFICATION FairSpec
CONSTANTS
    Objects = {o1}
    Procs = {p1}
    BucketNames = {n1}
    NoName = NoName
    MaxDisturbances = 1
    Configs <- OneConfig
    BucketTypes <- OnlyPrivate
    MissingBucketErrors <- SDKErrors
PROPERTIES
    MissingBucketsAreCreated
CHECK_DEADLOCK FALSE
