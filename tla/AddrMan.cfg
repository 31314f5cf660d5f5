SPECIFICATION AddrManSpec
CONSTANTS
    Addr = {"a1", "a2", "a3", "a4"}
    Source = {"s1", "s2"}
    NoSource = NoSource
    NewBucket = {1, 2}
    TriedBucket = {1, 2}
    GetNewBucket <- MCGetNewBucket
    GetTriedBucket <- MCGetTriedBucket
    NEW_BUCKET_SIZE = 2
    TRIED_BUCKET_SIZE = 1
    NEW_BUCKETS_PER_ADDRESS = 2
INVARIANTS
    Check
    BucketsBounded
PROPERTIES
    TriedNotDeleted
    RestartRestores
