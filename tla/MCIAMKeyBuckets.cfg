CONSTANTS
    Workers = {w1}
    Keys = {k1, k2}
    Roles = {r1, r2}
    Buckets <- MCBuckets
    BucketLists <- double
    NoBuckets <- none
    None = None
    Issue <- OneOf
    MaxTries = 2
    MaxFaults = 0
    MaxEdits = 0
SPECIFICATION Spec
CHECK_DEADLOCK FALSE
INVARIANT EveryListedOpens
