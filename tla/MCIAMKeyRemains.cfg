CONSTANTS
    Workers = {w1}
    Keys = {k1, k2, k3}
    Roles = {r1, r2, r3}
    Buckets <- MCBuckets
    BucketLists <- single
    NoBuckets <- none
    None = None
    Issue <- OneOf
    MaxTries = 2
    MaxFaults = 1
    MaxEdits = 0
SPECIFICATION Spec
CHECK_DEADLOCK FALSE
INVARIANT RemainsUntilKeyGone
