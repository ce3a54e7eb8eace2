CONSTANTS
    Workers = {w1, w2}
    Keys = {k1, k2, k3}
    Roles = {r1, r2, r3}
    Buckets <- MCBuckets
    BucketLists <- single
    NoBuckets <- none
    None = None
    Issue <- OneOf
    MaxTries = 2
    MaxFaults = 1
    MaxEdits = 0
SPECIFICATION Spec
SYMMETRY Symmetry
CHECK_DEADLOCK FALSE
INVARIANTS
    TypeOK
    OneKey
    KeyRecorded
    OneCreator
PROPERTIES
    ImplementsLifecycle
