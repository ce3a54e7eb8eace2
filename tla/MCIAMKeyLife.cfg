CONSTANTS
    Workers = {w1}
    Keys = {k1, k2, k3}
    Roles = {r1, r2, r3}
    Buckets <- MCBuckets
    BucketLists <- double
    NoBuckets <- none
    None = None
    Issue <- OneOf
    MaxTries = 2
    MaxFaults = 2
    MaxEdits = 1
SPECIFICATION FairSpec
CHECK_DEADLOCK FALSE
INVARIANTS
    IInv
    GrantInv
    RoleOfKeyRecorded
    SecretOfKey
    DeletedMeansReleased
    ReadyMeansUsable
    BucketsGranted
    KeyOpensListed
PROPERTIES
    DeletionEnds
    ProvisioningEnds
