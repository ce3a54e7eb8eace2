CONSTANTS
    Workers = {w1}
    Resources = {r1}
    Names = {n1, n2}
    Policies = {"DeleteIfEmpty", "DeleteAll"}
    None = None
    MaxFaults = 1
    MaxRenames = 1
    MaxEdits = 1
    MaxDeletes = 1
    MaxUploads = 1
    MaxLosses = 1
SPECIFICATION FairSpec
CHECK_DEADLOCK FALSE
INVARIANTS
    StatusNamesBucket
PROPERTIES
    ObjectsKept
    ProvisioningEnds
    DeletionEnds
    GoesWithoutCredentials
