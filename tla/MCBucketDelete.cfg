CONSTANTS
    Workers = {w1, w2}
    Resources = {r1}
    Names = {n1}
    Policies = {"DeleteAll"}
    None = None
    MaxFaults = 2
    MaxRenames = 0
    MaxEdits = 0
    MaxDeletes = 1
    MaxUploads = 1
    MaxLosses = 0
SPECIFICATION Spec
SYMMETRY Symmetry
CHECK_DEADLOCK FALSE
INVARIANTS
    BInv
    DeletedConditionsTrue
    NoBucketLeft
PROPERTIES
    BucketsKept
    ImplementsLifecycle
