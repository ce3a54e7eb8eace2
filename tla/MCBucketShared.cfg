CONSTANTS
    Workers = {w1}
    Resources = {r1, r2}
    Names = {n1}
    Policies = {"DeleteIfEmpty", "DeleteAll"}
    None = None
    MaxFaults = 2
    MaxRenames = 0
    MaxEdits = 1
    MaxDeletes = 0
    MaxUploads = 0
    MaxLosses = 0
SPECIFICATION Spec
SYMMETRY Symmetry
CHECK_DEADLOCK FALSE
INVARIANTS
    OneManager
