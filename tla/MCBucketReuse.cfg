CONSTANTS
    Workers = {w1}
    Resources = {r1, r2}
    Names = {n1}
    Policies = {"DeleteIfEmpty"}
    None = None
    MaxFaults = 1
    MaxRenames = 0
    MaxEdits = 0
    MaxDeletes = 1
    MaxUploads = 0
    MaxLosses = 0
SPECIFICATION Spec
SYMMETRY Symmetry
CHECK_DEADLOCK FALSE
INVARIANTS
    OneManager
