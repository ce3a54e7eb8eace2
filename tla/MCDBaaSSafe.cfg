CONSTANTS
    Workers = {w1}
    z1 = z1
    z2 = z2
    Kinds = {"PostgreSQL", "MySQL", "Kafka", "OpenSearch", "Redis"}
    Specs <- MCMoves
    ExternalNames = {"name", "other"}
    Versions <- MCMajors
    None = None
    Default = Default
    MaxFaults = 2
    MaxEdits = 1
    MaxUpgrades = 1
SPECIFICATION Spec
SYMMETRY Symmetry
CHECK_DEADLOCK FALSE
INVARIANTS
    TypeOK
    DInv
    NoServiceLeft
    DesiredNotAhead
    ReadyMeansUp
PROPERTIES
    ImplementsLifecycle
