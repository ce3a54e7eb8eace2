CONSTANTS
    Workers = {w1}
    z1 = z1
    z2 = z2
    Kinds = {"PostgreSQL", "MySQL", "Kafka", "OpenSearch", "Redis"}
    Specs <- MCParameters
    ExternalNames = {"name"}
    Versions <- MCOneVersion
    None = None
    Default = Default
    MaxFaults = 1
    MaxEdits = 1
    MaxUpgrades = 0
SPECIFICATION FairSpec
CHECK_DEADLOCK FALSE
PROPERTIES
    Converges
    Settles
    DeletionEnds
    CurrentMeansApplied
    RequestsSuffice
