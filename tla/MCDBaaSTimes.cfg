CONSTANTS
    Workers = {w1}
    z1 = z1
    z2 = z2
    Kinds = {"PostgreSQL", "MySQL"}
    Specs <- MCTimes
    ExternalNames = {"name"}
    Versions <- MCVersions
    None = None
    Default = Default
    MaxFaults = 0
    MaxEdits = 0
    MaxUpgrades = 0
SPECIFICATION FairSpec
CHECK_DEADLOCK FALSE
PROPERTIES
    EveryTimeSettles
