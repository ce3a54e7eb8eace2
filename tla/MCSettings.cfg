SPECIFICATION FairSpec
CONSTANTS
    Schemas <- MCSchemas
    Raws <- MCRaws
    Names = {"pg", "kafka-rest"}
    NullText = NullText
    byDefault = byDefault
    byUser = byUser
    Depth = 3
    MaxFaults = 1
    MaxEdits = 1
INVARIANTS
    DefaultsByPath
    UpToDateMeansSame
PROPERTY SettingsSettle
