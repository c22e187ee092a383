SPECIFICATION FairSpec
CONSTANTS
    Stock = FALSE
    Switches = {TRUE, FALSE}
    MaxEntries = 2
    SeedCounts = {1}
    MapSize = 2
    HybridMaps <- MCHybridMaps
    MaxHybridCount = 1
    FavFactors = {1}
    CalChances = 2
    SkipPaths = 1
    RefModulus = 16
    VariableTraces = TRUE
PROPERTY EntriesFuzzed
