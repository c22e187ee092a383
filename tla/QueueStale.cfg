SPECIFICATION Spec
CONSTANTS
    Stock = FALSE
    Switches = {TRUE}
    MaxEntries = 3
    SeedCounts = {1}
    MapSize = 2
    HybridMaps <- MCHybridMaps
    MaxHybridCount = 1
    FavFactors = {1, 2}
    CalChances = 2
    SkipPaths = 2
    RefModulus = 16
    VariableTraces = FALSE
INVARIANT WinnersFavored
