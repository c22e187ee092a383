SPECIFICATION Spec
CONSTANTS
    Stock = TRUE
    Switches = {FALSE}
    MaxEntries = 3
    SeedCounts = {2}
    MapSize = 2
    HybridMaps <- MCHybridMaps
    MaxHybridCount = 0
    FavFactors = {1, 2}
    CalChances = 2
    SkipPaths = 2
    RefModulus = 16
    VariableTraces = FALSE
INVARIANT RefCountExact
INVARIANT WinnerSmallest
INVARIANT FavoredCoverSeen
