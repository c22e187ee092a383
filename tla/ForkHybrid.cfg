SPECIFICATION Spec
CONSTANTS
    Modes = {TRUE}
    LoopCount = 2
    MaxRuns = 4
    AllowStop = TRUE
INVARIANT HybridOfThisRun
