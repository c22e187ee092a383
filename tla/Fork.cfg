SPECIFICATION FairSpec
CONSTANTS
    Modes = {TRUE, FALSE}
    LoopCount = 2
    MaxRuns = 4
    AllowStop = TRUE
INVARIANT TypeOK
INVARIANT ResultOfThisRun
INVARIANT ForkAfterReap
INVARIANT TraceOfThisRun
INVARIANT OrphansUnknown
PROPERTY RunReturns
PROPERTY ImplementsTargetRun
