SPECIFICATION Spec
CONSTANTS
    Words <- MCWords
    Traces <- MCTraces
    Class = 2
    CrashModes = {"FAULT_NONE", "FAULT_CRASH"}
    Seeds = 1
    MaxEntries = 2
    MaxRuns = 7
    CalCycles = 2
    CalCyclesLong = 3
    CalChances = 3
    KeepHang = 1
    KeepCrash = 2
    Generous = FALSE
INVARIANT TypeOK
INVARIANT VirginExact
INVARIANT NewCovExact
INVARIANT VariableExact
INVARIANT VarBytesExact
PROPERTY UniqueCrashRule
