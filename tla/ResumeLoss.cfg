SPECIFICATION Spec
CONSTANTS
    Seeds = 1
    MaxCases = 2
    MaxStarts = 3
    AllowFresh = FALSE
INVARIANT ResumeKeepsCases
