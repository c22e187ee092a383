SPECIFICATION FairSpec
CONSTANTS
    MaxCases = 2
    MaxRestarts = 2
INVARIANT TypeOK
INVARIANT LossOnlyByRace
INVARIANT DuplicatesBounded
PROPERTY CaseExecuted
