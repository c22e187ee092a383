SPECIFICATION Spec
CONSTANTS
    Seeds = 1
    MaxCases = 2
    MaxStarts = 4
    AllowFresh = TRUE
INVARIANT TypeOK
INVARIANT KnownLossOnly
INVARIANT DetMarkTrue
INVARIANT QueueMatchesEntries
INVARIANT RefusalsKnown
INVARIANT TokensKept
