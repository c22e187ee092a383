SPECIFICATION Spec
CONSTANTS
    ArithMax = 35
    Inputs <- MCInputs
    Cksums = {"same", "x", "y"}
    Same = "same"
    NoArith = {TRUE, FALSE}
    Extras <- MCExtras
    AutoFiles <- MCAutoFiles
    MinAuto = 2
    MaxAuto = 3
    UseAuto = 2
    MaxAutoExtras = 4
    EffBlock = 1
    MaxFile = 5
    EffMinLen = 4
    EffMaxPerc = 70
    MaxFuzz = 2
INVARIANT TypeOK
INVARIANT FilterSound
INVARIANT TokensAreRuns
INVARIANT BufferRestored
INVARIANT TokensTried
 
PROPERTY UsedSurvive
