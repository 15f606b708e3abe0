SPECIFICATION FairSpec
CONSTANTS
    Apis <- BothApis
    MaxChunks = 3
    Cap = 2
    MaxRetries = 1
    MaxLosses = 2
    MaxFaults = 1
    MayStayQuiet = TRUE
    MayCancel = TRUE
INVARIANTS
    GapsOnlyFromLostAnswers
    ResultIsTheCommands
    NothingLeftOnServer
    OneRunPerLoss
PROPERTIES
    RunReturns
CHECK_DEADLOCK FALSE
