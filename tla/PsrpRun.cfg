SPECIFICATION FairSpec
CONSTANTS
    Scripts <- MCScripts
    Outputs <- MCOutputs
    PoolPolls = 2
    Polls = 3
    MaxOutput = 2
    MaxOther = 1
    MaxRetries = 1
    MaxFailures = 2
    MayCancel = TRUE
INVARIANTS
    OkIsWholeOutput
    EndClosesShell
PROPERTIES
    RunReturns
CHECK_DEADLOCK FALSE
