SPECIFICATION Spec
CONSTANTS
    w1 = w1  w2 = w2
    None = None
    Workers <- TwoWorkers
    Special <- Reserved
    Cfg <- Configuration
    Configs <- Servers
    MaxRetries = 1
    StrictUri = TRUE
    ShellIds <- FourShells
    CommandIds <- FourCommands
    ProposedIds <- TwoProposals
    Budgets <- Scenarios
INVARIANTS
    ResultsAreTrue
    ShellsAreHeld
    InputArrives
    OutputIsComplete
SYMMETRY Symmetric
CHECK_DEADLOCK FALSE
