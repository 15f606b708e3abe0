SPECIFICATION FairSpec
CONSTANTS
    t1 = t1  t2 = t2
    c1 = c1  c2 = c2  c3 = c3
    None = None
    Tasks <- OneTask
    Hosts = {"h", "g"}
    Conns <- TwoConns
    MaxKeys = 5
    SeqModulus = 16
    Configs <- AutoModes
    GoodCredentials = TRUE
    BadSealStatus <- Unauthorized
    MaxRetries = 0
    MaxCalls = 4
    MaxFaults = 2
    MaxExpiries = 1
    MaxCancels = 1
INVARIANTS
    InStepAlone
PROPERTIES
    FailuresDoNotStick
CHECK_DEADLOCK FALSE
