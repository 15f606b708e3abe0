SPECIFICATION FairSpec
CONSTANTS
    t1 = t1  t2 = t2
    c1 = c1  c2 = c2  c3 = c3
    None = None
    Tasks <- TwoTasks
    Hosts = {"h", "g"}
    Conns <- ThreeConns
    MaxKeys = 7
    SeqModulus = 16
    Configs <- AutoModes
    GoodCredentials = TRUE
    BadSealStatus <- AnyStatus
    MaxRetries = 1
    MaxCalls = 1
    MaxFaults = 1
    MaxExpiries = 1
    MaxCancels = 1
INVARIANTS
    TypeOK
    AtMostOncePerAttempt
    OkIsOwnReply
    SealedForItsHost
PROPERTIES
    EveryCallReturns
CHECK_DEADLOCK FALSE
