SPECIFICATION Spec
CONSTANTS
    t1 = t1  t2 = t2
    c1 = c1  c2 = c2  c3 = c3
    None = None
    Tasks <- OneTask
    Hosts = {"h", "g"}
    Conns <- ThreeConns
    MaxKeys = 6
    SeqModulus = 16
    Configs <- OverTls
    GoodCredentials = TRUE
    BadSealStatus <- Unauthorized
    MaxRetries = 0
    MaxCalls = 3
    MaxFaults = 0
    MaxExpiries = 0
    MaxCancels = 0
INVARIANTS
    BoundToItsChannel
CHECK_DEADLOCK FALSE
