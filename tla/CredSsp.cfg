SPECIFICATION FairSpec
CONSTANTS
    SeqModulus = 16
    MaxTlsRounds = 10
    Flights = {0, 2, 10}
    MaxFaults = 2
    MaxBreaks = 1
    None = None
INVARIANTS
    CredentialsNeedProof
    GoodLoginSucceeds
PROPERTIES
    Returns
CHECK_DEADLOCK FALSE
