SPECIFICATION FairSpec
CONSTANTS
    ChunkSize = 2
    Sizes <- AnySize
    MaxTransfers = 2
    MaxRetries = 1
    MaxLosses = 2
    Absent = Absent
    Undecodable = Undecodable
INVARIANTS
    UploadIsFaithful
    DownloadIsFaithful
    NothingLeftUnlessError
    CommandLineFits
PROPERTIES
    TransferReturns
CHECK_DEADLOCK FALSE
