SPECIFICATION FairSpec
CONSTANTS
    None = None
    Type = "Bulk"
    Mps = 2
    Interval = 1
    RetryLimit = 2
    Cancellable = TRUE
    Buffers = {0, 1, 3, 4}
    MaxPackets = 3
INVARIANTS
    ReadInv
PROPERTIES
    ImplementsStopAndWait
    ErrorSparesWholeReads
    RepetitionEnds
