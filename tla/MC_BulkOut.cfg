SPECIFICATION FairSpec
CONSTANTS
    Type = "Bulk"
    Mps = 2
    Interval = 1
    RetryLimit = 2
    Cancellable = TRUE
    Lengths = {0, 1, 2, 3, 4}
    MaxPackets = 2
INVARIANTS
    WriteInv
PROPERTIES
    ImplementsStopAndWait
    OkMeansTransported
    EndsUnlessNaked
