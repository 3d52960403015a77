SPECIFICATION Spec
CONSTANTS
    Type = "Bulk"
    Mps = 2
    Interval = 1
    RetryLimit = 3
    Cancellable = FALSE
    Lengths = {1, 2}
    MaxPackets = 2
PROPERTIES
    SuccessMeansTransported
