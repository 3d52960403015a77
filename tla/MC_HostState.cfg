CONSTANTS
    None = None
    Speeds = {full}
    GenModulus = 7
    Pipes = {p1}
    MaxAttaches = 2
    MaxOthers = 1
SPECIFICATION LiveSpec
INVARIANTS
    IInv
PROPERTIES
    OkOnlyWhileFresh
    FailedResetSparesNewConnection
    ImplementsContract
    RemovalIsDelivered
    StaleTransferEnds
    ResetEnds
CHECK_DEADLOCK TRUE
