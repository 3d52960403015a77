SPECIFICATION FairSpec
CONSTANTS
    Mps = 2
    Sizes = {0, 2, 3, 5}
    Replies = {0, 2, 3, 5}
    Deadline = 6
    NoResponseLimit = 2
    BadResponseLimit = 2
INVARIANTS
    ControlInv
PROPERTIES
    OkMeansComplete
    TransferEnds
