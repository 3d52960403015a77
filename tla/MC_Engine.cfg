CONSTANTS
    Capacity = 2
    FifoDepth = 2
    MaxLength = 7
    PrefixCrc = FALSE
    Ms = 3
    ResetTicks = 4
    RecoveryTicks = 2
    FrameModulus = 4
    MaxTime = 21
SPECIFICATION EngineSpec
INVARIANTS
    ReceiveInv
    ReportsAnswer
    HandshakeIsSeen
    FrameInv
PROPERTIES
    NoBurst
