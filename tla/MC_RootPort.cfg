CONSTANTS
    None = None
    Full = Full
    Low = Low
    Speeds = {Full}
    GenModulus = 3
    Pipes = {}
    Required = 2
    MaxGlitches = 1
    ResetsFirst = TRUE
SPECIFICATION FairRootSpec
INVARIANTS
    RootInv
PROPERTIES
    DetachIsReal
    RemovalEndsSession
    DeviceIsServed
    FramesKeepComing
CHECK_DEADLOCK TRUE
