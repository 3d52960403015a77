CONSTANTS
    None = None
    Full = Full
    Low = Low
    Speeds = {Full}
    GenModulus = 3
    Pipes = {}
    Required = 2
    MaxGlitches = 1
    ResetsFirst = FALSE
SPECIFICATION FairRootSpec
PROPERTIES
    EveryDeviceIsServed
CHECK_DEADLOCK TRUE
