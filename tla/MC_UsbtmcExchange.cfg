SPECIFICATION Spec
CONSTANTS
    Nothing = Nothing
    Mps = 4
    Header = 2
    Align = 2
    TagCount = 4
    Replies = {0, 1, 2, 5, 6}
    Capacities = {1, 6}
    MaxTags = 6
INVARIANTS
    Framing
PROPERTIES
    OwnBytes
