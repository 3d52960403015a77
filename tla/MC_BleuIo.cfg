CONSTANTS
    PacketSize = 4
    Words <- SomeWords
    RxBytes = 3
    MaxResponse = 8
    MaxLine = 2
    Responses <- SomeResponses
    MaxCommands = 2
SPECIFICATION Spec
INVARIANTS
    ApplicationInv
PROPERTIES
    ImplementsChannel
    AnswersMatch
    SessionsEnd
CHECK_DEADLOCK FALSE
