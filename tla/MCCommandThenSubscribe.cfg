CONSTANTS
    Channels = {c1}
    NoChannel = none
    MaxPublished = 0
    Calls <- MixedCalls
    Transport = "tcp"
    Throws = FALSE
    Discipline = "settled"
    MaxCalls = 2
    MaxTurns = 1
    MaxHandles = 1
    MaxExtra = 1
SPECIFICATION Spec
CHECK_DEADLOCK FALSE
INVARIANTS NoSpuriousProtocolError
