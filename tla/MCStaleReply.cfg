CONSTANTS
    Channels = {c1}
    NoChannel = none
    MaxPublished = 0
    Calls <- CommandCalls
    Transport = "tcp"
    Throws = FALSE
    Discipline = "idle"
    MaxCalls = 3
    MaxTurns = 3
    MaxHandles = 1
    MaxExtra = 1
SPECIFICATION Spec
CHECK_DEADLOCK FALSE
INVARIANTS ReplyMatching
