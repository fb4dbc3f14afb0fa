CONSTANTS
    Channels = {c1}
    NoChannel = none
    MaxPublished = 2
    Calls <- SingleShotCalls
    Transport = "tcp"
    Throws = FALSE
    Discipline = "settled"
    MaxCalls = 3
    MaxTurns = 1
    MaxHandles = 2
    MaxExtra = 1
SPECIFICATION Spec
CHECK_DEADLOCK FALSE
INVARIANTS NoMissedMessage MessagesInOrder
