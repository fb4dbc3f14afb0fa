CONSTANTS
    Channels = {c1}
    NoChannel = none
    MaxPublished = 0
    Calls <- AllCalls
    Transport = "local"
    Throws = TRUE
    Discipline = "any"
    MaxCalls = 2
    MaxTurns = 3
    MaxHandles = 1
    MaxExtra = 2
SPECIFICATION Spec
CHECK_DEADLOCK FALSE
INVARIANTS TypeOK SingleWriter WireOrder HandlersInOrder
