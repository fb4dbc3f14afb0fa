\* examples/async_pubsub.cpp, its subscriber.
CONSTANTS
    Channels = {c1, c2}
    NoChannel = none
    Topic = c1
    Pattern = c2
    MaxPublished = 1
    Calls <- AllCalls
    Transport = "tcp"
    Throws = FALSE
    Discipline = "any"
    MaxCalls = 4
    MaxTurns = 4
    MaxHandles = 4
    MaxExtra = 1
    Workers = 1
    MaxExpiries = 1
    Programs = {"subscriber"}
SPECIFICATION ProgSpec
CHECK_DEADLOCK FALSE
INVARIANTS SubscribesWhenConnected
