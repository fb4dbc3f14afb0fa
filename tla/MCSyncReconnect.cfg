\* After a failure the client is disconnected and connected again.
CONSTANTS
    Discipline = "reconnect"
    Transport = "tcp"
    Throws = FALSE
    MaxCalls = 3
    MaxTurns = 3
    MaxPipeline = 1
    MaxExtra = 1
SPECIFICATION Spec
CHECK_DEADLOCK FALSE
INVARIANT RepliesMatch
