\* The client is used on after failures, in any way.
CONSTANTS
    Discipline = "any"
    Transport = "tcp"
    Throws = FALSE
    MaxCalls = 4
    MaxTurns = 3
    MaxPipeline = 3
    MaxExtra = 2
SPECIFICATION Spec
CHECK_DEADLOCK FALSE
INVARIANTS AnswersInOrder ConnectedImpliesSocket
