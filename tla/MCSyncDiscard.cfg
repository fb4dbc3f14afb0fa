\* The examples, and a program that throws the client away after a failure.
CONSTANTS
    Discipline = "discard"
    Transport = "tcp"
    Throws = TRUE
    MaxCalls = 4
    MaxTurns = 3
    MaxPipeline = 3
    MaxExtra = 1
    Programs = {"sync_set_get", "sync_timeout", "sync_pipeline", "sync_benchmark", "careful"}
SPECIFICATION FairProgSpec
CHECK_DEADLOCK FALSE
INVARIANTS TypeOK RepliesMatch QuietBetweenCalls ProgTypeOK VerdictMeansAnswered
PROPERTIES ImplementsRequestReply EveryCallReturns EveryResultSeen
