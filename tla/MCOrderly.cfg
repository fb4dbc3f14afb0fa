CONSTANTS
    Channels = {c1}
    NoChannel = none
    MaxPublished = 0
    Calls <- CommandCalls
    Transport = "tcp"
    Throws = FALSE
    Discipline = "settled"
    MaxCalls = 4
    MaxTurns = 5
    MaxHandles = 1
    MaxExtra = 1
SPECIFICATION FairSpec
CHECK_DEADLOCK FALSE
INVARIANTS ReplyMatching SingleReader ConnectedImpliesOpen NeverPopsEmpty NoSpuriousProtocolError
PROPERTIES ImplementsRequestReply EveryRequestAnswered LossReported
