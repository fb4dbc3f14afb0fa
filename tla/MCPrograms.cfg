\* Each of the examples, and a subscriber that comes and goes, with its client.
CONSTANTS
    Channels = {c1, c2}
    NoChannel = none
    Topic = c1
    Pattern = c2
    MaxPublished = 0
    Calls <- AllCalls
    Transport = "tcp"
    Throws = FALSE
    Discipline = "any"
    MaxCalls = 4
    MaxTurns = 5
    MaxHandles = 2
    MaxExtra = 1
    Workers = 2
    MaxExpiries = 1
    Programs <- AllPrograms
SPECIFICATION ProgSpec
CHECK_DEADLOCK FALSE
INVARIANTS ProgTypeOK ReconnectsOnce AssertionsHold NeverStranded SubscribersServed NeverPopsEmpty
VIEW Apart
