SPECIFICATION FairSpec
CONSTANTS
    Caller = {c1, c2}
    Limited = {c1, c2}
    Capacity = 1
    Refill = 2
    Unit = 3
    MaxTime = 7
    None = None
    MaxTotal = 3
    Base = 1
    Factor = 2
    MaxDelay = 2
    MaxRetries = 2
    Jitter = "full"
    Hint = {2}
    StartBy = 1
    MaxSends = 4
CHECK_DEADLOCK FALSE
INVARIANTS
    WindowBound
    WaitIsExact
    OneLateSend
    TokenPerCall
PROPERTIES
    EveryCallReturns
    HintOrDeadline
    GivesUpWhenSpent
