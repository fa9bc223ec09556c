SPECIFICATION FairSpec
CONSTANTS
    MaxMs = 5
    MaxTime = 3
    MaxPolls = 6
    Hint = {0, 2, 5}
    DefaultMs = 1
    None = None
CHECK_DEADLOCK FALSE
INVARIANTS
    IInv
    OutcomeIsHonest
    GivesUpWhenSpent
PROPERTIES
    EveryShareReturns
