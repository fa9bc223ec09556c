SPECIFICATION FairSpec
CONSTANTS
    Url = {u1, u2}
    Key = {1, 2}
    Unreadable = Unreadable
CHECK_DEADLOCK FALSE
INVARIANTS
    ExpansionInv
    ExpandedRight
PROPERTIES
    Terminates
