SPECIFICATION HostSpec
CONSTANTS
    MaxHandle = 2
    Value = {w1, w2}
    None = None
    Thread = {main, other}
    Owner = main
    MaxArguments = 1
SYMMETRY Interchangeable
INVARIANTS
    ReturnsOwn
    BuffersOwned
PROPERTIES
    ReusedLast
