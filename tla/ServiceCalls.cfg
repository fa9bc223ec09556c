SPECIFICATION CallSpec
CONSTANTS
    c1 = c1
    c2 = c2
    alice = alice
    bob = bob
    Caller = {c1, c2}
    Limited = {c1, c2}
    Capacity = 1
    Refill = 0
    Unit = 2
    MaxTime = 4
    None = None
    MaxTotal = 2
    Base = 1
    Factor = 2
    MaxDelay = 1
    MaxRetries = 1
    Jitter = "equal"
    Hint = {2}
    StartBy = 1
    MaxSends = 3
    Signer <- SignerValue
    Asked <- AskedValue
    HttpDate = HttpDate
    MaxSkew = 1
    Response <- ResponseValue
    Refusal <- RefusalValue
    MsPerSecond = 2
    MaxU32 = 5
CHECK_DEADLOCK FALSE
INVARIANTS
    FreshAndAsSigner
    CopiesShareNonce
PROPERTIES
    RefusedOnlyWhenStale
    OutcomeIsMeant
    EveryInvokeReturns
