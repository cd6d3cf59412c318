SPECIFICATION LiveSpec
CONSTANTS
    Pages = {p1}
    Forced = {f1}
    Asks = {a1, a2}
    Endpoints = {e1, e2}
    None = None
    GoodTTL = 2
    BadTTL = 1
    MaxClock = 2
INVARIANTS
    CacheAgreesWithClient
PROPERTIES
    SignedOnlyForVerified
    FailureIsCached
    EveryRequestEnds
CHECK_DEADLOCK FALSE
