SPECIFICATION Spec
CONSTANTS
    t1 = t1
    Threads = {t1}
    MaxCalls = 2
    MaxMsgids = 2
    Offers <- MCOffers
INVARIANTS
    TypeOK
    AlienOnlyAfterTimeout
    TrueMeansServed
    MsgidsAccounted
    CodeIsOwn
    RequestUnderstood
PROPERTIES
    EveryCallReturns
CHECK_DEADLOCK FALSE
