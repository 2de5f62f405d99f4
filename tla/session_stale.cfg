SPECIFICATION Spec
CONSTANTS
    t1 = t1
    Threads = {t1}
    MaxCalls = 2
    MaxMsgids = 2
    Offers <- MCOffers
INVARIANTS
    SuccessIsOwn
CHECK_DEADLOCK FALSE
