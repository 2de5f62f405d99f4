SPECIFICATION Spec
CONSTANTS
    P = P
    K = K
    N = N
    c1 = c1
    c2 = c2
    None = None
    Keys = {P, K, N}
    Clients = {c1, c2}
    InitStores <- MCStores
    Roots = {P}
    Offers <- MCOffers
    CallsOf <- MCCallsOf
    AllSafe = {TRUE, FALSE}
    MaxFaults = 1
INVARIANTS
    TypeOK
    RenKeepsValue
    ListsMatch
PROPERTIES
    SuccessIsComplete
    CallsEnd
CHECK_DEADLOCK FALSE
