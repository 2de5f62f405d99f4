SPECIFICATION Spec
CONSTANTS
    Calls = {c1, c2, c3}
    Keys = {k}
    None = None
    Concurrent = TRUE
    MaxFaults = 0
INVARIANT
    PoppedOnce
