SPECIFICATION Spec
SYMMETRY CallSymmetry
CONSTANTS
    Calls = {c1, c2, c3, c4, c5}
    Keys = {k}
    None = None
    Concurrent = FALSE
    MaxFaults = 1
INVARIANTS
    TypeOK
    NoOrphans
    MarkerReplicated
PROPERTY
    IsQueue
