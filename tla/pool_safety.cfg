SPECIFICATION Spec
SYMMETRY SlotSymmetry
CONSTANTS
    Slots = {s1, s2, s3, s4}
    Requests = {r1}
    Bad = {}
    MinThreads = 1
    MaxThreads = 3
    ReduceIdle = 0
    ExitTries = 1
    Main = Main
    None = None
INVARIANTS
    TypeOK
    ThreadBound
    FreeCountExact
    ExitNotMissed
    WorkerRemains
    NoRequestLost
    StopComplete
PROPERTY
    ReduceKeepsMinimum
