SPECIFICATION FairSpec
CONSTANTS
    Slots = {s1, s2}
    Requests = {r1, r2}
    Bad = {r2}
    MinThreads = 1
    MaxThreads = 2
    ReduceIdle = 0
    ExitTries = 1
    Main = Main
    None = None
PROPERTIES
    HeadIsTaken
    PoolShrinks
    LoopEndStops
