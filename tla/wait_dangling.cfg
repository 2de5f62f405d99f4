SPECIFICATION Spec
CONSTANTS
    c1 = c1
    c2 = c2
    c3 = c3
    k1 = k1
    k2 = k2
    Commands = {c1, c2, c3}
    Keys = {k1, k2}
    KeyOf <- KeyOfShared
    MaxErrors = 0
    MaxAnswers = 1
    None = None
INVARIANT
    FoundIsWaiting
