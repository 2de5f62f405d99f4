SPECIFICATION FairSpec
CONSTANTS
    Servers = {p, q}
    Primary = p
    Calls = {c1, c2}
    Requests <- AllRequests
    Subkeys <- SomeSubkeys
    Modulus = 3
    Text = Text
    None = None
    Coarse = FALSE
    MaxFaults = 1
    k1 = k1
    k2 = k2
INVARIANTS TypeOK ReplicasAgree
PROPERTIES ValueIsRegister Answered ReplicaNeverGoesBack
