SPECIFICATION Spec
CONSTANTS
    Servers = {p, q}
    Primary = p
    Calls = {c1, c2}
    Requests <- AddRequests
    Subkeys <- SomeSubkeys
    Modulus = 3
    Text = Text
    None = None
    Coarse = FALSE
    MaxFaults = 0
    k1 = k1
    k2 = k2
INVARIANTS AddedSubkeysKept
