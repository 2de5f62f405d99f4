------------------------- MODULE MCCompositeCommands -------------------------
(* A small instance of CompositeCommands: P lists K, and K may list P; N is *)
(* the new name.  Two clients make calls that meet on these keys.          *)
EXTENDS CompositeCommands

CONSTANTS P, K, N, c1, c2

Listing(subs) == [k \in Keys |-> CASE k = P -> [val |-> P, subs |-> {K}]
                                   [] k = K -> [val |-> K, subs |-> subs]
                                   [] k = N -> Absent]

MCStores == {Listing({}), Listing({P})}

MCOffers(c) ==
    IF c = c1
    THEN {Call("ren", K, N, P), Call("ren", K, K, P), Call("addsub", P, N, None), Call("delsub", P, K, None), Call("del", P, None, None)}
    ELSE {Call("ren", N, K, P), Call("ren", K, N, P), Call("set", K, None, None)}

MCCallsOf(c) == 1
=============================================================================
