---------------------------- MODULE MCKeyCommands ----------------------------
(* Small instances of KeyCommands for TLC. *)
EXTENDS KeyCommands

CONSTANTS k1, k2    \* subkeys

SomeSubkeys == {k1, k2}

Rq(op, val, old, subs) == [op |-> op, val |-> val, old |-> old, subs |-> subs]

\* One request of every kind, with values that collide.
AllRequests ==
    {Rq(op, 0, 0, {}) : op \in {"get", "del", "inc", "dec"}}
        \cup {Rq("set", 1, 0, {}), Rq("setall", Text, 0, {}), Rq("casinit", 0, 0, {}),
              Rq("casset", 1, 0, {}), Rq("setsubs", 0, 0, {k1})}
        \cup {Rq(op, 0, 0, {k1}) : op \in {"addsub", "delsub"}}

AddRequests == {Rq("addsub", 0, 0, {k}) : k \in Subkeys}
=============================================================================
