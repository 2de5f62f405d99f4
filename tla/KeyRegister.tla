----------------------------- MODULE KeyRegister -----------------------------
(***************************************************************************)
(* What the commands on one key promise about its value: each takes effect *)
(* at one moment, on the value the key has at that moment.  A compare and  *)
(* swap changes the value it compared with, an increment the value it      *)
(* incremented, and no update comes in between.                            *)
(*                                                                         *)
(* The subkeys of the key are not promised this (see KeyCommands): here a  *)
(* command on them has some outcome and leaves the value alone.            *)
(***************************************************************************)
EXTENDS Integers

CONSTANTS
    Calls,      \* the commands that are executed
    Requests,   \* what they may ask for: records with op, val, old and subs
    Values,     \* what the key may hold
    Modulus,    \* numbers are 0..Modulus - 1, as wide as the stored value is
    None        \* no value, no request, no outcome

VARIABLES
    value,      \* the value of the key
    asked,      \* the request of each command
    outcome     \* its outcome, from the moment it takes effect

Numbers == 0..Modulus - 1

Outcome(code, val) == [code |-> code, val |-> val]
Success == Outcome("success", None)

Init ==
    /\ value \in Values \cup {None}
    /\ asked = [c \in Calls |-> None]
    /\ outcome = [c \in Calls |-> None]

Ask(c, rq) ==
    /\ asked[c] = None
    /\ asked' = [asked EXCEPT ![c] = rq]
    /\ UNCHANGED <<value, outcome>>

\* A command takes effect: it leaves v behind and answers o.
Effect(c, v, o) ==
    /\ asked[c] # None /\ outcome[c] = None
    /\ value' = v
    /\ outcome' = [outcome EXCEPT ![c] = o]
    /\ UNCHANGED asked

Get(c) ==
    /\ asked[c] # None /\ asked[c].op = "get"
    /\ Effect(c, value, Outcome(IF value = None THEN "nodata" ELSE "success", value))

Set(c) ==
    /\ asked[c] # None /\ asked[c].op \in {"set", "setall", "casinit"}
    /\ Effect(c, asked[c].val, Success)

Delete(c) ==
    /\ asked[c] # None /\ asked[c].op = "del"
    /\ Effect(c, None, Success)

CompareAndSwap(c) ==
    /\ asked[c] # None /\ asked[c].op = "casset"
    /\ Effect(c, IF value = asked[c].old /\ value # None THEN asked[c].val ELSE value,
                 IF value = None THEN Outcome("nodata", None)
                 ELSE IF value # asked[c].old THEN Outcome("notsameval", None) ELSE Success)

\* The neighbours of a number; the ends of the range are neighbours too.
Neighbour(op, n) == IF op = "inc" THEN (n + 1) % Modulus ELSE (n - 1) % Modulus

Count(c) ==
    /\ asked[c] # None /\ asked[c].op \in {"inc", "dec"}
    /\ IF value \in Numbers
       THEN Effect(c, Neighbour(asked[c].op, value), Success)
       ELSE Effect(c, value, Outcome(IF value = None THEN "nodata" ELSE "notsamedatatype", None))

ChangeSubkeys(c) ==
    /\ asked[c] # None /\ asked[c].op \in {"setsubs", "addsub", "delsub"}
    /\ Effect(c, value, Success)

\* A command may fail instead: it says so, and leaves the value alone.
Failures == {"nodata", "setval", "setall", "delkey", "setskeylist", "addskeylist", "delskeylist",
             "internal"}

Fail(c) == \E code \in Failures : Effect(c, value, Outcome(code, None))

Next ==
    \E c \in Calls :
        \/ \E rq \in Requests : Ask(c, rq)
        \/ Get(c) \/ Set(c) \/ Delete(c) \/ CompareAndSwap(c) \/ Count(c) \/ ChangeSubkeys(c) \/ Fail(c)

Spec == Init /\ [][Next]_<<value, asked, outcome>>
=============================================================================
