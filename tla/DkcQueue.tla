------------------------------ MODULE DkcQueue ------------------------------
(***************************************************************************)
(* The queue commands QPUSH and QPOP of the k2hdkc server                  *)
(* (src/lib/k2hdkccomqpush.cc, k2hdkccomqpop.cc).  A queue is a marker key *)
(* and one key per element.  The marker names the first and the last       *)
(* element, an element names the one after it as its subkey.  The server   *)
(* of the marker executes the command; the element keys, and in a key      *)
(* queue the keys that hold the values, may be anywhere, so they are read  *)
(* and changed by nested commands to other servers.  The steps are not     *)
(* locked against those of other commands.                                 *)
(*                                                                         *)
(* An element is named by the command that pushes it: GetUniqKey never     *)
(* returns the same name twice.  Elements do not expire.  A nested command *)
(* takes effect at one moment, or never: that ADD_SUBKEYS does not is the  *)
(* subject of KeyCommands, and one that is executed after the caller has   *)
(* ceased to wait for it, when later steps have been taken, is left out    *)
(* (it could link or delete an element the queue has lost).  The marker    *)
(* (K2HLowOpsQueue, of K2HASH) is external; each call to it is atomic.     *)
(***************************************************************************)
EXTENDS Integers, FiniteSets, Sequences, SequencesExt

CONSTANTS
    Calls,       \* commands executed
    Keys,        \* keys for the values of a key queue
    None,        \* no element, key, request or outcome
    Concurrent,  \* whether a command may begin while another one is executed
    MaxFaults    \* bound on the steps that fail

ASSUME QueueAssumption ==
    /\ IsFiniteSet(Calls)
    /\ None \notin Calls \cup Keys \cup [op : {"push", "pop"}, key : Keys \cup {None}]
    /\ (Calls \cup {None}) \cap {"ok", "empty", "error"} = {}
    /\ Concurrent \in BOOLEAN
    /\ MaxFaults \in Nat

VARIABLES
    fifo,        \* how clients use the queue: fifo or lifo,
    keyqueue,    \* and with keys or without
    marker,      \* first and last element, and the time of the last change
    copy,        \* the marker at another server
    stored,      \* the elements whose key has a value
    subs,        \* the subkeys of each element
    held,        \* which push the value of each of Keys is from
    pc,          \* where each command is
    asked,       \* its request: "push" or "pop", with the key of a push
    qkey,        \* the element a pop has planned
    other,       \* pExKey of a push, pNextKey of a pop
    value,       \* the value a pop has read
    response,    \* what will be answered
    outcome,     \* what has been
    clock, ts,   \* the time, and the one a command gives to its replication
    net,         \* markers on their way to the other server
    faults,      \* steps that have failed
    changed      \* the commands that have changed the marker: history only

queueVars == <<marker, stored, subs, held>>
callVars  == <<asked, qkey, other, value>>
timeVars  == <<copy, clock, ts, net>>
vars == <<fifo, keyqueue, queueVars, callVars, pc, response, outcome, timeVars, faults, changed>>

Pcs == {"idle", "setkey", "setqkey", "exkey", "push", "chain",
        "plan", "next", "pop", "getval", "delqkey", "getkey", "delkey",
        "stamp", "replicate", "reply", "done"}

NoMarker == [top |-> None, bottom |-> None, mtime |-> 0]

Init ==
    /\ fifo \in BOOLEAN /\ keyqueue \in BOOLEAN
    /\ marker = NoMarker /\ copy = NoMarker
    /\ stored = {} /\ subs = [e \in Calls |-> {}]
    /\ held = [k \in Keys |-> None]
    /\ pc = [c \in Calls |-> "idle"]
    /\ asked = [c \in Calls |-> None]
    /\ qkey = [c \in Calls |-> None] /\ other = [c \in Calls |-> None]
    /\ value = [c \in Calls |-> None]
    /\ response = [c \in Calls |-> None] /\ outcome = [c \in Calls |-> None]
    /\ clock = 0 /\ ts = [c \in Calls |-> 0] /\ net = {}
    /\ faults = 0 /\ changed = {}

-----------------------------------------------------------------------------
(* K2HLowOpsQueue.                                                         *)

Goto(c, l) == pc' = [pc EXCEPT ![c] = l]
Stamped(top, bottom) == [top |-> top, bottom |-> bottom, mtime |-> clock']

\* Push makes e the last element (fifo) or the first one (lifo),
MarkerPush(e) ==
    Stamped(IF fifo /\ marker.top # None THEN marker.top ELSE e,
            IF ~fifo /\ marker.top # None THEN marker.bottom ELSE e)

\* Pop puts n in the place of the first one; without n the queue is empty.
MarkerPop(n) ==
    IF n = None THEN Stamped(None, None) ELSE Stamped(n, marker.bottom)

-----------------------------------------------------------------------------
(* QPUSH.                                                                  *)

MayBegin(c) ==
    /\ pc[c] = "idle"
    /\ Concurrent \/ \A d \in Calls : pc[d] \in {"idle", "done"}

\* [0] and [1]: is there a marker?  other is not None if there is one, until
\* [4] looks at it again.
ReceivePush(c, k) ==
    /\ MayBegin(c)
    /\ asked' = [asked EXCEPT ![c] = [op |-> "push", key |-> k]]
    /\ other' = [other EXCEPT ![c] = marker.top]
    /\ Goto(c, IF keyqueue THEN "setkey" ELSE "setqkey")
    /\ UNCHANGED <<fifo, keyqueue, queueVars, qkey, value, response, outcome, timeVars, faults, changed>>

\* [2]: SET of the key of a key queue.
SetKey(c) ==
    /\ pc[c] = "setkey"
    /\ held' = [held EXCEPT ![asked[c].key] = c]
    /\ Goto(c, "setqkey")
    /\ UNCHANGED <<fifo, keyqueue, marker, stored, subs, callVars, response, outcome, timeVars, faults, changed>>

\* [3]: SET of the element key, without subkeys.
SetQueueKey(c) ==
    /\ pc[c] = "setqkey"
    /\ stored' = stored \cup {c}
    /\ Goto(c, "exkey")
    /\ UNCHANGED <<fifo, keyqueue, marker, subs, held, callVars, response, outcome, timeVars, faults, changed>>

\* Mutant: the two ends of the queue confused.
GetExKeySwapped(c) ==
    /\ pc[c] = "exkey"
    /\ other' = [other EXCEPT ![c] = IF @ = None THEN None
                                     ELSE IF fifo THEN marker.top ELSE marker.bottom]
    /\ Goto(c, "push")
    /\ UNCHANGED <<fifo, keyqueue, queueVars, asked, qkey, value, response, outcome, timeVars, faults, changed>>

\* [4]: the element to link with the new one, if there was a marker at [0].
GetExKey(c) ==
    /\ pc[c] = "exkey"
    /\ other' = [other EXCEPT ![c] = IF @ = None THEN None
                                     ELSE IF fifo THEN marker.bottom ELSE marker.top]
    /\ Goto(c, "push")
    /\ UNCHANGED <<fifo, keyqueue, queueVars, asked, qkey, value, response, outcome, timeVars, faults, changed>>

\* If the marker cannot be read, at [0] or here, or the name not be copied, the
\* queue is taken for an empty one, and the new element will not be linked.
GetExKeyFails(c) ==
    /\ pc[c] = "exkey" /\ faults < MaxFaults
    /\ faults' = faults + 1
    /\ other' = [other EXCEPT ![c] = None]
    /\ Goto(c, "push")
    /\ UNCHANGED <<fifo, keyqueue, queueVars, asked, qkey, value, response, outcome, timeVars, changed>>

\* [5]: the marker.
Push(c) ==
    /\ pc[c] = "push"
    /\ changed' = changed \cup {c}
    /\ clock' = clock + 1
    /\ marker' = MarkerPush(c)
    /\ Goto(c, IF other[c] = None THEN "stamp" ELSE "chain")
    /\ UNCHANGED <<fifo, keyqueue, stored, subs, held, callVars, response, outcome, copy, ts, net, faults>>

\* [6]: ADD_SUBKEYS, of the new element to the last one (fifo) or of the first
\* one to the new element (lifo).
Linked(c) == IF fifo THEN [subs EXCEPT ![other[c]] = @ \cup {c}]
                     ELSE [subs EXCEPT ![c] = @ \cup {other[c]}]
Chain(c) ==
    /\ pc[c] = "chain"
    /\ subs' = Linked(c)
    /\ Goto(c, "stamp")
    /\ UNCHANGED <<fifo, keyqueue, marker, stored, held, callVars, response, outcome, timeVars, faults, changed>>

\* If that fails the name of the marker is freed, so nothing is replicated
\* (and a null name with its old length is hashed, which may end the process).
ChainFails(c) ==
    /\ pc[c] = "chain" /\ faults < MaxFaults
    /\ subs' \in {subs, Linked(c)}
    /\ faults' = faults + 1
    /\ response' = [response EXCEPT ![c] = "error"]
    /\ Goto(c, "reply")
    /\ UNCHANGED <<fifo, keyqueue, marker, stored, held, callVars, outcome, timeVars, changed>>

-----------------------------------------------------------------------------
(* QPOP.                                                                   *)

ReceivePop(c) ==
    /\ MayBegin(c)
    /\ asked' = [asked EXCEPT ![c] = [op |-> "pop", key |-> None]]
    /\ Goto(c, "plan")
    /\ UNCHANGED <<fifo, keyqueue, queueVars, qkey, other, value, response, outcome, timeVars, faults, changed>>

\* [2]: the element that will be popped, or an error if there is none.
PlanPop(c) ==
    /\ pc[c] = "plan"
    /\ IF marker.top = None
       THEN Goto(c, "reply") /\ response' = [response EXCEPT ![c] = "error"] /\ UNCHANGED qkey
       ELSE Goto(c, "next") /\ qkey' = [qkey EXCEPT ![c] = marker.top] /\ UNCHANGED response
    /\ UNCHANGED <<fifo, keyqueue, queueVars, asked, other, value, outcome, timeVars, faults, changed>>

\* [3]: the element after it, the first of its subkeys.
GetNextKey(c) ==
    /\ pc[c] = "next"
    /\ \/ \E n \in subs[qkey[c]] : other' = [other EXCEPT ![c] = n]
       \/ subs[qkey[c]] = {} /\ UNCHANGED other
    /\ Goto(c, "pop")
    /\ UNCHANGED <<fifo, keyqueue, queueVars, asked, qkey, value, response, outcome, timeVars, faults, changed>>

\* A failure is taken for an element without a next one.
GetNextKeyFails(c) ==
    /\ pc[c] = "next" /\ faults < MaxFaults
    /\ faults' = faults + 1
    /\ Goto(c, "pop")
    /\ UNCHANGED <<fifo, keyqueue, queueVars, callVars, response, outcome, timeVars, changed>>

\* [4]: the marker, whatever it holds by now.
Pop(c) ==
    /\ pc[c] = "pop"
    /\ changed' = changed \cup {c}
    /\ clock' = clock + 1
    /\ marker' = MarkerPop(other[c])
    /\ Goto(c, "getval")
    /\ UNCHANGED <<fifo, keyqueue, stored, subs, held, callVars, response, outcome, copy, ts, net, faults>>

\* [5-1]: GET of the element key; that there is no value is a success.
GetValue(c) ==
    /\ pc[c] = "getval"
    /\ value' = [value EXCEPT ![c] = IF qkey[c] \in stored THEN qkey[c] ELSE None]
    /\ Goto(c, "delqkey")
    /\ UNCHANGED <<fifo, keyqueue, queueVars, asked, qkey, other, response, outcome, timeVars, faults, changed>>


\* Mutant: a key queue deletes the key of the value only.
DelQueueKeyKept(c) ==
    /\ pc[c] = "delqkey"
    /\ stored' = IF keyqueue THEN stored ELSE stored \ {qkey[c]}
    /\ subs' = [subs EXCEPT ![qkey[c]] = {}]
    /\ Goto(c, IF keyqueue THEN "getkey" ELSE "stamp")
    /\ UNCHANGED <<fifo, keyqueue, marker, held, callVars, response, outcome, timeVars, faults, changed>>

\* [5-2]: DEL of it.
DelQueueKey(c) ==
    /\ pc[c] = "delqkey"
    /\ stored' = stored \ {qkey[c]}
    /\ subs' = [subs EXCEPT ![qkey[c]] = {}]
    /\ Goto(c, IF keyqueue THEN "getkey" ELSE "stamp")
    /\ UNCHANGED <<fifo, keyqueue, marker, held, callVars, response, outcome, timeVars, faults, changed>>

\* [6-1]: the value of the element is the key to read; without it GET fails.
GetKey(c) ==
    /\ pc[c] = "getkey"
    /\ IF value[c] = None
       THEN Goto(c, "reply") /\ response' = [response EXCEPT ![c] = "error"] /\ UNCHANGED value
       ELSE /\ Goto(c, "delkey") /\ UNCHANGED response
            /\ value' = [value EXCEPT ![c] = IF held[asked[@].key] = None THEN None ELSE @]
    /\ UNCHANGED <<fifo, keyqueue, queueVars, asked, qkey, other, outcome, timeVars, faults, changed>>

\* [6-2]: DEL of that key.
DelKey(c) ==
    /\ pc[c] = "delkey"
    /\ held' = [held EXCEPT ![asked[qkey[c]].key] = None]
    /\ Goto(c, "stamp")
    /\ UNCHANGED <<fifo, keyqueue, marker, stored, subs, callVars, response, outcome, timeVars, faults, changed>>

-----------------------------------------------------------------------------
(* The end of both, and what may go wrong on the way there.                *)

\* Mutant: the time is taken when the command begins.
StampEarly(c) ==
    /\ pc[c] = "stamp"
    /\ clock' = clock + 1
    /\ ts' = [ts EXCEPT ![c] = 0]
    /\ Goto(c, "replicate")
    /\ UNCHANGED <<fifo, keyqueue, queueVars, callVars, response, outcome, copy, net, faults, changed>>

Stamp(c) ==
    /\ pc[c] = "stamp"
    /\ clock' = clock + 1
    /\ ts' = [ts EXCEPT ![c] = clock']
    /\ Goto(c, "replicate")
    /\ UNCHANGED <<fifo, keyqueue, queueVars, callVars, response, outcome, copy, net, faults, changed>>

Pushing(c) == asked[c] # None /\ asked[c].op = "push"
SetResponse(c) ==
    response' = [response EXCEPT ![c] = IF Pushing(c) THEN "ok"
                                        ELSE IF value[c] = None THEN "empty" ELSE value[c]]

\* Mutant: an empty marker is replicated as nothing.
ReplicateNothing(c) ==
    /\ pc[c] = "replicate"
    /\ net' = net \cup {[ts |-> ts[c], marker |-> IF marker.top = None THEN None ELSE marker]}
    /\ SetResponse(c)
    /\ Goto(c, "reply")
    /\ UNCHANGED <<fifo, keyqueue, queueVars, callVars, outcome, copy, clock, ts, faults, changed>>

\* [7]: CommandReplicate of the marker, before the answer.
CommandReplicate(c) ==
    /\ pc[c] = "replicate"
    /\ net' = net \cup {[ts |-> ts[c], marker |-> marker]}
    /\ SetResponse(c)
    /\ Goto(c, "reply")
    /\ UNCHANGED <<fifo, keyqueue, queueVars, callVars, outcome, copy, clock, ts, faults, changed>>

\* "but continue..."
ReplicateFails(c) ==
    /\ pc[c] = "replicate" /\ faults < MaxFaults
    /\ faults' = faults + 1
    /\ SetResponse(c)
    /\ Goto(c, "reply")
    /\ UNCHANGED <<fifo, keyqueue, queueVars, callVars, outcome, timeVars, changed>>

\* The other server takes a marker unless it has a later one (REPL_KEY).
ReplKey(m) ==
    /\ m \in net
    /\ copy' = IF m.ts < copy.mtime THEN copy ELSE m.marker
    /\ net' = net \ {m}
    /\ UNCHANGED <<fifo, keyqueue, queueVars, callVars, pc, response, outcome, clock, ts, faults, changed>>

\* ReplyResponse, by the handler or, after an error, by CommandProcess.
ReplyResponse(c) ==
    /\ pc[c] = "reply"
    /\ outcome' = [outcome EXCEPT ![c] = response[c]]
    /\ Goto(c, "done")
    /\ UNCHANGED <<fifo, keyqueue, queueVars, callVars, response, timeVars, faults, changed>>

\* The client gets no answer.
ReplyFails(c) ==
    /\ pc[c] = "reply" /\ faults < MaxFaults
    /\ faults' = faults + 1
    /\ outcome' = [outcome EXCEPT ![c] = "error"]
    /\ Goto(c, "done")
    /\ UNCHANGED <<fifo, keyqueue, queueVars, callVars, response, timeVars, changed>>

\* Where a failure is an early return with an error: nothing that was done is
\* undone, and the marker is not replicated.
Fragile == {"setkey", "setqkey", "push", "plan", "pop", "getval", "delqkey", "getkey", "delkey"}
Fails(c) ==
    /\ pc[c] \in Fragile /\ faults < MaxFaults
    /\ faults' = faults + 1
    /\ response' = [response EXCEPT ![c] = "error"]
    /\ Goto(c, "reply")

StepFails(c) ==
    /\ Fails(c)
    /\ UNCHANGED <<fifo, keyqueue, queueVars, callVars, outcome, timeVars, changed>>

\* A nested command was executed and its response did not come in time.
Unanswered(c) ==
    /\ Fails(c)
    /\ \/ /\ pc[c] = "setkey" /\ held' = [held EXCEPT ![asked[c].key] = c]
          /\ UNCHANGED <<stored, subs>>
       \/ /\ pc[c] = "setqkey" /\ stored' = stored \cup {c}
          /\ UNCHANGED <<held, subs>>
       \/ /\ pc[c] = "delqkey" /\ stored' = stored \ {qkey[c]}
          /\ subs' = [subs EXCEPT ![qkey[c]] = {}] /\ UNCHANGED held
       \/ /\ pc[c] = "delkey" /\ held' = [held EXCEPT ![asked[qkey[c]].key] = None]
          /\ UNCHANGED <<stored, subs>>
    /\ UNCHANGED <<fifo, keyqueue, marker, callVars, outcome, timeVars, changed>>

-----------------------------------------------------------------------------
QPush(c) ==
    \/ SetKey(c) \/ SetQueueKey(c) \/ GetExKey(c) \/ Push(c) \/ Chain(c)

QPop(c) ==
    \/ PlanPop(c) \/ GetNextKey(c) \/ Pop(c) \/ GetValue(c) \/ DelQueueKey(c)
    \/ GetKey(c) \/ DelKey(c)

Finish(c) == Stamp(c) \/ CommandReplicate(c) \/ ReplyResponse(c)

Trouble(c) ==
    \/ GetExKeyFails(c) \/ ChainFails(c) \/ GetNextKeyFails(c) \/ ReplicateFails(c)
    \/ ReplyFails(c) \/ StepFails(c) \/ Unanswered(c)

Quiet == net = {} /\ \A c \in Calls : pc[c] \in {"idle", "done"}

Next ==
    \/ \E c \in Calls :
          \/ ReceivePop(c)
          \/ \E k \in Keys : ReceivePush(c, k)
          \/ QPush(c) \/ QPop(c) \/ Finish(c) \/ Trouble(c)
    \/ \E m \in net : ReplKey(m)
    \/ Quiet /\ UNCHANGED vars

Spec == Init /\ [][Next]_vars

-----------------------------------------------------------------------------
(* Properties.                                                             *)

\* The type invariant.
Markers == [top : Calls \cup {None}, bottom : Calls \cup {None}, mtime : Nat]
Responses == Calls \cup {"ok", "empty", "error", None}
TypeOK ==
    /\ fifo \in BOOLEAN /\ keyqueue \in BOOLEAN
    /\ marker \in Markers /\ copy \in Markers
    /\ stored \subseteq Calls /\ subs \in [Calls -> SUBSET Calls]
    /\ held \in [Keys -> Calls \cup {None}]
    /\ pc \in [Calls -> Pcs]
    /\ asked \in [Calls -> [op : {"push", "pop"}, key : Keys \cup {None}] \cup {None}]
    /\ qkey \in [Calls -> Calls \cup {None}] /\ other \in [Calls -> Calls \cup {None}]
    /\ value \in [Calls -> Calls \cup {None}]
    /\ response \in [Calls -> Responses] /\ outcome \in [Calls -> Responses]
    /\ clock \in Nat /\ ts \in [Calls -> Nat]
    /\ net \subseteq [ts : Nat, marker : Markers]
    /\ faults \in 0..MaxFaults
    /\ changed \subseteq Calls

\* The elements from e on.  A link that Chain is about to add counts as there:
\* a push takes effect with the marker.
Pending(e) ==
    {c \in Calls : fifo /\ pc[c] = "chain" /\ other[c] = e} \cup
    {other[c] : c \in {d \in {e} : ~fifo /\ pc[d] = "chain"}}
After(e) == subs[e] \cup Pending(e)

Following(e) == IF After(e) = {} THEN None ELSE CHOOSE a \in After(e) : TRUE

\* At most n of them.
From[n \in 0..Cardinality(Calls)] ==
    [e \in Calls \cup {None} |->
        IF e = None \/ n = 0 THEN <<>> ELSE <<e>> \o From[n - 1][Following(e)]]

Elements == From[Cardinality(Calls)][marker.top]
Pushed == {c \in changed : Pushing(c)}
Hand == [c \in Calls |-> IF c \in changed /\ ~Pushing(c) THEN qkey[c] ELSE None]

Queue == INSTANCE LossyQueue WITH
             shared <- keyqueue, lossy <- faults > 0,
             queue <- Elements, pushed <- Pushed, hand <- Hand

\* Used by one client at a time the two commands are a queue: elements come
\* out in its order, each once and with its value, although marker, links and
\* values change one after the other on different servers.  A failed step may
\* cost elements but neither their order nor that they come out once.
IsQueue == Queue!Spec

\* The elements a pop will find have a value, whatever has failed; and if
\* nothing has, nothing else is left in the storage.
NoOrphans ==
    ~Concurrent =>
        /\ ToSet(Elements) \subseteq stored
        /\ Quiet /\ faults = 0 => stored = ToSet(Elements)

\* A server that takes over finds the marker as the commands have left it, as
\* long as those that changed it got to the end.
MarkerReplicated ==
    Quiet /\ faults = 0 => <<copy.top, copy.bottom>> = <<marker.top, marker.bottom>>

-----------------------------------------------------------------------------
\* "we check collision just before updating marker key, and we retry"
\* (src/lib/k2hdkccomqpop.cc:156): two pops do not return the same element.
PoppedOnce ==
    \A c, d \in Calls : c # d /\ outcome[c] \in Calls => outcome[c] # outcome[d]
=============================================================================
