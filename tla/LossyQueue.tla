----------------------------- MODULE LossyQueue -----------------------------
(***************************************************************************)
(* What a queue of k2hdkc promises to clients that use it one at a time:   *)
(* elements come out in the order of the queue, each once and with its     *)
(* value, and as long as nothing has gone wrong none is missing.  Once a   *)
(* step of a command has failed the queue may lose elements from its far   *)
(* end and elements pushed later, but never changes their order, returns   *)
(* one twice or brings a lost one back.                                    *)
(***************************************************************************)
EXTENDS Sequences, SequencesExt

CONSTANTS
    Calls,      \* the commands; an element is named by the command pushing it
    None

VARIABLES
    fifo,       \* how the queue is used
    shared,     \* whether elements share their values (key queue)
    lossy,      \* a step of a command has failed
    queue,      \* the elements, the next to come out first
    pushed,     \* the commands whose push has taken effect
    hand,       \* the element a pop has taken out
    outcome     \* "ok", "empty", "error", or the element returned

vars == <<fifo, shared, lossy, queue, pushed, hand, outcome>>

Init ==
    /\ fifo \in BOOLEAN /\ shared \in BOOLEAN
    /\ lossy = FALSE
    /\ queue = <<>> /\ pushed = {}
    /\ hand = [c \in Calls |-> None]
    /\ outcome = [c \in Calls |-> None]

\* A failure is never forgotten.
Failing == lossy' \in {lossy, TRUE} /\ UNCHANGED <<fifo, shared>>

Push(c) ==
    /\ Failing
    /\ c \notin pushed /\ outcome[c] = None
    /\ pushed' = pushed \cup {c}
    /\ \/ queue' = IF fifo THEN Append(queue, c) ELSE <<c>> \o queue
       \/ lossy' /\ queue' = IF fifo THEN queue ELSE <<c>>
    /\ UNCHANGED <<hand, outcome>>

Pop(c) ==
    /\ Failing
    /\ queue # <<>> /\ hand[c] = None
    /\ hand' = [hand EXCEPT ![c] = Head(queue)]
    /\ \/ queue' = Tail(queue)
       \/ lossy' /\ IsPrefix(queue', Tail(queue))
    /\ UNCHANGED <<pushed, outcome>>

\* What a command answers: a push when it has taken effect, a pop with its
\* element, whose value another one may have taken if they share it.
Answers(c) ==
    \/ c \in pushed /\ outcome' = [outcome EXCEPT ![c] = "ok"]
    \/ hand[c] # None /\ outcome' = [outcome EXCEPT ![c] = hand[c]]
    \/ hand[c] # None /\ shared /\ outcome' = [outcome EXCEPT ![c] = "empty"]

\* An error: the queue is empty, or something has failed.
Refuses(c) ==
    /\ (queue = <<>> /\ c \notin pushed /\ hand[c] = None) \/ lossy'
    /\ outcome' = [outcome EXCEPT ![c] = "error"]

Answer(c) ==
    /\ Failing
    /\ outcome[c] = None
    /\ Answers(c) \/ Refuses(c)
    /\ UNCHANGED <<queue, pushed, hand>>

Lose ==
    /\ lossy' = TRUE
    /\ IsPrefix(queue', queue)
    /\ UNCHANGED <<fifo, shared, pushed, hand, outcome>>

Next == Lose \/ \E c \in Calls : Push(c) \/ Pop(c) \/ Answer(c)

Spec == Init /\ [][Next]_vars
=============================================================================
