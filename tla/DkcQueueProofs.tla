---------------------------- MODULE DkcQueueProofs ----------------------------
(***************************************************************************)
(* Proofs about DkcQueue, for any number of commands and keys.             *)
(***************************************************************************)
EXTENDS DkcQueue, TLAPS

\* Types, with what they need of commands that are about to use an element.
TypeInv ==
    /\ TypeOK
    /\ \A c \in Calls : pc[c] = "chain" => other[c] \in Calls
    /\ \A c \in Calls : pc[c] = "next" => qkey[c] \in Calls

LEMMA NextTypes == TypeInv /\ [Next]_vars => TypeInv'
<1> SUFFICES ASSUME TypeInv, [Next]_vars PROVE TypeInv'
    OBVIOUS
<1> USE QueueAssumption DEF QueueAssumption, TypeInv, TypeOK, Goto, Pcs, Responses
<1>1. ASSUME NEW c \in Calls, NEW k \in Keys, ReceivePush(c, k) PROVE TypeInv'
    <2>1. /\ asked' = [asked EXCEPT ![c] = [op |-> "push", key |-> k]]
          /\ other' = [other EXCEPT ![c] = marker.top]
          /\ pc' = [pc EXCEPT ![c] = IF keyqueue THEN "setkey" ELSE "setqkey"]
          /\ UNCHANGED <<fifo, keyqueue, marker, stored, subs, held, qkey, value, response, outcome, copy, clock,
                         ts, net, faults, changed>>
        BY <1>1 DEF ReceivePush, queueVars, timeVars
    <2>2. [op |-> "push", key |-> k] \in [op : {"push", "pop"}, key : Keys \cup {None}]
        OBVIOUS
    <2>3. asked' \in [Calls -> [op : {"push", "pop"}, key : Keys \cup {None}] \cup {None}]
        BY <2>1, <2>2
    <2>4. marker.top \in Calls \cup {None}
        BY DEF Markers
    <2>5. other' \in [Calls -> Calls \cup {None}]
        BY <2>1, <2>4
    <2>6. pc' \in [Calls -> Pcs] /\ \A d \in Calls : pc'[d] \in {"chain", "next"} => d # c
        BY <2>1
    <2>7. /\ \A d \in Calls : pc'[d] = "chain" => other'[d] \in Calls
          /\ \A d \in Calls : pc'[d] = "next" => qkey'[d] \in Calls
        BY <2>1, <2>6
    <2>8. fifo' \in BOOLEAN /\ keyqueue' \in BOOLEAN
        BY <2>1
    <2> QED
        BY <2>1, <2>3, <2>5, <2>6, <2>7, <2>8
<1>2. ASSUME NEW c \in Calls, ReceivePop(c) PROVE TypeInv'
    BY <1>2 DEF ReceivePop, MayBegin, queueVars, callVars, timeVars
<1>3. ASSUME NEW c \in Calls, SetKey(c) PROVE TypeInv'
    BY <1>3 DEF SetKey, queueVars, callVars, timeVars
<1>4. ASSUME NEW c \in Calls, SetQueueKey(c) PROVE TypeInv'
    BY <1>4 DEF SetQueueKey, queueVars, callVars, timeVars
<1>5. ASSUME NEW c \in Calls, GetExKey(c) PROVE TypeInv'
    <2>1. marker.top \in Calls \cup {None} /\ marker.bottom \in Calls \cup {None}
        BY DEF Markers
    <2>2. /\ \E e \in {None, marker.top, marker.bottom} : other' = [other EXCEPT ![c] = e]
          /\ pc' = [pc EXCEPT ![c] = "push"]
        BY <1>5 DEF GetExKey
    <2>3. other' \in [Calls -> Calls \cup {None}]
        BY <2>1, <2>2
    <2> QED
        BY <1>5, <2>2, <2>3 DEF GetExKey, queueVars, timeVars
<1>6. ASSUME NEW c \in Calls, Push(c) PROVE TypeInv'
    BY <1>6 DEF Push, MarkerPush, Stamped, Markers, queueVars, callVars, timeVars
<1>7. ASSUME NEW c \in Calls, Chain(c) PROVE TypeInv'
    BY <1>7 DEF Chain, Linked, queueVars, callVars, timeVars
<1>8. ASSUME NEW c \in Calls, PlanPop(c) PROVE TypeInv'
    <2>1. marker.top \in Calls \cup {None}
        BY DEF Markers
    <2>2. UNCHANGED <<fifo, keyqueue, queueVars, asked, other, value, outcome, timeVars, faults, changed>>
        BY <1>8 DEF PlanPop
    <2>3. CASE marker.top = None
        <3>1. /\ pc' = [pc EXCEPT ![c] = "reply"] /\ response' = [response EXCEPT ![c] = "error"]
              /\ qkey' = qkey
            BY <1>8, <2>3 DEF PlanPop
        <3> QED
            BY <2>2, <3>1 DEF queueVars, timeVars
    <2>4. CASE marker.top # None
        <3>1. /\ pc' = [pc EXCEPT ![c] = "next"] /\ response' = response
              /\ qkey' = [qkey EXCEPT ![c] = marker.top]
            BY <1>8, <2>4 DEF PlanPop
        <3> QED
            BY <2>1, <2>2, <2>4, <3>1 DEF queueVars, timeVars
    <2> QED
        BY <2>3, <2>4
<1>9. ASSUME NEW c \in Calls, GetNextKey(c) PROVE TypeInv'
    BY <1>9 DEF GetNextKey, queueVars, callVars, timeVars
<1>10. ASSUME NEW c \in Calls, Pop(c) PROVE TypeInv'
    BY <1>10 DEF Pop, MarkerPop, Stamped, Markers, queueVars, callVars, timeVars
<1>11. ASSUME NEW c \in Calls, GetValue(c) PROVE TypeInv'
    BY <1>11 DEF GetValue, queueVars, callVars, timeVars
<1>12. ASSUME NEW c \in Calls, DelQueueKey(c) PROVE TypeInv'
    BY <1>12 DEF DelQueueKey, queueVars, callVars, timeVars
<1>13. ASSUME NEW c \in Calls, GetKey(c) PROVE TypeInv'
    <2>1. UNCHANGED <<fifo, keyqueue, queueVars, asked, qkey, other, outcome, timeVars, faults, changed>>
        BY <1>13 DEF GetKey
    <2>2. /\ pc' = [pc EXCEPT ![c] = "reply"] \/ pc' = [pc EXCEPT ![c] = "delkey"]
          /\ response' = response \/ response' = [response EXCEPT ![c] = "error"]
          /\ value' = value \/ value' = [value EXCEPT ![c] = None] \/ value' = [value EXCEPT ![c] = value[c]]
        BY <1>13 DEF GetKey
    <2>3. value' \in [Calls -> Calls \cup {None}]
        BY <2>2
    <2>4. pc' \in [Calls -> Pcs] /\ response' \in [Calls -> Responses]
        BY <2>2
    <2> QED
        BY <2>1, <2>2, <2>3, <2>4 DEF queueVars, timeVars
<1>14. ASSUME NEW c \in Calls, DelKey(c) PROVE TypeInv'
    BY <1>14 DEF DelKey, queueVars, callVars, timeVars
<1>15. ASSUME NEW c \in Calls, Stamp(c) PROVE TypeInv'
    BY <1>15 DEF Stamp, queueVars, callVars, timeVars
<1>16. ASSUME NEW c \in Calls, CommandReplicate(c) PROVE TypeInv'
    BY <1>16 DEF CommandReplicate, SetResponse, queueVars, callVars, timeVars
<1>17. ASSUME NEW c \in Calls, ReplyResponse(c) PROVE TypeInv'
    BY <1>17 DEF ReplyResponse, queueVars, callVars, timeVars
<1>18. ASSUME NEW c \in Calls, ChainFails(c) PROVE TypeInv'
    BY <1>18 DEF ChainFails, Linked, queueVars, callVars, timeVars
<1>19. ASSUME NEW c \in Calls, GetNextKeyFails(c) PROVE TypeInv'
    BY <1>19 DEF GetNextKeyFails, queueVars, callVars, timeVars
<1>20. ASSUME NEW c \in Calls, ReplicateFails(c) PROVE TypeInv'
    BY <1>20 DEF ReplicateFails, SetResponse, queueVars, callVars, timeVars
<1>21. ASSUME NEW c \in Calls, ReplyFails(c) PROVE TypeInv'
    BY <1>21 DEF ReplyFails, queueVars, callVars, timeVars
<1>22. ASSUME NEW c \in Calls, StepFails(c) PROVE TypeInv'
    BY <1>22 DEF StepFails, Fails, Fragile, queueVars, callVars, timeVars
<1>23. ASSUME NEW c \in Calls, Unanswered(c) PROVE TypeInv'
    BY <1>23 DEF Unanswered, Fails, Fragile, queueVars, callVars, timeVars
<1>24. ASSUME NEW m \in net, ReplKey(m) PROVE TypeInv'
    BY <1>24 DEF ReplKey, queueVars, callVars, timeVars
<1>25. CASE UNCHANGED vars
    BY <1>25 DEF vars, queueVars, callVars, timeVars
<1>27. ASSUME NEW c \in Calls, GetExKeyFails(c) PROVE TypeInv'
    BY <1>27 DEF GetExKeyFails, queueVars, callVars, timeVars
<1> QED
    BY <1>1, <1>2, <1>3, <1>4, <1>5, <1>6, <1>7, <1>8, <1>9, <1>10, <1>11, <1>12, <1>13, <1>14, <1>15, <1>16, <1>17, <1>18, <1>19, <1>20, <1>21, <1>22, <1>23, <1>24, <1>25, <1>27 DEF Next, QPush, QPop, Finish, Trouble

-----------------------------------------------------------------------------
(* Commands that are executed one at a time.                               *)

\* Pops that have changed the marker, elements they took, and those nobody has
\* taken yet.
Taker(c) == c \in changed /\ ~Pushing(c)
Live == {e \in Pushed : \A c \in Calls : Taker(c) => qkey[c] # e}

PushPcs == {"setkey", "setqkey", "exkey", "push", "chain"}
PopPcs  == {"plan", "next", "pop", "getval", "delqkey", "getkey", "delkey"}
BeforePcs == {"idle", "setkey", "setqkey", "exkey", "push", "plan", "next", "pop"}
AfterPcs == {"chain", "getval", "delqkey", "getkey", "delkey", "stamp", "replicate"}
Resting == {"idle", "done"}

\* Where a command is, what it was asked for and whether it has changed the
\* marker go together; one command is executed at a time.
PcInv ==
    /\ \A c, d \in Calls : c = d \/ pc[c] \in Resting \/ pc[d] \in Resting
    /\ \A c \in Calls :
          /\ pc[c] \in PushPcs => Pushing(c)
          /\ pc[c] \in PopPcs => asked[c] # None /\ ~Pushing(c)
          /\ pc[c] \in BeforePcs => c \notin changed
          /\ pc[c] \in AfterPcs => c \in changed
          /\ pc[c] = "idle" => asked[c] = None

\* The links between the elements nobody has taken form chains: each leads to
\* another of them, no two to the same, and none to the first.
LinkInv ==
    /\ \A c \in Calls : c \notin changed => subs[c] = {}
    /\ \A e \in Live : subs[e] \subseteq Live /\ marker.top \notin subs[e]
    /\ \A e, f \in Live : e # f => subs[e] \cap subs[f] = {}
    /\ marker.top # None => marker.top \in Live
    /\ marker.top = None <=> marker.bottom = None
    /\ fifo /\ marker.bottom # None => marker.bottom \in Live /\ subs[marker.bottom] = {}

\* The link a push is about to add keeps to this.
ChainInv ==
    \A c \in Calls : pc[c] = "chain" =>
        /\ other[c] \in Live /\ other[c] # c /\ subs[c] = {} /\ c \in Live
        /\ fifo => marker.top # c /\ marker.bottom = c /\ \A e \in Live : c \notin subs[e]
        /\ ~fifo => marker.top = c /\ \A e \in Live : other[c] \notin subs[e]

\* What a command has read of the marker and the links still holds.
ReadInv ==
    \A c \in Calls :
        /\ pc[c] \in {"setkey", "setqkey", "exkey"} => other[c] = marker.top
        /\ pc[c] = "push" => \/ other[c] = IF marker.top = None THEN None
                                           ELSE IF fifo THEN marker.bottom ELSE marker.top
                             \/ other[c] = None /\ faults # 0
        /\ pc[c] \in {"idle", "plan", "next"} => other[c] = None
        /\ pc[c] \in {"next", "pop"} => qkey[c] = marker.top /\ marker.top # None
        /\ pc[c] = "pop" /\ other[c] # None => other[c] \in subs[qkey[c]]

\* The elements nobody has taken are stored, and so is the one that a pop is
\* about to read.
StoredInv ==
    /\ Live \subseteq stored
    /\ \A c \in Calls : pc[c] \in {"exkey", "push"} => c \in stored
    /\ \A c \in Calls : pc[c] = "getval" => qkey[c] \in stored
    /\ \A c \in Calls : pc[c] \in {"delqkey", "getkey"} => value[c] = qkey[c]

\* An element is taken once, and what a pop answers with is the one it took.
TakenOnce ==
    /\ \A c, d \in Calls : Taker(c) /\ Taker(d) /\ c # d => qkey[c] # qkey[d]
    /\ \A c \in Calls : Taker(c) => qkey[c] \in Pushed
TakenAnswered ==
    /\ \A c \in Calls : value[c] # None => Taker(c) /\ value[c] = qkey[c]
    /\ \A c \in Calls : response[c] \in Calls => Taker(c) /\ response[c] = qkey[c]
    /\ \A c \in Calls : outcome[c] \in Calls => Taker(c) /\ outcome[c] = qkey[c]
TakenInv == TakenOnce /\ TakenAnswered

\* Times; and as long as nothing has failed the marker as it is now is at the
\* other server, on its way there with a time that prevails, or still to be sent.
Sent(m) == m.marker = marker /\ m.ts >= marker.mtime
ToBeSent(c) == pc[c] \in AfterPcs /\ (pc[c] = "replicate" => ts[c] >= marker.mtime)
CopyInv ==
    /\ marker.mtime <= clock /\ copy.mtime <= marker.mtime
    /\ \A c \in Calls : ts[c] <= clock
    /\ \A m \in net : m.ts <= clock /\ m.marker.mtime <= marker.mtime
    /\ \A m \in net : m.marker = marker \/ m.ts < marker.mtime
    /\ faults = 0 => copy = marker \/ (\E m \in net : Sent(m)) \/ \E c \in Calls : ToBeSent(c)

QueueInv == PcInv /\ LinkInv /\ ChainInv /\ ReadInv /\ StoredInv /\ TakenInv /\ CopyInv

LEMMA NextPcInv == ~Concurrent /\ TypeInv /\ PcInv /\ [Next]_vars => PcInv'
<1> SUFFICES ASSUME ~Concurrent, TypeInv, PcInv, [Next]_vars PROVE PcInv'
    OBVIOUS
<1>0. /\ pc \in [Calls -> Pcs] /\ changed \subseteq Calls
      /\ asked \in [Calls -> [op : {"push", "pop"}, key : Keys \cup {None}] \cup {None}]
    BY DEF TypeInv, TypeOK
<1> USE <1>0, QueueAssumption DEF QueueAssumption, Goto, PcInv, Pushing, PushPcs, PopPcs, BeforePcs, AfterPcs, Resting
<1>1. ASSUME NEW c \in Calls, NEW k \in Keys, ReceivePush(c, k) PROVE PcInv'
    <2>1. pc[c] = "idle" /\ \A d \in Calls : pc[d] \in Resting
        BY <1>1, Zenon DEF ReceivePush, MayBegin
    <2>2. /\ pc' = [pc EXCEPT ![c] = IF keyqueue THEN "setkey" ELSE "setqkey"] /\ changed' = changed
          /\ asked' = [asked EXCEPT ![c] = [op |-> "push", key |-> k]]
        BY <1>1 DEF ReceivePush
    <2>3. [op |-> "push", key |-> k] # None
        OBVIOUS
    <2>4. Pushing(c)' /\ \A d \in Calls : d # c => asked'[d] = asked[d] /\ pc'[d] = pc[d]
        BY <2>2, <2>3
    <2>5. \A d \in Calls : d # c => pc'[d] \in Resting
        BY <2>1, <2>4
    <2> QED
        BY <2>1, <2>2, <2>4, <2>5
<1>2. ASSUME NEW c \in Calls, ReceivePop(c) PROVE PcInv'
    <2>1. pc[c] = "idle" /\ \A d \in Calls : pc[d] \in Resting
        BY <1>2, Zenon DEF ReceivePop, MayBegin
    <2>2. /\ pc' = [pc EXCEPT ![c] = "plan"] /\ changed' = changed
          /\ asked' = [asked EXCEPT ![c] = [op |-> "pop", key |-> None]]
        BY <1>2 DEF ReceivePop
    <2>3. [op |-> "pop", key |-> None] # None
        OBVIOUS
    <2>4. (asked[c] # None /\ ~Pushing(c))' /\ \A d \in Calls : d # c => asked'[d] = asked[d] /\ pc'[d] = pc[d]
        BY <2>2, <2>3
    <2>5. \A d \in Calls : d # c => pc'[d] \in Resting
        BY <2>1, <2>4
    <2> QED
        BY <2>1, <2>2, <2>4, <2>5
<1>3. ASSUME NEW c \in Calls, SetKey(c) PROVE PcInv'
    BY <1>3 DEF SetKey, queueVars, callVars, timeVars
<1>4. ASSUME NEW c \in Calls, SetQueueKey(c) PROVE PcInv'
    BY <1>4 DEF SetQueueKey, queueVars, callVars, timeVars
<1>5. ASSUME NEW c \in Calls, GetExKey(c) PROVE PcInv'
    BY <1>5 DEF GetExKey, queueVars, callVars, timeVars
<1>6. ASSUME NEW c \in Calls, Push(c) PROVE PcInv'
    BY <1>6 DEF Push, queueVars, callVars, timeVars
<1>7. ASSUME NEW c \in Calls, Chain(c) PROVE PcInv'
    BY <1>7 DEF Chain, queueVars, callVars, timeVars
<1>8. ASSUME NEW c \in Calls, PlanPop(c) PROVE PcInv'
    BY <1>8 DEF PlanPop, queueVars, callVars, timeVars
<1>9. ASSUME NEW c \in Calls, GetNextKey(c) PROVE PcInv'
    BY <1>9 DEF GetNextKey, queueVars, callVars, timeVars
<1>10. ASSUME NEW c \in Calls, Pop(c) PROVE PcInv'
    BY <1>10 DEF Pop, queueVars, callVars, timeVars
<1>11. ASSUME NEW c \in Calls, GetValue(c) PROVE PcInv'
    BY <1>11 DEF GetValue, queueVars, callVars, timeVars
<1>12. ASSUME NEW c \in Calls, DelQueueKey(c) PROVE PcInv'
    BY <1>12 DEF DelQueueKey, queueVars, callVars, timeVars
<1>13. ASSUME NEW c \in Calls, GetKey(c) PROVE PcInv'
    BY <1>13 DEF GetKey, queueVars, callVars, timeVars
<1>14. ASSUME NEW c \in Calls, DelKey(c) PROVE PcInv'
    BY <1>14 DEF DelKey, queueVars, callVars, timeVars
<1>15. ASSUME NEW c \in Calls, Stamp(c) PROVE PcInv'
    BY <1>15 DEF Stamp, queueVars, callVars, timeVars
<1>16. ASSUME NEW c \in Calls, CommandReplicate(c) PROVE PcInv'
    BY <1>16 DEF CommandReplicate, queueVars, callVars, timeVars
<1>17. ASSUME NEW c \in Calls, ReplyResponse(c) PROVE PcInv'
    BY <1>17 DEF ReplyResponse, queueVars, callVars, timeVars
<1>18. ASSUME NEW c \in Calls, ChainFails(c) PROVE PcInv'
    BY <1>18 DEF ChainFails, queueVars, callVars, timeVars
<1>19. ASSUME NEW c \in Calls, GetNextKeyFails(c) PROVE PcInv'
    BY <1>19 DEF GetNextKeyFails, queueVars, callVars, timeVars
<1>20. ASSUME NEW c \in Calls, ReplicateFails(c) PROVE PcInv'
    BY <1>20 DEF ReplicateFails, queueVars, callVars, timeVars
<1>21. ASSUME NEW c \in Calls, ReplyFails(c) PROVE PcInv'
    BY <1>21 DEF ReplyFails, queueVars, callVars, timeVars
<1>22. ASSUME NEW c \in Calls, StepFails(c) PROVE PcInv'
    BY <1>22 DEF StepFails, Fails, Fragile, queueVars, callVars, timeVars
<1>23. ASSUME NEW c \in Calls, Unanswered(c) PROVE PcInv'
    BY <1>23 DEF Unanswered, Fails, Fragile, queueVars, callVars, timeVars
<1>24. ASSUME NEW m \in net, ReplKey(m) PROVE PcInv'
    BY <1>24 DEF ReplKey, queueVars, callVars, timeVars
<1>25. CASE UNCHANGED vars
    BY <1>25 DEF vars, queueVars, callVars, timeVars
<1>27. ASSUME NEW c \in Calls, GetExKeyFails(c) PROVE PcInv'
    BY <1>27 DEF GetExKeyFails, queueVars, callVars, timeVars
<1> QED
    BY <1>1, <1>2, <1>3, <1>4, <1>5, <1>6, <1>7, <1>8, <1>9, <1>10, <1>11, <1>12, <1>13, <1>14, <1>15, <1>16, <1>17, <1>18, <1>19, <1>20, <1>21, <1>22, <1>23, <1>24, <1>25, <1>27 DEF Next, QPush, QPop, Finish, Trouble

\* A step that leaves the marker, the links and what has been pushed and taken,
\* and removes no element.
Calm ==
    /\ UNCHANGED <<fifo, marker, subs, changed>> /\ stored \subseteq stored'
    /\ \A c \in changed : asked'[c] = asked[c] /\ qkey'[c] = qkey[c]

LEMMA CalmLive ==
    ASSUME TypeInv, UNCHANGED changed, \A c \in changed : asked'[c] = asked[c] /\ qkey'[c] = qkey[c]
    PROVE  Live' = Live /\ Pushed' = Pushed /\ \A c \in Calls : Taker(c)' <=> Taker(c)
<1>1. changed \subseteq Calls
    BY DEF TypeInv, TypeOK
<1>2. \A c \in changed : Pushing(c)' <=> Pushing(c)
    BY DEF Pushing
<1>3. \A c \in Calls : Taker(c)' <=> Taker(c)
    BY <1>2 DEF Taker
<1>4. Pushed' = Pushed
    BY <1>2 DEF Pushed
<1>5. \A c \in Calls : \A e : (Taker(c)' => qkey'[c] # e) <=> (Taker(c) => qkey[c] # e)
    BY <1>3 DEF Taker
<1>6. Live' = Live
    BY <1>4, <1>5 DEF Live
<1> QED
    BY <1>3, <1>4, <1>6

\* The steps that are not calm.
Link(c) ==
    /\ pc[c] = "chain" /\ subs' = Linked(c)
    /\ UNCHANGED <<fifo, marker, stored, asked, qkey, other, changed>>
Delete(c) ==
    /\ pc[c] = "delqkey" /\ stored' = stored \ {qkey[c]} /\ subs' = [subs EXCEPT ![qkey[c]] = {}]
    /\ UNCHANGED <<fifo, marker, asked, qkey, other, changed>>

\* Steps that change neither the marker nor a link.
Aside(c) ==
    \/ ReceivePop(c) \/ SetKey(c) \/ SetQueueKey(c) \/ GetExKey(c) \/ PlanPop(c) \/ GetNextKey(c) \/ GetValue(c)
    \/ GetKey(c) \/ DelKey(c) \/ Finish(c)
    \/ GetExKeyFails(c) \/ GetNextKeyFails(c) \/ ReplicateFails(c) \/ ReplyFails(c) \/ StepFails(c)
    \/ \E k \in Keys : ReceivePush(c, k)

LEMMA AsideIsCalm == ASSUME TypeInv, PcInv, NEW c \in Calls, Aside(c) PROVE Calm
<1>1. ASSUME NEW k \in Keys, ReceivePush(c, k) PROVE Calm
    <2>1. c \notin changed
        BY <1>1 DEF ReceivePush, MayBegin, PcInv, BeforePcs
    <2>2. UNCHANGED <<fifo, queueVars, qkey, changed>> /\ \E q : asked' = [asked EXCEPT ![c] = q]
        BY <1>1 DEF ReceivePush
    <2> QED
        BY <2>1, <2>2 DEF Calm, queueVars, TypeInv, TypeOK
<1>2. CASE ReceivePop(c)
    <2>1. c \notin changed
        BY <1>2 DEF ReceivePop, MayBegin, PcInv, BeforePcs
    <2>2. UNCHANGED <<fifo, queueVars, qkey, changed>> /\ \E q : asked' = [asked EXCEPT ![c] = q]
        BY <1>2 DEF ReceivePop
    <2> QED
        BY <2>1, <2>2 DEF Calm, queueVars, TypeInv, TypeOK
<1>3. CASE PlanPop(c)
    <2>1. c \notin changed
        BY <1>3 DEF PlanPop, PcInv, BeforePcs
    <2>2. UNCHANGED <<fifo, queueVars, asked, changed>> /\ \E q : qkey' \in {qkey, [qkey EXCEPT ![c] = q]}
        BY <1>3 DEF PlanPop
    <2> QED
        BY <2>1, <2>2 DEF Calm, queueVars, TypeInv, TypeOK
<1>4. CASE SetKey(c) \/ SetQueueKey(c) \/ GetExKey(c) \/ GetNextKey(c) \/ GetValue(c) \/ GetKey(c) \/ DelKey(c)
    BY <1>4 DEF SetKey, SetQueueKey, GetExKey, GetNextKey, GetValue, GetKey, DelKey, Calm, queueVars, callVars
<1>5. CASE Finish(c) \/ GetExKeyFails(c) \/ GetNextKeyFails(c) \/ ReplicateFails(c) \/ ReplyFails(c) \/ StepFails(c)
    BY <1>5 DEF Finish, Stamp, CommandReplicate, ReplyResponse, GetExKeyFails, GetNextKeyFails, ReplicateFails, ReplyFails,
                StepFails, Calm, queueVars, callVars
<1> QED
    BY <1>1, <1>2, <1>3, <1>4, <1>5 DEF Aside

LEMMA AllSteps ==
    ASSUME [Next]_vars
    PROVE  \/ \E c \in Calls : \/ Aside(c) \/ Push(c) \/ Pop(c) \/ Chain(c) \/ ChainFails(c)
                               \/ DelQueueKey(c) \/ Unanswered(c)
           \/ \E m \in net : ReplKey(m)
           \/ UNCHANGED vars
BY DEF Next, QPush, QPop, Trouble, Aside

LEMMA StepKinds ==
    ASSUME TypeInv, PcInv, [Next]_vars
    PROVE  Calm \/ \E c \in Calls : Push(c) \/ Pop(c) \/ Link(c) \/ Delete(c)
<1> DEFINE Goal == Calm \/ \E c \in Calls : Push(c) \/ Pop(c) \/ Link(c) \/ Delete(c)
<1>1. ASSUME NEW c \in Calls, Push(c) \/ Pop(c) PROVE Goal
    BY <1>1
<1>2. ASSUME NEW c \in Calls, Aside(c) PROVE Calm
    BY <1>2, AsideIsCalm
<1>3. ASSUME NEW c \in Calls, Chain(c) PROVE Goal
    BY <1>3 DEF Chain, Link, callVars
<1>4. ASSUME NEW c \in Calls, ChainFails(c) PROVE Goal
    BY <1>4 DEF ChainFails, Link, callVars, Calm
<1>5. ASSUME NEW c \in Calls, DelQueueKey(c) PROVE Goal
    BY <1>5 DEF DelQueueKey, Delete, callVars
<1>6. ASSUME NEW c \in Calls, Unanswered(c) PROVE Goal
    BY <1>6 DEF Unanswered, Delete, callVars, Calm
<1>7. ASSUME NEW m \in net, ReplKey(m) PROVE Calm
    BY <1>7 DEF ReplKey, Calm, queueVars, callVars
<1>8. CASE UNCHANGED vars
    BY <1>8 DEF vars, Calm, queueVars, callVars
<1> QED
    BY <1>1, <1>2, <1>3, <1>4, <1>5, <1>6, <1>7, <1>8, AllSteps

\* What is live after a push and after a pop.
LEMMA PushLive ==
    ASSUME TypeInv, PcInv, TakenInv, NEW c \in Calls, Push(c)
    PROVE  /\ c \notin changed /\ Pushing(c) /\ Live' = Live \cup {c} /\ Pushed' = Pushed \cup {c}
           /\ \A d \in Calls : Taker(d)' <=> Taker(d)
<1>1. /\ changed' = changed \cup {c} /\ asked' = asked /\ qkey' = qkey /\ c \notin changed /\ Pushing(c)
      /\ changed \subseteq Calls
    BY DEF Push, callVars, PcInv, BeforePcs, PushPcs, TypeInv, TypeOK
<1>2. \A d \in Calls : (Taker(d)' <=> Taker(d)) /\ (Pushing(d)' <=> Pushing(d))
    BY <1>1 DEF Taker, Pushing
<1>3. Pushed' = Pushed \cup {c}
    BY <1>1, <1>2 DEF Pushed
<1>4. \A d \in Calls : Taker(d) => qkey[d] # c
    BY <1>1 DEF TakenInv, TakenOnce, Pushed
<1>5. Live' = Live \cup {c}
    BY <1>1, <1>2, <1>3, <1>4 DEF Live
<1> QED
    BY <1>1, <1>2, <1>3, <1>5

LEMMA PopLive ==
    ASSUME TypeInv, PcInv, NEW c \in Calls, Pop(c)
    PROVE  /\ c \notin changed /\ ~Pushing(c) /\ Live' = Live \ {qkey[c]} /\ Pushed' = Pushed
           /\ \A d \in Calls : Taker(d)' <=> Taker(d) \/ d = c
<1>1. /\ changed' = changed \cup {c} /\ asked' = asked /\ qkey' = qkey /\ c \notin changed /\ ~Pushing(c)
      /\ changed \subseteq Calls
    BY DEF Pop, callVars, PcInv, BeforePcs, PopPcs, TypeInv, TypeOK
<1>2. \A d \in Calls : (Taker(d)' <=> Taker(d) \/ d = c) /\ (Pushing(d)' <=> Pushing(d))
    BY <1>1 DEF Taker, Pushing
<1>3. Pushed' = Pushed
    BY <1>1, <1>2 DEF Pushed
<1>4. Live' = Live \ {qkey[c]}
    BY <1>1, <1>2, <1>3 DEF Live
<1> QED
    BY <1>1, <1>2, <1>3, <1>4

\* What has been pushed and taken stays so.
LEMMA Grows ==
    TypeInv /\ PcInv /\ TakenInv /\ [Next]_vars =>
        /\ Pushed \subseteq Pushed'
        /\ \A c \in Calls : Taker(c) => Taker(c)' /\ qkey'[c] = qkey[c]
<1> SUFFICES ASSUME TypeInv, PcInv, TakenInv, [Next]_vars
             PROVE  /\ Pushed \subseteq Pushed'
                    /\ \A c \in Calls : Taker(c) => Taker(c)' /\ qkey'[c] = qkey[c]
    OBVIOUS
<1>1. CASE Calm
    BY <1>1, CalmLive DEF Calm, Taker
<1>2. ASSUME NEW c \in Calls, Push(c)
      PROVE  Pushed \subseteq Pushed' /\ \A d \in Calls : Taker(d) => Taker(d)' /\ qkey'[d] = qkey[d]
    BY <1>2, PushLive DEF Push, callVars
<1>3. ASSUME NEW c \in Calls, Pop(c)
      PROVE  Pushed \subseteq Pushed' /\ \A d \in Calls : Taker(d) => Taker(d)' /\ qkey'[d] = qkey[d]
    BY <1>3, PopLive DEF Pop, callVars
<1>4. ASSUME NEW c \in Calls, Link(c) \/ Delete(c)
      PROVE  Pushed \subseteq Pushed' /\ \A d \in Calls : Taker(d) => Taker(d)' /\ qkey'[d] = qkey[d]
    BY <1>4, CalmLive DEF Link, Delete
<1> QED
    BY <1>1, <1>2, <1>3, <1>4, StepKinds

LEMMA NextLinkInv ==
    TypeInv /\ PcInv /\ LinkInv /\ ChainInv /\ ReadInv /\ TakenInv /\ [Next]_vars => LinkInv'
<1> SUFFICES ASSUME TypeInv, PcInv, LinkInv, ChainInv, ReadInv, TakenInv, [Next]_vars PROVE LinkInv'
    OBVIOUS
<1>0. /\ changed \subseteq Calls /\ subs \in [Calls -> SUBSET Calls] /\ None \notin Calls
      /\ marker.top \in Calls \cup {None} /\ marker.bottom \in Calls \cup {None}
      /\ Live \subseteq changed /\ qkey \in [Calls -> Calls \cup {None}]
    BY QueueAssumption DEF QueueAssumption, TypeInv, TypeOK, Markers, Live, Pushed
<1>1. CASE Calm
    <2>1. Live' = Live
        BY <1>1, CalmLive DEF Calm
    <2> QED
        BY <1>1, <2>1 DEF LinkInv, Calm
<1>2. ASSUME NEW c \in Calls, Push(c) PROVE LinkInv'
    <2>1. c \notin changed /\ Live' = Live \cup {c}
        BY <1>2, PushLive
    <2>2. /\ changed' = changed \cup {c} /\ subs' = subs /\ fifo' = fifo
          /\ marker'.top = IF fifo /\ marker.top # None THEN marker.top ELSE c
          /\ marker'.bottom = IF ~fifo /\ marker.top # None THEN marker.bottom ELSE c
        BY <1>2 DEF Push, MarkerPush, Stamped
    <2>3. subs[c] = {} /\ c \notin Live /\ \A e \in Live : subs[e] \subseteq Live
        BY <1>0, <2>1 DEF LinkInv
    <2>4. \A e \in Live' : subs'[e] \subseteq Live' /\ marker'.top \notin subs'[e]
        <3>1. marker'.top = c \/ marker'.top = marker.top
            BY <2>2
        <3> QED
            BY <1>0, <2>1, <2>2, <2>3, <3>1 DEF LinkInv
    <2>5. \A e, f \in Live' : e # f => subs'[e] \cap subs'[f] = {}
        BY <2>1, <2>2, <2>3 DEF LinkInv
    <2>6. marker'.top # None => marker'.top \in Live'
        BY <2>1, <2>2 DEF LinkInv
    <2>7. marker'.top = None <=> marker'.bottom = None
        BY <1>0, <2>2 DEF LinkInv
    <2>8. fifo' /\ marker'.bottom # None => marker'.bottom \in Live' /\ subs'[marker'.bottom] = {}
        BY <2>1, <2>2, <2>3
    <2>9. \A d \in Calls : d \notin changed' => subs'[d] = {}
        BY <2>2 DEF LinkInv
    <2> QED
        BY <2>4, <2>5, <2>6, <2>7, <2>8, <2>9 DEF LinkInv
<1>3. ASSUME NEW c \in Calls, Pop(c) PROVE LinkInv'
    <2>0. pc[c] = "pop"
        BY <1>3 DEF Pop
    <2>1. Live' = Live \ {qkey[c]} /\ qkey[c] = marker.top /\ marker.top \in Live
        BY <1>3, <2>0, PopLive DEF ReadInv, LinkInv
    <2>2. /\ changed' = changed \cup {c} /\ subs' = subs /\ fifo' = fifo
          /\ other[c] = None => marker'.top = None /\ marker'.bottom = None
          /\ other[c] # None => marker'.top = other[c] /\ marker'.bottom = marker.bottom
        BY <1>3 DEF Pop, MarkerPop, Stamped
    <2>3. other[c] # None => other[c] \in subs[marker.top] /\ other[c] \in Live /\ other[c] # marker.top
        BY <2>0, <2>1 DEF ReadInv, LinkInv
    <2>4. \A e \in Live' : e \in Live /\ e # marker.top /\ marker.top \notin subs[e]
        BY <2>1 DEF LinkInv
    <2>5. \A e \in Live' : subs'[e] \subseteq Live' /\ marker'.top \notin subs'[e]
        <3> SUFFICES ASSUME NEW e \in Live' PROVE subs[e] \subseteq Live' /\ marker'.top \notin subs[e]
            BY <2>2
        <3>1. subs[e] \subseteq Live'
            BY <2>1, <2>4 DEF LinkInv
        <3>2. other[c] # None => other[c] \notin subs[e]
            BY <2>1, <2>3, <2>4 DEF LinkInv
        <3>3. None \notin subs[e]
            BY <1>0, <2>4
        <3> QED
            BY <2>2, <3>1, <3>2, <3>3
    <2>6. \A e, f \in Live' : e # f => subs'[e] \cap subs'[f] = {}
        BY <2>2, <2>4 DEF LinkInv
    <2>7. marker'.top # None => marker'.top \in Live'
        BY <2>1, <2>2, <2>3
    <2>8. marker'.top = None <=> marker'.bottom = None
        BY <1>0, <2>1, <2>2 DEF LinkInv
    <2>9. fifo' /\ marker'.bottom # None => marker'.bottom \in Live' /\ subs'[marker'.bottom] = {}
        BY <2>1, <2>2, <2>3 DEF LinkInv
    <2>10. \A d \in Calls : d \notin changed' => subs'[d] = {}
        BY <2>2 DEF LinkInv
    <2> QED
        BY <2>5, <2>6, <2>7, <2>8, <2>9, <2>10 DEF LinkInv
<1>4. ASSUME NEW c \in Calls, Link(c) PROVE LinkInv'
    <2>1. Live' = Live /\ UNCHANGED <<fifo, marker, changed>> /\ subs' = Linked(c)
        BY <1>4, CalmLive DEF Link
    <2>2. /\ other[c] \in Live /\ other[c] # c /\ subs[c] = {} /\ c \in Live
          /\ fifo => marker.top # c /\ marker.bottom = c /\ \A e \in Live : c \notin subs[e]
          /\ ~fifo => marker.top = c /\ \A e \in Live : other[c] \notin subs[e]
        BY <1>4 DEF Link, ChainInv
    <2>3. CASE fifo
        <3>1. \A e \in Calls : subs'[e] = IF e = other[c] THEN subs[e] \cup {c} ELSE subs[e]
            BY <1>0, <2>1, <2>3 DEF Linked
        <3>2. \A e \in Live : subs[e] \subseteq Live /\ marker.top \notin subs[e] /\ c \notin subs[e]
            BY <2>2, <2>3 DEF LinkInv
        <3>a. other[c] \in Live /\ c \in Live /\ marker.top # c /\ Live \subseteq Calls
            BY <1>0, <2>2, <2>3
        <3>3. ASSUME NEW e \in Live PROVE subs'[e] \subseteq Live /\ marker.top \notin subs'[e]
            <4>1. subs'[e] \subseteq subs[e] \cup {c}
                BY <3>1, <3>a
            <4> QED
                BY <3>2, <3>a, <4>1
        <3>4. ASSUME NEW e \in Live, NEW f \in Live, e # f PROVE subs'[e] \cap subs'[f] = {}
            <4>1. subs[e] \cap subs[f] = {} /\ c \notin subs[e] /\ c \notin subs[f]
                BY <3>2, <3>4 DEF LinkInv
            <4>2. /\ e = other[c] => subs'[e] = subs[e] \cup {c}
                  /\ e # other[c] => subs'[e] = subs[e]
                  /\ f = other[c] => subs'[f] = subs[f] \cup {c}
                  /\ f # other[c] => subs'[f] = subs[f]
                BY <3>1, <3>a, Zenon
            <4>3. CASE e = other[c]
                BY <3>4, <4>1, <4>2, <4>3
            <4>4. CASE e # other[c]
                BY <4>1, <4>2, <4>4
            <4> QED
                BY <4>3, <4>4
        <3>5. \A d \in Calls : d \notin changed => subs'[d] = {}
            BY <1>0, <2>2, <3>1 DEF LinkInv
        <3>6. marker.bottom \in Live /\ subs'[marker.bottom] = {}
            BY <1>0, <2>2, <2>3, <3>1
        <3> QED
            BY <2>1, <3>3, <3>4, <3>5, <3>6 DEF LinkInv
    <2>4. CASE ~fifo
        <3>1. \A e \in Calls : subs'[e] = IF e = c THEN {other[c]} ELSE subs[e]
            BY <1>0, <2>1, <2>2, <2>4 DEF Linked
        <3> QED
            BY <1>0, <2>1, <2>2, <2>4, <3>1 DEF LinkInv
    <2> QED
        BY <2>3, <2>4
<1>5. ASSUME NEW c \in Calls, Delete(c) PROVE LinkInv'
    <2>1. Live' = Live /\ UNCHANGED <<fifo, marker, changed>> /\ subs' = [subs EXCEPT ![qkey[c]] = {}]
        BY <1>5, CalmLive DEF Delete
    <2>2. \A e \in Calls : subs'[e] \in {{}, subs[e]}
        BY <1>0, <2>1
    <2> QED
        BY <1>0, <2>1, <2>2 DEF LinkInv
<1> QED
    BY <1>1, <1>2, <1>3, <1>4, <1>5, StepKinds

LEMMA NextChainInv ==
    ~Concurrent /\ TypeInv /\ PcInv /\ LinkInv /\ ChainInv /\ ReadInv /\ TakenInv /\ [Next]_vars => ChainInv'
<1> SUFFICES ASSUME ~Concurrent, TypeInv, PcInv, LinkInv, ChainInv, ReadInv, TakenInv, [Next]_vars PROVE ChainInv'
    OBVIOUS
<1>0. /\ pc \in [Calls -> Pcs] /\ changed \subseteq Calls /\ None \notin Calls
      /\ qkey \in [Calls -> Calls \cup {None}] /\ other \in [Calls -> Calls \cup {None}]
      /\ marker.top \in Calls \cup {None} /\ marker.bottom \in Calls \cup {None}
    BY QueueAssumption DEF QueueAssumption, TypeInv, TypeOK, Markers
<1>a. \A c, d \in Calls : c = d \/ pc[c] \in Resting \/ pc[d] \in Resting
    BY DEF PcInv
<1>b. ASSUME NEW c \in Calls, MayBegin(c) PROVE pc[c] = "idle" /\ \A d \in Calls : pc[d] \in Resting
    BY <1>b, Zenon DEF MayBegin, Resting
<1>c. ASSUME UNCHANGED <<fifo, queueVars, callVars, changed, pc>> PROVE ChainInv'
    <2>1. Live' = Live
        BY <1>c, CalmLive DEF Calm, queueVars, callVars
    <2> QED
        BY <1>c, <2>1 DEF ChainInv, queueVars, callVars
<1> USE <1>0, <1>a DEF Goto, Resting, ChainInv
<1>1. ASSUME NEW c \in Calls, NEW k \in Keys, ReceivePush(c, k) PROVE ChainInv'
    BY <1>1, <1>b DEF ReceivePush, queueVars, callVars, timeVars
<1>2. ASSUME NEW c \in Calls, ReceivePop(c) PROVE ChainInv'
    BY <1>2, <1>b DEF ReceivePop, queueVars, callVars, timeVars
<1>3. ASSUME NEW c \in Calls, SetKey(c) PROVE ChainInv'
    BY <1>3 DEF SetKey, queueVars, callVars, timeVars
<1>4. ASSUME NEW c \in Calls, SetQueueKey(c) PROVE ChainInv'
    BY <1>4 DEF SetQueueKey, queueVars, callVars, timeVars
<1>5. ASSUME NEW c \in Calls, GetExKey(c) PROVE ChainInv'
    BY <1>5 DEF GetExKey, queueVars, callVars, timeVars
<1>6. ASSUME NEW c \in Calls, Push(c) PROVE ChainInv'
    <2>1. /\ pc[c] = "push" /\ c \notin changed /\ Live' = Live \cup {c} /\ Live \subseteq changed
          /\ UNCHANGED <<fifo, subs, other>> /\ pc' = [pc EXCEPT ![c] = IF other[c] = None THEN "stamp" ELSE "chain"]
          /\ marker'.top = IF fifo /\ marker.top # None THEN marker.top ELSE c
          /\ marker'.bottom = IF ~fifo /\ marker.top # None THEN marker.bottom ELSE c
        BY <1>6, PushLive DEF Push, MarkerPush, Stamped, callVars, Live, Pushed
    <2>2. SUFFICES ASSUME NEW d \in Calls, pc'[d] = "chain"
          PROVE  /\ other[d] \in Live' /\ other[d] # d /\ subs[d] = {} /\ d \in Live'
                 /\ fifo => marker'.top # d /\ marker'.bottom = d /\ \A e \in Live' : d \notin subs[e]
                 /\ ~fifo => marker'.top = d /\ \A e \in Live' : other[d] \notin subs[e]
        BY <2>1
    <2>3. d = c /\ other[c] # None
        BY <2>1, <2>2
    <2>4. marker.top # None /\ other[c] = IF fifo THEN marker.bottom ELSE marker.top
        BY <2>1, <2>3 DEF ReadInv
    <2>5. other[c] \in Live /\ subs[c] = {}
        BY <2>1, <2>4 DEF LinkInv
    <2>6. \A e \in Live' : c \notin subs[e] /\ marker.top \notin subs[e]
        BY <2>1, <2>5 DEF LinkInv
    <2>7. marker.top # c
        BY <2>1, <2>4 DEF LinkInv
    <2> QED
        BY <2>1, <2>3, <2>4, <2>5, <2>6, <2>7
<1>7. ASSUME NEW c \in Calls, Chain(c) PROVE ChainInv'
    BY <1>7 DEF Chain, queueVars, callVars, timeVars
<1>8. ASSUME NEW c \in Calls, PlanPop(c) PROVE ChainInv'
    BY <1>8 DEF PlanPop, queueVars, callVars, timeVars
<1>9. ASSUME NEW c \in Calls, GetNextKey(c) PROVE ChainInv'
    BY <1>9 DEF GetNextKey, queueVars, callVars, timeVars
<1>10. ASSUME NEW c \in Calls, Pop(c) PROVE ChainInv'
    BY <1>10 DEF Pop, queueVars, callVars, timeVars
<1>11. ASSUME NEW c \in Calls, GetValue(c) PROVE ChainInv'
    BY <1>11 DEF GetValue, queueVars, callVars, timeVars
<1>12. ASSUME NEW c \in Calls, DelQueueKey(c) PROVE ChainInv'
    BY <1>12 DEF DelQueueKey, queueVars, callVars, timeVars
<1>13. ASSUME NEW c \in Calls, GetKey(c) PROVE ChainInv'
    BY <1>13 DEF GetKey, queueVars, callVars, timeVars
<1>14. ASSUME NEW c \in Calls, DelKey(c) PROVE ChainInv'
    BY <1>14 DEF DelKey, queueVars, callVars, timeVars
<1>15. ASSUME NEW c \in Calls, Stamp(c) PROVE ChainInv'
    BY <1>15 DEF Stamp, queueVars, callVars, timeVars
<1>16. ASSUME NEW c \in Calls, CommandReplicate(c) PROVE ChainInv'
    BY <1>16 DEF CommandReplicate, queueVars, callVars, timeVars
<1>17. ASSUME NEW c \in Calls, ReplyResponse(c) PROVE ChainInv'
    BY <1>17 DEF ReplyResponse, queueVars, callVars, timeVars
<1>18. ASSUME NEW c \in Calls, ChainFails(c) PROVE ChainInv'
    BY <1>18 DEF ChainFails, queueVars, callVars, timeVars
<1>19. ASSUME NEW c \in Calls, GetNextKeyFails(c) PROVE ChainInv'
    BY <1>19 DEF GetNextKeyFails, queueVars, callVars, timeVars
<1>20. ASSUME NEW c \in Calls, ReplicateFails(c) PROVE ChainInv'
    BY <1>20 DEF ReplicateFails, queueVars, callVars, timeVars
<1>21. ASSUME NEW c \in Calls, ReplyFails(c) PROVE ChainInv'
    BY <1>21 DEF ReplyFails, queueVars, callVars, timeVars
<1>22. ASSUME NEW c \in Calls, StepFails(c) PROVE ChainInv'
    BY <1>22 DEF StepFails, Fails, Fragile, queueVars, callVars, timeVars
<1>23. ASSUME NEW c \in Calls, Unanswered(c) PROVE ChainInv'
    BY <1>23 DEF Unanswered, Fails, Fragile, queueVars, callVars, timeVars
<1>24. ASSUME NEW m \in net, ReplKey(m) PROVE ChainInv'
    BY <1>24, <1>c DEF ReplKey
<1>25. CASE UNCHANGED vars
    BY <1>25, <1>c DEF vars
<1>27. ASSUME NEW c \in Calls, GetExKeyFails(c) PROVE ChainInv'
    BY <1>27 DEF GetExKeyFails, queueVars, callVars, timeVars
<1> QED
    BY <1>1, <1>2, <1>3, <1>4, <1>5, <1>6, <1>7, <1>8, <1>9, <1>10, <1>11, <1>12, <1>13, <1>14, <1>15, <1>16, <1>17, <1>18, <1>19, <1>20, <1>21, <1>22, <1>23, <1>24, <1>25, <1>27 DEF Next, QPush, QPop, Finish, Trouble

LEMMA NextReadInv ==
    ~Concurrent /\ TypeInv /\ PcInv /\ LinkInv /\ ReadInv /\ [Next]_vars => ReadInv'
<1> SUFFICES ASSUME ~Concurrent, TypeInv, PcInv, LinkInv, ReadInv, [Next]_vars PROVE ReadInv'
    OBVIOUS
<1>0. /\ pc \in [Calls -> Pcs] /\ changed \subseteq Calls /\ None \notin Calls
      /\ qkey \in [Calls -> Calls \cup {None}] /\ other \in [Calls -> Calls \cup {None}]
      /\ marker.top \in Calls \cup {None} /\ marker.bottom \in Calls \cup {None}
    BY QueueAssumption DEF QueueAssumption, TypeInv, TypeOK, Markers
<1>a. \A c, d \in Calls : c = d \/ pc[c] \in Resting \/ pc[d] \in Resting
    BY DEF PcInv
<1>b. ASSUME NEW c \in Calls, MayBegin(c) PROVE pc[c] = "idle" /\ \A d \in Calls : pc[d] \in Resting
    BY <1>b, Zenon DEF MayBegin, Resting
<1> USE <1>0, <1>a DEF Goto, Resting, ReadInv
<1>1. ASSUME NEW c \in Calls, NEW k \in Keys, ReceivePush(c, k) PROVE ReadInv'
    BY <1>1, <1>b DEF ReceivePush, queueVars, callVars, timeVars
<1>2. ASSUME NEW c \in Calls, ReceivePop(c) PROVE ReadInv'
    BY <1>2, <1>b DEF ReceivePop, queueVars, callVars, timeVars
<1>3. ASSUME NEW c \in Calls, SetKey(c) PROVE ReadInv'
    BY <1>3 DEF SetKey, queueVars, callVars, timeVars
<1>4. ASSUME NEW c \in Calls, SetQueueKey(c) PROVE ReadInv'
    BY <1>4 DEF SetQueueKey, queueVars, callVars, timeVars
<1>5. ASSUME NEW c \in Calls, GetExKey(c) PROVE ReadInv'
    BY <1>5 DEF GetExKey, queueVars, callVars, timeVars
<1>6. ASSUME NEW c \in Calls, Push(c) PROVE ReadInv'
    BY <1>6 DEF Push, queueVars, callVars, timeVars
<1>7. ASSUME NEW c \in Calls, Chain(c) PROVE ReadInv'
    BY <1>7 DEF Chain, queueVars, callVars, timeVars
<1>8. ASSUME NEW c \in Calls, PlanPop(c) PROVE ReadInv'
    BY <1>8 DEF PlanPop, queueVars, callVars, timeVars
<1>9. ASSUME NEW c \in Calls, GetNextKey(c) PROVE ReadInv'
    BY <1>9 DEF GetNextKey, queueVars, callVars, timeVars
<1>10. ASSUME NEW c \in Calls, Pop(c) PROVE ReadInv'
    BY <1>10 DEF Pop, queueVars, callVars, timeVars
<1>11. ASSUME NEW c \in Calls, GetValue(c) PROVE ReadInv'
    BY <1>11 DEF GetValue, queueVars, callVars, timeVars
<1>12. ASSUME NEW c \in Calls, DelQueueKey(c) PROVE ReadInv'
    BY <1>12 DEF DelQueueKey, queueVars, callVars, timeVars
<1>13. ASSUME NEW c \in Calls, GetKey(c) PROVE ReadInv'
    BY <1>13 DEF GetKey, queueVars, callVars, timeVars
<1>14. ASSUME NEW c \in Calls, DelKey(c) PROVE ReadInv'
    BY <1>14 DEF DelKey, queueVars, callVars, timeVars
<1>15. ASSUME NEW c \in Calls, Stamp(c) PROVE ReadInv'
    BY <1>15 DEF Stamp, queueVars, callVars, timeVars
<1>16. ASSUME NEW c \in Calls, CommandReplicate(c) PROVE ReadInv'
    BY <1>16 DEF CommandReplicate, queueVars, callVars, timeVars
<1>17. ASSUME NEW c \in Calls, ReplyResponse(c) PROVE ReadInv'
    BY <1>17 DEF ReplyResponse, queueVars, callVars, timeVars
<1>18. ASSUME NEW c \in Calls, ChainFails(c) PROVE ReadInv'
    BY <1>18 DEF ChainFails, queueVars, callVars, timeVars
<1>19. ASSUME NEW c \in Calls, GetNextKeyFails(c) PROVE ReadInv'
    BY <1>19 DEF GetNextKeyFails, queueVars, callVars, timeVars
<1>20. ASSUME NEW c \in Calls, ReplicateFails(c) PROVE ReadInv'
    BY <1>20 DEF ReplicateFails, queueVars, callVars, timeVars
<1>21. ASSUME NEW c \in Calls, ReplyFails(c) PROVE ReadInv'
    BY <1>21 DEF ReplyFails, queueVars, callVars, timeVars
<1>22. ASSUME NEW c \in Calls, StepFails(c) PROVE ReadInv'
    BY <1>22 DEF StepFails, Fails, Fragile, queueVars, callVars, timeVars
<1>23. ASSUME NEW c \in Calls, Unanswered(c) PROVE ReadInv'
    BY <1>23 DEF Unanswered, Fails, Fragile, queueVars, callVars, timeVars
<1>24. ASSUME NEW m \in net, ReplKey(m) PROVE ReadInv'
    BY <1>24 DEF ReplKey, queueVars, callVars, timeVars
<1>25. CASE UNCHANGED vars
    BY <1>25 DEF vars, queueVars, callVars, timeVars
<1>27. ASSUME NEW c \in Calls, GetExKeyFails(c) PROVE ReadInv'
    <2>1. faults' # 0
        BY <1>27 DEF GetExKeyFails, TypeInv, TypeOK
    <2> QED
        BY <1>27, <2>1 DEF GetExKeyFails, queueVars, callVars, timeVars
<1> QED
    BY <1>1, <1>2, <1>3, <1>4, <1>5, <1>6, <1>7, <1>8, <1>9, <1>10, <1>11, <1>12, <1>13, <1>14, <1>15, <1>16, <1>17, <1>18, <1>19, <1>20, <1>21, <1>22, <1>23, <1>24, <1>25, <1>27 DEF Next, QPush, QPop, Finish, Trouble

LEMMA NextStoredInv ==
    ~Concurrent /\ TypeInv /\ PcInv /\ LinkInv /\ ReadInv /\ StoredInv /\ TakenInv /\ [Next]_vars => StoredInv'
<1> SUFFICES ASSUME ~Concurrent, TypeInv, PcInv, LinkInv, ReadInv, StoredInv, TakenInv, [Next]_vars PROVE StoredInv'
    OBVIOUS
<1>0. /\ pc \in [Calls -> Pcs] /\ changed \subseteq Calls /\ None \notin Calls
      /\ qkey \in [Calls -> Calls \cup {None}] /\ other \in [Calls -> Calls \cup {None}]
      /\ marker.top \in Calls \cup {None} /\ marker.bottom \in Calls \cup {None}
    BY QueueAssumption DEF QueueAssumption, TypeInv, TypeOK, Markers
<1>a. \A c, d \in Calls : c = d \/ pc[c] \in Resting \/ pc[d] \in Resting
    BY DEF PcInv
<1>b. ASSUME NEW c \in Calls, MayBegin(c) PROVE pc[c] = "idle" /\ \A d \in Calls : pc[d] \in Resting
    BY <1>b, Zenon DEF MayBegin, Resting
<1>d. Live' \subseteq stored'
    <2>1. CASE Calm
        <3>1. Live' = Live
            BY <2>1, CalmLive DEF Calm
        <3> QED
            BY <2>1, <3>1 DEF Calm, StoredInv
    <2>2. ASSUME NEW c \in Calls, Push(c) PROVE Live' \subseteq stored'
        BY <2>2, PushLive DEF Push, StoredInv
    <2>3. ASSUME NEW c \in Calls, Pop(c) PROVE Live' \subseteq stored'
        BY <2>3, PopLive DEF Pop, StoredInv
    <2>4. ASSUME NEW c \in Calls, Link(c) PROVE Live' \subseteq stored'
        <3>1. Live' = Live
            BY <2>4, CalmLive DEF Link
        <3> QED
            BY <2>4, <3>1 DEF Link, StoredInv
    <2>5. ASSUME NEW c \in Calls, Delete(c) PROVE Live' \subseteq stored'
        <3>1. Live' = Live
            BY <2>5, CalmLive DEF Delete
        <3>2. Taker(c)
            BY <2>5 DEF Delete, Taker, PcInv, PopPcs, AfterPcs
        <3> QED
            BY <2>5, <3>1, <3>2 DEF Delete, StoredInv, Live
    <2> QED
        BY <2>1, <2>2, <2>3, <2>4, <2>5, StepKinds
<1> DEFINE Inv == /\ \A c \in Calls : pc[c] \in {"exkey", "push"} => c \in stored
                  /\ \A c \in Calls : pc[c] = "getval" => qkey[c] \in stored
                  /\ \A c \in Calls : pc[c] \in {"delqkey", "getkey"} => value[c] = qkey[c]
<1>e. Inv /\ Live \subseteq stored /\ value \in [Calls -> Calls \cup {None}]
    BY DEF StoredInv, TypeInv, TypeOK
<1> USE <1>0, <1>a, <1>e DEF Goto, Resting
<1>1. ASSUME NEW c \in Calls, NEW k \in Keys, ReceivePush(c, k) PROVE Inv'
    BY <1>1, <1>b DEF ReceivePush, queueVars, callVars, timeVars
<1>2. ASSUME NEW c \in Calls, ReceivePop(c) PROVE Inv'
    BY <1>2, <1>b DEF ReceivePop, queueVars, callVars, timeVars
<1>3. ASSUME NEW c \in Calls, SetKey(c) PROVE Inv'
    BY <1>3 DEF SetKey, queueVars, callVars, timeVars
<1>4. ASSUME NEW c \in Calls, SetQueueKey(c) PROVE Inv'
    BY <1>4 DEF SetQueueKey, queueVars, callVars, timeVars
<1>5. ASSUME NEW c \in Calls, GetExKey(c) PROVE Inv'
    BY <1>5 DEF GetExKey, queueVars, callVars, timeVars
<1>6. ASSUME NEW c \in Calls, Push(c) PROVE Inv'
    BY <1>6 DEF Push, queueVars, callVars, timeVars
<1>7. ASSUME NEW c \in Calls, Chain(c) PROVE Inv'
    BY <1>7 DEF Chain, queueVars, callVars, timeVars
<1>8. ASSUME NEW c \in Calls, PlanPop(c) PROVE Inv'
    BY <1>8 DEF PlanPop, queueVars, callVars, timeVars
<1>9. ASSUME NEW c \in Calls, GetNextKey(c) PROVE Inv'
    BY <1>9 DEF GetNextKey, queueVars, callVars, timeVars
<1>10. ASSUME NEW c \in Calls, Pop(c) PROVE Inv'
    BY <1>10 DEF Pop, ReadInv, LinkInv, queueVars, callVars, timeVars
<1>11. ASSUME NEW c \in Calls, GetValue(c) PROVE Inv'
    BY <1>11 DEF GetValue, queueVars, callVars, timeVars
<1>12. ASSUME NEW c \in Calls, DelQueueKey(c) PROVE Inv'
    BY <1>12 DEF DelQueueKey, queueVars, callVars, timeVars
<1>13. ASSUME NEW c \in Calls, GetKey(c) PROVE Inv'
    BY <1>13 DEF GetKey, queueVars, callVars, timeVars
<1>14. ASSUME NEW c \in Calls, DelKey(c) PROVE Inv'
    BY <1>14 DEF DelKey, queueVars, callVars, timeVars
<1>15. ASSUME NEW c \in Calls, Stamp(c) PROVE Inv'
    BY <1>15 DEF Stamp, queueVars, callVars, timeVars
<1>16. ASSUME NEW c \in Calls, CommandReplicate(c) PROVE Inv'
    BY <1>16 DEF CommandReplicate, queueVars, callVars, timeVars
<1>17. ASSUME NEW c \in Calls, ReplyResponse(c) PROVE Inv'
    BY <1>17 DEF ReplyResponse, queueVars, callVars, timeVars
<1>18. ASSUME NEW c \in Calls, ChainFails(c) PROVE Inv'
    BY <1>18 DEF ChainFails, queueVars, callVars, timeVars
<1>19. ASSUME NEW c \in Calls, GetNextKeyFails(c) PROVE Inv'
    BY <1>19 DEF GetNextKeyFails, queueVars, callVars, timeVars
<1>20. ASSUME NEW c \in Calls, ReplicateFails(c) PROVE Inv'
    BY <1>20 DEF ReplicateFails, queueVars, callVars, timeVars
<1>21. ASSUME NEW c \in Calls, ReplyFails(c) PROVE Inv'
    BY <1>21 DEF ReplyFails, queueVars, callVars, timeVars
<1>22. ASSUME NEW c \in Calls, StepFails(c) PROVE Inv'
    BY <1>22 DEF StepFails, Fails, Fragile, queueVars, callVars, timeVars
<1>23. ASSUME NEW c \in Calls, Unanswered(c) PROVE Inv'
    BY <1>23 DEF Unanswered, Fails, Fragile, queueVars, callVars, timeVars
<1>24. ASSUME NEW m \in net, ReplKey(m) PROVE Inv'
    BY <1>24 DEF ReplKey, queueVars, callVars, timeVars
<1>25. ASSUME UNCHANGED vars PROVE Inv'
    BY <1>25 DEF vars, queueVars, callVars, timeVars
<1>27. ASSUME NEW c \in Calls, GetExKeyFails(c) PROVE Inv'
    BY <1>27 DEF GetExKeyFails, queueVars, callVars, timeVars
<1>26. Inv'
    BY <1>1, <1>2, <1>3, <1>4, <1>5, <1>6, <1>7, <1>8, <1>9, <1>10, <1>11, <1>12, <1>13, <1>14, <1>15, <1>16, <1>17, <1>18, <1>19, <1>20, <1>21, <1>22, <1>23, <1>24, <1>25, <1>27 DEF Next, QPush, QPop, Finish, Trouble
<1> QED
    BY <1>26, <1>d DEF StoredInv

LEMMA NextTakenOnce ==
    TypeInv /\ PcInv /\ LinkInv /\ ReadInv /\ TakenInv /\ [Next]_vars => TakenOnce'
<1> SUFFICES ASSUME TypeInv, PcInv, LinkInv, ReadInv, TakenInv, [Next]_vars PROVE TakenOnce'
    OBVIOUS
<1>1. /\ \A c, d \in Calls : Taker(c) /\ Taker(d) /\ c # d => qkey[c] # qkey[d]
      /\ \A c \in Calls : Taker(c) => qkey[c] \in Pushed
    BY DEF TakenInv, TakenOnce
<1>2. /\ Pushed \subseteq Pushed'
      /\ \A c \in Calls : Taker(c) => Taker(c)' /\ qkey'[c] = qkey[c]
    BY Grows
<1>3. ASSUME \A c \in Calls : Taker(c)' => Taker(c) PROVE TakenOnce'
    BY <1>1, <1>2, <1>3 DEF TakenOnce
<1>4. ASSUME NEW c \in Calls, Pop(c) PROVE TakenOnce'
    <2>1. /\ \A d \in Calls : Taker(d)' => Taker(d) \/ d = c
          /\ qkey' = qkey /\ qkey[c] = marker.top /\ marker.top \in Live
        BY <1>4, PopLive DEF Pop, callVars, ReadInv, LinkInv
    <2>2. qkey[c] \in Pushed /\ \A d \in Calls : Taker(d) => qkey[d] # qkey[c]
        BY <2>1 DEF Live
    <2>3. \A d \in Calls : Taker(d)' => qkey[d] \in Pushed'
        BY <1>1, <1>2, <2>1, <2>2
    <2>4. \A d, e \in Calls : Taker(d)' /\ Taker(e)' /\ d # e => qkey[d] # qkey[e]
        BY <1>1, <2>1, <2>2
    <2> QED
        BY <2>1, <2>3, <2>4 DEF TakenOnce
<1>5. CASE Calm
    BY <1>3, <1>5, CalmLive DEF Calm
<1>6. ASSUME NEW c \in Calls, Push(c) PROVE TakenOnce'
    BY <1>3, <1>6, PushLive
<1>7. ASSUME NEW c \in Calls, Link(c) \/ Delete(c) PROVE TakenOnce'
    BY <1>3, <1>7, CalmLive DEF Link, Delete
<1> QED
    BY <1>4, <1>5, <1>6, <1>7, StepKinds

LEMMA NextTakenInv ==
    ~Concurrent /\ TypeInv /\ PcInv /\ LinkInv /\ ReadInv /\ StoredInv /\ TakenInv /\ [Next]_vars => TakenInv'
<1> SUFFICES ASSUME ~Concurrent, TypeInv, PcInv, LinkInv, ReadInv, StoredInv, TakenInv, [Next]_vars PROVE TakenInv'
    OBVIOUS
<1>0. /\ pc \in [Calls -> Pcs] /\ changed \subseteq Calls /\ None \notin Calls
      /\ qkey \in [Calls -> Calls \cup {None}] /\ other \in [Calls -> Calls \cup {None}]
      /\ marker.top \in Calls \cup {None} /\ marker.bottom \in Calls \cup {None}
    BY QueueAssumption DEF QueueAssumption, TypeInv, TypeOK, Markers
<1>a. \A c, d \in Calls : c = d \/ pc[c] \in Resting \/ pc[d] \in Resting
    BY DEF PcInv
<1>b. ASSUME NEW c \in Calls, MayBegin(c) PROVE pc[c] = "idle" /\ \A d \in Calls : pc[d] \in Resting
    BY <1>b, Zenon DEF MayBegin, Resting
<1>d. \A c \in Calls : Taker(c) => Taker(c)' /\ qkey'[c] = qkey[c]
    BY Grows
<1>e. TakenAnswered /\ value \in [Calls -> Calls \cup {None}]
      /\ response \in [Calls -> Responses] /\ outcome \in [Calls -> Responses]
      /\ "ok" \notin Calls /\ "empty" \notin Calls /\ "error" \notin Calls
    BY QueueAssumption DEF QueueAssumption, TypeInv, TypeOK, TakenInv
<1>f. ASSUME NEW c \in Calls, pc[c] \in {"getval", "replicate"}, ~Pushing(c) PROVE Taker(c)
    BY <1>f DEF PcInv, AfterPcs, Taker
<1>g. ASSUME NEW c \in Calls, pc[c] = "getval" PROVE ~Pushing(c)
    BY <1>g DEF PcInv, PopPcs
<1> USE <1>0, <1>d, <1>e DEF TakenAnswered
<1>1. ASSUME NEW c \in Calls, NEW k \in Keys, ReceivePush(c, k) PROVE TakenAnswered'
    BY <1>1 DEF ReceivePush, callVars
<1>2. ASSUME NEW c \in Calls, ReceivePop(c) PROVE TakenAnswered'
    BY <1>2 DEF ReceivePop, callVars
<1>3. ASSUME NEW c \in Calls, SetKey(c) PROVE TakenAnswered'
    BY <1>3 DEF SetKey, callVars
<1>4. ASSUME NEW c \in Calls, SetQueueKey(c) PROVE TakenAnswered'
    BY <1>4 DEF SetQueueKey, callVars
<1>5. ASSUME NEW c \in Calls, GetExKey(c) PROVE TakenAnswered'
    BY <1>5 DEF GetExKey, callVars
<1>6. ASSUME NEW c \in Calls, Push(c) PROVE TakenAnswered'
    BY <1>6 DEF Push, callVars
<1>7. ASSUME NEW c \in Calls, Chain(c) PROVE TakenAnswered'
    BY <1>7 DEF Chain, callVars
<1>8. ASSUME NEW c \in Calls, PlanPop(c) PROVE TakenAnswered'
    BY <1>8 DEF PlanPop, callVars
<1>9. ASSUME NEW c \in Calls, GetNextKey(c) PROVE TakenAnswered'
    BY <1>9 DEF GetNextKey, callVars
<1>10. ASSUME NEW c \in Calls, Pop(c) PROVE TakenAnswered'
    BY <1>10 DEF Pop, callVars
<1>11. ASSUME NEW c \in Calls, GetValue(c) PROVE TakenAnswered'
    BY <1>11, <1>f, <1>g DEF GetValue, callVars
<1>12. ASSUME NEW c \in Calls, DelQueueKey(c) PROVE TakenAnswered'
    BY <1>12 DEF DelQueueKey, callVars
<1>13. ASSUME NEW c \in Calls, GetKey(c) PROVE TakenAnswered'
    BY <1>13 DEF GetKey, callVars
<1>14. ASSUME NEW c \in Calls, DelKey(c) PROVE TakenAnswered'
    BY <1>14 DEF DelKey, callVars
<1>15. ASSUME NEW c \in Calls, Stamp(c) PROVE TakenAnswered'
    BY <1>15 DEF Stamp, callVars
<1>16. ASSUME NEW c \in Calls, CommandReplicate(c) PROVE TakenAnswered'
    BY <1>16 DEF CommandReplicate, callVars, SetResponse
<1>17. ASSUME NEW c \in Calls, ReplyResponse(c) PROVE TakenAnswered'
    BY <1>17 DEF ReplyResponse, callVars
<1>18. ASSUME NEW c \in Calls, ChainFails(c) PROVE TakenAnswered'
    BY <1>18 DEF ChainFails, callVars
<1>19. ASSUME NEW c \in Calls, GetNextKeyFails(c) PROVE TakenAnswered'
    BY <1>19 DEF GetNextKeyFails, callVars
<1>20. ASSUME NEW c \in Calls, ReplicateFails(c) PROVE TakenAnswered'
    BY <1>20 DEF ReplicateFails, callVars, SetResponse
<1>21. ASSUME NEW c \in Calls, ReplyFails(c) PROVE TakenAnswered'
    BY <1>21 DEF ReplyFails, callVars
<1>22. ASSUME NEW c \in Calls, StepFails(c) PROVE TakenAnswered'
    BY <1>22 DEF StepFails, Fails, Fragile, callVars
<1>23. ASSUME NEW c \in Calls, Unanswered(c) PROVE TakenAnswered'
    BY <1>23 DEF Unanswered, Fails, Fragile, callVars
<1>24. ASSUME NEW m \in net, ReplKey(m) PROVE TakenAnswered'
    BY <1>24 DEF ReplKey, callVars
<1>25. ASSUME UNCHANGED vars PROVE TakenAnswered'
    BY <1>25 DEF vars, queueVars, callVars, timeVars
<1>27. ASSUME NEW c \in Calls, GetExKeyFails(c) PROVE TakenAnswered'
    BY <1>27 DEF GetExKeyFails, callVars
<1>26. TakenAnswered'
    BY <1>1, <1>2, <1>3, <1>4, <1>5, <1>6, <1>7, <1>8, <1>9, <1>10, <1>11, <1>12, <1>13, <1>14, <1>15, <1>16, <1>17, <1>18, <1>19, <1>20, <1>21, <1>22, <1>23, <1>24, <1>25, <1>27 DEF Next, QPush, QPop, Finish, Trouble
<1> QED
    BY <1>26, NextTakenOnce DEF TakenInv

LEMMA NextCopyInv ==
    TypeInv /\ PcInv /\ StoredInv /\ TakenInv /\ CopyInv /\ [Next]_vars => CopyInv'
<1> SUFFICES ASSUME TypeInv, PcInv, StoredInv, TakenInv, CopyInv, [Next]_vars PROVE CopyInv'
    OBVIOUS
<1>0. /\ pc \in [Calls -> Pcs] /\ ts \in [Calls -> Nat] /\ clock \in Nat /\ faults \in Nat
      /\ marker.mtime \in Nat /\ copy.mtime \in Nat /\ \A m \in net : m.ts \in Nat /\ m.marker.mtime \in Nat
    BY QueueAssumption DEF QueueAssumption, TypeInv, TypeOK, Markers
<1>1. ASSUME UNCHANGED <<marker, timeVars>>,
             faults' # 0 \/ (faults' = faults /\ \A c \in Calls : ToBeSent(c) => ToBeSent(c)')
      PROVE  CopyInv'
    BY <1>1 DEF CopyInv, Sent, timeVars
<1>2. ASSUME NEW c \in Calls, \/ ChainFails(c) \/ GetExKeyFails(c) \/ GetNextKeyFails(c) \/ ReplicateFails(c)
                               \/ ReplyFails(c) \/ StepFails(c) \/ Unanswered(c)
      PROVE  CopyInv'
    BY <1>0, <1>1, <1>2 DEF ChainFails, GetExKeyFails, GetNextKeyFails, ReplicateFails, ReplyFails, StepFails, Unanswered, Fails, queueVars
<1>3. ASSUME NEW c \in Calls, NEW k \in Keys, ReceivePush(c, k) PROVE CopyInv'
    <2>1. pc[c] = "idle" /\ (pc' = [pc EXCEPT ![c] = "setkey"] \/ pc' = [pc EXCEPT ![c] = "setqkey"])
        BY <1>3 DEF ReceivePush, MayBegin, Goto
    <2>2. UNCHANGED <<marker, timeVars, faults>>
        BY <1>3 DEF ReceivePush, queueVars
    <2> QED
        BY <1>0, <1>1, <2>1, <2>2 DEF ToBeSent, AfterPcs, timeVars
<1>4. ASSUME NEW c \in Calls, ReceivePop(c) PROVE CopyInv'
    BY <1>0, <1>1, <1>4 DEF ReceivePop, MayBegin, Goto, ToBeSent, AfterPcs, queueVars, timeVars
<1>5. ASSUME NEW c \in Calls, SetKey(c) \/ SetQueueKey(c) PROVE CopyInv'
    BY <1>0, <1>1, <1>5 DEF SetKey, SetQueueKey, Goto, ToBeSent, AfterPcs, timeVars
<1>6. ASSUME NEW c \in Calls, GetExKey(c) PROVE CopyInv'
    <2>1. pc[c] = "exkey" /\ pc' = [pc EXCEPT ![c] = "push"] /\ UNCHANGED <<marker, timeVars, faults>>
        BY <1>6 DEF GetExKey, Goto, queueVars
    <2> QED
        BY <1>0, <1>1, <2>1 DEF ToBeSent, AfterPcs, timeVars
<1>7. ASSUME NEW c \in Calls, PlanPop(c) \/ GetNextKey(c) PROVE CopyInv'
    <2>1. /\ pc[c] \in {"plan", "next"} /\ UNCHANGED <<marker, timeVars, faults>>
          /\ \E l \in {"reply", "next", "pop"} : pc' = [pc EXCEPT ![c] = l]
        BY <1>7 DEF PlanPop, GetNextKey, Goto, queueVars
    <2> QED
        BY <1>0, <1>1, <2>1 DEF ToBeSent, AfterPcs, timeVars
<1>8. ASSUME NEW c \in Calls, Push(c) \/ Pop(c) PROVE CopyInv'
    <2>1. /\ marker'.mtime = clock + 1 /\ clock' = clock + 1 /\ UNCHANGED <<copy, ts, net>>
          /\ \E l \in {"stamp", "chain", "getval"} : pc' = [pc EXCEPT ![c] = l]
        BY <1>8 DEF Push, Pop, MarkerPush, MarkerPop, Stamped, Goto
    <2>2. ToBeSent(c)'
        BY <1>0, <2>1 DEF ToBeSent, AfterPcs
    <2> QED
        BY <1>0, <2>1, <2>2 DEF CopyInv
<1>9. ASSUME NEW c \in Calls, Chain(c) \/ DelQueueKey(c) \/ GetValue(c) \/ DelKey(c) PROVE CopyInv'
    <2>1. /\ UNCHANGED <<marker, timeVars, faults>>
          /\ \E l \in {"stamp", "getkey", "delqkey"} : pc' = [pc EXCEPT ![c] = l]
        BY <1>9 DEF Chain, DelQueueKey, GetValue, DelKey, Goto, queueVars
    <2> QED
        BY <1>0, <1>1, <2>1 DEF ToBeSent, AfterPcs, timeVars
<1>10. ASSUME NEW c \in Calls, GetKey(c) PROVE CopyInv'
    <2>1. pc[c] = "getkey" /\ c \in changed /\ ~Pushing(c)
        BY <1>10 DEF GetKey, PcInv, PopPcs, AfterPcs
    <2>2. value[c] # None
        BY <2>1, QueueAssumption DEF QueueAssumption, StoredInv, TakenInv, TakenOnce, Taker, Pushed, TypeInv, TypeOK
    <2>3. /\ UNCHANGED <<marker, timeVars, faults>> /\ pc' = [pc EXCEPT ![c] = "delkey"]
        BY <1>10, <2>2 DEF GetKey, Goto, queueVars
    <2> QED
        BY <1>0, <1>1, <2>3 DEF ToBeSent, AfterPcs, timeVars
<1>11. ASSUME NEW c \in Calls, Stamp(c) PROVE CopyInv'
    <2>1. /\ UNCHANGED <<marker, copy, net>> /\ clock' = clock + 1 /\ ts' = [ts EXCEPT ![c] = clock + 1]
          /\ pc' = [pc EXCEPT ![c] = "replicate"]
        BY <1>11 DEF Stamp, Goto, queueVars
    <2>2. ToBeSent(c)'
        BY <1>0, <2>1 DEF ToBeSent, AfterPcs, CopyInv
    <2> QED
        BY <1>0, <2>1, <2>2 DEF CopyInv
<1>12. ASSUME NEW c \in Calls, CommandReplicate(c) PROVE CopyInv'
    <2>0. PICK m : m = [ts |-> ts[c], marker |-> marker]
        OBVIOUS
    <2>1. /\ UNCHANGED <<marker, copy, clock, ts, faults>> /\ net' = net \cup {m}
          /\ pc' = [pc EXCEPT ![c] = "reply"] /\ pc[c] = "replicate"
        BY <1>12, <2>0 DEF CommandReplicate, Goto, queueVars
    <2>2. m.ts = ts[c] /\ m.marker = marker
        BY <2>0
    <2>3. ASSUME NEW d \in Calls, ToBeSent(d) PROVE Sent(m)' \/ ToBeSent(d)'
        BY <1>0, <2>1, <2>2, <2>3 DEF ToBeSent, Sent
    <2>4. faults' = 0 => copy' = marker' \/ (\E n \in net' : Sent(n)') \/ \E d \in Calls : ToBeSent(d)'
        BY <2>1, <2>3 DEF CopyInv, Sent
    <2>5. /\ \A n \in net' : n.ts <= clock /\ n.marker.mtime <= marker.mtime
          /\ \A n \in net' : n.marker = marker \/ n.ts < marker.mtime
        BY <1>0, <2>1, <2>2 DEF CopyInv
    <2> QED
        BY <2>1, <2>4, <2>5 DEF CopyInv
<1>13. ASSUME NEW c \in Calls, ReplyResponse(c) PROVE CopyInv'
    BY <1>0, <1>1, <1>13 DEF ReplyResponse, Goto, ToBeSent, AfterPcs, queueVars, timeVars
<1>14. ASSUME NEW m \in net, ReplKey(m) PROVE CopyInv'
    <2>1. /\ UNCHANGED <<marker, clock, ts, faults, pc>> /\ net' = net \ {m}
          /\ m.ts < copy.mtime => copy' = copy
          /\ ~(m.ts < copy.mtime) => copy' = m.marker
        BY <1>14 DEF ReplKey, queueVars
    <2>2. copy'.mtime <= marker.mtime
        BY <1>0, <2>1 DEF CopyInv
    <2>3. copy = marker => copy' = marker
        BY <1>0, <2>1 DEF CopyInv
    <2>4. Sent(m) => copy' = marker
        BY <1>0, <2>1 DEF CopyInv, Sent
    <2>5. \A n \in net : n = m \/ n \in net'
        BY <2>1
    <2>6. \A d \in Calls : ToBeSent(d) => ToBeSent(d)'
        BY <2>1 DEF ToBeSent
    <2>7. faults' = 0 => copy' = marker' \/ (\E n \in net' : Sent(n)') \/ \E d \in Calls : ToBeSent(d)'
        BY <2>1, <2>3, <2>4, <2>5, <2>6 DEF CopyInv, Sent
    <2> QED
        BY <2>1, <2>2, <2>7 DEF CopyInv
<1>15. CASE UNCHANGED vars
    BY <1>1, <1>15 DEF vars, queueVars, ToBeSent, timeVars
<1> QED
    BY <1>2, <1>3, <1>4, <1>5, <1>6, <1>7, <1>8, <1>9, <1>10, <1>11, <1>12, <1>13, <1>14, <1>15
       DEF Next, QPush, QPop, Finish, Trouble

LEMMA InitTypes == Init => TypeInv
BY QueueAssumption DEF QueueAssumption, Init, TypeInv, TypeOK, NoMarker, Markers, Responses, Pcs

LEMMA InitQueue == Init => QueueInv
<1> SUFFICES ASSUME Init PROVE QueueInv
    OBVIOUS
<1>1. /\ changed = {} /\ marker = NoMarker /\ copy = NoMarker /\ clock = 0 /\ net = {} /\ faults = 0
      /\ \A c \in Calls : /\ pc[c] = "idle" /\ asked[c] = None /\ subs[c] = {} /\ other[c] = None
                          /\ value[c] = None /\ response[c] = None /\ outcome[c] = None /\ ts[c] = 0
      /\ None \notin Calls
    BY QueueAssumption DEF Init, QueueAssumption
<1>2. Live = {} /\ Pushed = {} /\ \A c \in Calls : ~Taker(c)
    BY <1>1 DEF Live, Pushed, Taker
<1>3. PcInv /\ ReadInv
    BY <1>1 DEF PcInv, ReadInv, Pushing, PushPcs, PopPcs, BeforePcs, AfterPcs, Resting
<1>4. LinkInv /\ ChainInv /\ StoredInv /\ TakenInv
    BY <1>1, <1>2 DEF LinkInv, ChainInv, StoredInv, TakenInv, TakenOnce, TakenAnswered, NoMarker
<1>5. CopyInv
    BY <1>1 DEF CopyInv, NoMarker
<1> QED
    BY <1>3, <1>4, <1>5 DEF QueueInv

\* The type invariant holds for any number of commands at a time.
THEOREM TypeCorrect == Spec => []TypeOK
<1>1. Spec => []TypeInv
    BY InitTypes, NextTypes, PTL DEF Spec
<1>2. TypeInv => TypeOK
    BY DEF TypeInv
<1> QED
    BY <1>1, <1>2, PTL

-----------------------------------------------------------------------------
LEMMA QueueInvHolds == ~Concurrent /\ Spec => [](TypeInv /\ QueueInv)
<1>1. ASSUME ~Concurrent, TypeInv /\ QueueInv, [Next]_vars PROVE (TypeInv /\ QueueInv)'
    BY <1>1, NextTypes, NextPcInv, NextLinkInv, NextChainInv, NextReadInv, NextStoredInv, NextTakenInv, NextCopyInv
       DEF QueueInv
<1>2. CASE ~Concurrent
    <2>1. TypeInv /\ QueueInv /\ [Next]_vars => (TypeInv /\ QueueInv)'
        BY <1>1, <1>2
    <2>2. Init => TypeInv /\ QueueInv
        BY InitTypes, InitQueue
    <2> QED
        BY <2>1, <2>2, PTL DEF Spec
<1> QED
    BY <1>2

\* When one command is executed at a time and no step has failed, the other
\* server holds the marker whenever nothing is going on.
THEOREM MarkerIsReplicated == ~Concurrent /\ Spec => []MarkerReplicated
<1>1. TypeInv /\ QueueInv => MarkerReplicated
    <2> SUFFICES ASSUME TypeInv, QueueInv, Quiet, faults = 0
                 PROVE  copy = marker
        BY DEF MarkerReplicated
    <2> QED
        BY DEF QueueInv, CopyInv, Quiet, ToBeSent, AfterPcs
<1> QED
    BY <1>1, QueueInvHolds, PTL

\* When one command is executed at a time no element is popped twice, whatever
\* fails.
THEOREM NothingIsPoppedTwice == ~Concurrent /\ Spec => []PoppedOnce
<1>1. TypeInv /\ QueueInv => PoppedOnce
    BY DEF QueueInv, TakenInv, TakenOnce, TakenAnswered, PoppedOnce
<1> QED
    BY <1>1, QueueInvHolds, PTL

=============================================================================
