------------------------- MODULE DkcQueueOrderProofs -------------------------
(***************************************************************************)
(* Proof that DkcQueue implements LossyQueue when one command is executed  *)
(* at a time, for any number of commands: however the marker, the links    *)
(* and the values change one after the other, the elements one finds from  *)
(* the marker on are a queue.                                              *)
(***************************************************************************)
EXTENDS DkcQueueProofs, FiniteSetTheorems, SequenceTheorems, WellFoundedInduction

-----------------------------------------------------------------------------
(* What From computes.  It is defined by recursion, and the induction the  *)
(* proofs need is taken over sets of numbers: a set of counterexamples     *)
(* would have a least member.                                              *)

LEMMA Least == ASSUME NEW S \in SUBSET Nat, S # {} PROVE \E n \in S : \A m \in S : n <= m
<1> DEFINE R == {ss \in Nat \X Nat : ss[1] < ss[2]}
<1>1. OpToRel(<, Nat) = R
    BY DEF OpToRel
<1>2. IsWellFoundedOn(R, Nat)
    BY <1>1, NatLessThanWellFounded, Zenon
<1> HIDE DEF R
<1>3. PICK n \in S : \A m \in S : ~(<<m, n>> \in R)
    BY <1>2, WFMin
<1>4. ASSUME NEW m \in S PROVE n <= m
    <2>1. ~(<<m, n>> \in R) /\ m \in Nat /\ n \in Nat
        BY <1>3
    <2> QED
        BY <2>1 DEF R
<1> QED
    BY <1>4

Ends == Calls \cup {None}
Size == Cardinality(Calls)
Body(f, n) == [e \in Ends |-> IF e = None \/ n = 0 THEN <<>> ELSE <<e>> \o f[n - 1][Following(e)]]

LEMMA SizeIsNat == Size \in Nat
BY QueueAssumption, FS_CardinalityType DEF QueueAssumption, Size

LEMMA FromDef == From = [n \in 0..Size |-> Body(From, n)]
<1> DEFINE Short(k) == \E f : f = [n \in 0..k |-> Body(f, n)]
           Bad == {k \in 0..Size : ~Short(k)}
<1>1. Size \in Nat
    BY SizeIsNat
<1>2. Short(0)
    <2>1. PICK f : f = [n \in 0..0 |-> [e \in Ends |-> <<>>]]
        OBVIOUS
    <2>2. f = [n \in 0..0 |-> Body(f, n)]
        BY <2>1 DEF Body
    <2> QED
        BY <2>2
<1>3. ASSUME NEW k \in Nat, k > 0, Short(k - 1) PROVE Short(k)
    <2>1. PICK f : f = [n \in 0..(k - 1) |-> Body(f, n)]
        BY <1>3
    <2>2. PICK g : g = [n \in 0..k |-> Body(f, n)]
        OBVIOUS
    <2>3. \A n \in 0..(k - 1) : g[n] = f[n]
        <3>1. \A n \in 0..(k - 1) : f[n] = Body(f, n)
            BY <2>1
        <3> QED
            BY <2>2, <3>1
    <2>4. \A n \in 0..k : Body(f, n) = Body(g, n)
        <3> SUFFICES ASSUME NEW n \in 0..k PROVE Body(f, n) = Body(g, n)
            OBVIOUS
        <3>1. CASE n = 0
            BY <3>1 DEF Body
        <3>2. CASE n # 0
            <4>1. n - 1 \in 0..(k - 1)
                BY <3>2
            <4>2. g[n - 1] = f[n - 1]
                BY <2>3, <4>1
            <4> QED
                BY <4>2 DEF Body
        <3> QED
            BY <3>1, <3>2
    <2>5. g = [n \in 0..k |-> Body(g, n)]
        BY <2>2, <2>4
    <2> QED
        BY <2>5
<1> HIDE DEF Short
<1>4. Bad = {}
    <2> SUFFICES ASSUME Bad # {} PROVE FALSE
        OBVIOUS
    <2>0. Bad \in SUBSET Nat
        BY <1>1
    <2> HIDE DEF Bad
    <2>1. PICK k \in Bad : \A m \in Bad : k <= m
        BY <2>0, Least
    <2> USE DEF Bad
    <2>2. k \in 0..Size /\ ~Short(k)
        OBVIOUS
    <2>3. k > 0
        BY <1>2, <2>2
    <2>4. k - 1 \in 0..Size /\ k - 1 \notin Bad
        BY <1>1, <2>1, <2>2, <2>3
    <2>5. Short(k - 1)
        BY <2>4
    <2> QED
        BY <1>3, <2>2, <2>3, <2>5
<1>5. Short(Size)
    BY <1>1, <1>4
<1>6. PICK f : f = [n \in 0..Size |-> Body(f, n)]
    BY <1>5 DEF Short
<1> QED
    BY <1>6, Zenon DEF From, Body, Ends, Size

LEMMA FromStep ==
    ASSUME NEW e \in Ends, NEW n \in 0..Size
    PROVE  From[n][e] = IF e = None \/ n = 0 THEN <<>> ELSE <<e>> \o From[n - 1][Following(e)]
<1>1. From[n] = Body(From, n)
    BY FromDef
<1> QED
    BY <1>1 DEF Body

\* q is what one finds on the way from the first element.
Chained(q) ==
    /\ q \in Seq(Calls)
    /\ \A i \in 1..Len(q) : q[i] \in Live
    /\ \A i, j \in 1..Len(q) : q[i] = q[j] => i = j
    /\ marker.top = IF q = <<>> THEN None ELSE q[1]
    /\ \A i \in 1..Len(q) : After(q[i]) = IF i = Len(q) THEN {} ELSE {q[i + 1]}

LEMMA ChainIsShort ==
    ASSUME NEW q \in Seq(Calls), \A i, j \in 1..Len(q) : q[i] = q[j] => i = j
    PROVE  Len(q) \in 0..Size
<1>1. q \in Injection(1..Len(q), Calls) /\ Len(q) \in Nat
    BY DEF Injection, IsInjective
<1>2. Cardinality(1..Len(q)) <= Size
    BY <1>1, FS_Injection, QueueAssumption DEF QueueAssumption, Size
<1>3. Cardinality(1..Len(q)) = Len(q)
    <2>1. PICK k \in Nat : k = Len(q)
        BY <1>1
    <2>2. Cardinality(1..k) = IF 1 > k THEN 0 ELSE k - 1 + 1
        BY FS_Interval
    <2>3. Cardinality(1..k) = k
        BY <2>2
    <2> QED
        BY <2>1, <2>3, Zenon
<1> QED
    BY <1>1, <1>2, <1>3, SizeIsNat

LEMMA ElementsAre == \A q : Chained(q) => Elements = q
<1> SUFFICES ASSUME NEW q, Chained(q) PROVE Elements = q
    OBVIOUS
<1>1. /\ q \in Seq(Calls) /\ Len(q) \in 0..Size /\ Size \in Nat /\ None \notin Calls
      /\ \A i \in 1..Len(q) : q[i] \in Calls
    BY ChainIsShort, SizeIsNat, QueueAssumption DEF Chained, QueueAssumption
<1> DEFINE Good(n) == \A i \in 1..Len(q) : Len(q) - i < n => From[n][q[i]] = SubSeq(q, i, Len(q))
           Bad == {n \in 0..Size : ~Good(n)}
<1>2. Good(0)
    BY <1>1
<1>3. ASSUME NEW n \in 1..Size, Good(n - 1) PROVE Good(n)
    <2> SUFFICES ASSUME NEW i \in 1..Len(q), Len(q) - i < n PROVE From[n][q[i]] = SubSeq(q, i, Len(q))
        OBVIOUS
    <2>1. From[n][q[i]] = <<q[i]>> \o From[n - 1][Following(q[i])]
        <3>1. q[i] \in Ends /\ q[i] # None /\ n \in 0..Size /\ n # 0
            BY <1>1 DEF Ends
        <3> QED
            BY <3>1, FromStep
    <2>2. SubSeq(q, i, Len(q)) = <<q[i]>> \o SubSeq(q, i + 1, Len(q))
        BY <1>1, SubSeqRecursiveFirst
    <2>3. CASE i = Len(q)
        <3>1. Following(q[i]) = None
            BY <2>3 DEF Chained, Following
        <3>2. From[n - 1][None] = <<>>
            <4>1. None \in Ends /\ n - 1 \in 0..Size
                BY <1>1 DEF Ends
            <4> QED
                BY <4>1, FromStep
        <3>3. SubSeq(q, i + 1, Len(q)) = <<>>
            BY <1>1, <2>3, SubSeqEmpty
        <3> QED
            BY <2>1, <2>2, <3>1, <3>2, <3>3
    <2>4. CASE i # Len(q)
        <3>1. After(q[i]) = {q[i + 1]}
            BY <2>4 DEF Chained
        <3>2. Following(q[i]) = q[i + 1]
            BY <3>1 DEF Following
        <3>3. From[n - 1][q[i + 1]] = SubSeq(q, i + 1, Len(q))
            BY <1>1, <1>3, <2>4
        <3> QED
            BY <2>1, <2>2, <3>2, <3>3
    <2> QED
        BY <2>3, <2>4
<1> HIDE DEF Good
<1>4. Bad = {}
    <2> SUFFICES ASSUME Bad # {} PROVE FALSE
        OBVIOUS
    <2>0. Bad \in SUBSET Nat
        BY <1>1
    <2> HIDE DEF Bad
    <2>1. PICK n \in Bad : \A m \in Bad : n <= m
        BY <2>0, Least
    <2> USE DEF Bad
    <2>2. n \in 1..Size
        BY <1>1, <1>2
    <2>3. n - 1 \in 0..Size /\ n - 1 \notin Bad
        BY <1>1, <2>1, <2>2
    <2> QED
        BY <1>3, <2>2, <2>3
<1>5. Good(Size)
    BY <1>1, <1>4
<1>6. CASE q = <<>>
    <2>1. Elements = From[Size][None]
        BY <1>6 DEF Chained, Elements, Size
    <2>2. None \in Ends /\ Size \in 0..Size
        BY <1>1 DEF Ends
    <2> QED
        BY <1>6, <2>1, <2>2, FromStep
<1>7. CASE q # <<>>
    <2>1. Elements = From[Size][q[1]] /\ 1 \in 1..Len(q)
        BY <1>1, <1>7 DEF Chained, Elements, Size
    <2>2. Elements = SubSeq(q, 1, Len(q))
        BY <1>1, <1>5, <2>1 DEF Good
    <2> QED
        BY <1>1, <2>2, SubSeqFull
<1> QED
    BY <1>6, <1>7

\* The same of the next state.
LEMMA ElementsAreNext == (\A q : Chained(q) => Elements = q)'
BY ElementsAre, PTL
-----------------------------------------------------------------------------
(* How the steps change the way from the first element.                    *)

LEMMA AloneWith ==
    ASSUME PcInv, NEW c \in Calls, pc[c] \notin Resting
    PROVE  \A d \in Calls : d # c => pc[d] \in Resting
BY DEF PcInv

LEMMA NothingPending ==
    ASSUME \A d \in Calls : pc[d] # "chain"
    PROVE  \A e \in Calls : After(e) = subs[e]
BY DEF After, Pending

\* A link that is about to be added.
Adding(c, e) == IF fifo THEN IF e = other[c] THEN {c} ELSE {}
                        ELSE IF e = c THEN {other[c]} ELSE {}

LEMMA OnePending ==
    ASSUME NEW c \in Calls, pc[c] = "chain", \A d \in Calls : d # c => pc[d] # "chain"
    PROVE  \A e \in Calls : After(e) = subs[e] \cup Adding(c, e)
<1> SUFFICES ASSUME NEW e \in Calls PROVE Pending(e) = Adding(c, e)
    BY DEF After
<1>1. CASE fifo
    BY <1>1 DEF Pending, Adding
<1>2. CASE ~fifo
    BY <1>2 DEF Pending, Adding
<1> QED
    BY <1>1, <1>2

LEMMA SameWay ==
    ASSUME NEW q, Chained(q), marker'.top = marker.top, Live \subseteq Live',
           \A e \in Live : After(e)' = After(e)
    PROVE  Chained(q)'
BY DEF Chained

\* The way ends at x, if it leads there.
LEMMA ShorterWay ==
    ASSUME NEW q, Chained(q), marker'.top = marker.top, Live' = Live,
           NEW x, \A i \in 1..Len(q) : q[i] = x => After(x)' = {}, \A e \in Live : e # x => After(e)' = After(e)
    PROVE  \E p : IsPrefix(p, q) /\ Chained(p)'
<1>1. q \in Seq(Calls) /\ Len(q) \in Nat /\ \A i \in 1..Len(q) : q[i] \in Live
    BY DEF Chained
<1>2. CASE \A i \in 1..Len(q) : q[i] # x
    <2>1. Chained(q)'
        BY <1>1, <1>2 DEF Chained
    <2>2. IsPrefix(q, q)
        BY <1>1, SubSeqFull DEF IsPrefix
    <2> QED
        BY <2>1, <2>2, Zenon
<1>3. ASSUME NEW k \in 1..Len(q), q[k] = x PROVE \E p : IsPrefix(p, q) /\ Chained(p)'
    <2>0. PICK p : p = SubSeq(q, 1, k)
        OBVIOUS
    <2>1. p \in Seq(Calls) /\ Len(p) = k /\ \A i \in 1..k : p[i] = q[i]
        <3>1. \A i \in 1..k : q[i] \in Calls
            BY <1>1, ElementOfSeq
        <3> QED
            BY <2>0, <3>1, SubSeqProperties
    <2>2. \A i \in 1..k : After(p[i])' = IF i = k THEN {} ELSE {p[i + 1]}
        <3> SUFFICES ASSUME NEW i \in 1..k PROVE After(p[i])' = IF i = k THEN {} ELSE {p[i + 1]}
            OBVIOUS
        <3>0. PICK e : e = p[i] /\ e = q[i]
            BY <2>1
        <3>1. CASE i = k
            <4>1. e = x
                BY <1>3, <3>0, <3>1
            <4>2. After(e)' = {}
                BY <1>3, <4>1, Zenon
            <4> QED
                BY <3>0, <3>1, <4>2, Zenon
        <3>2. CASE i # k
            <4>1. i \in 1..Len(q) /\ q[i] # x /\ i # Len(q) /\ q[i] \in Live
                BY <1>1, <1>3, <3>2 DEF Chained
            <4>2. After(e) = {q[i + 1]}
                BY <3>0, <4>1 DEF Chained
            <4>3. After(e)' = After(e)
                BY <3>0, <4>1, Zenon
            <4>4. p[i + 1] = q[i + 1]
                BY <1>1, <2>1, <3>2
            <4> QED
                BY <3>0, <3>2, <4>2, <4>3, <4>4, Zenon
        <3> QED
            BY <3>1, <3>2
    <2>3. /\ \A i \in 1..k : p[i] \in Live' /\ p # <<>> /\ p[1] = q[1] /\ q # <<>>
          /\ \A i, j \in 1..k : p[i] = p[j] => i = j
        BY <1>1, <2>1 DEF Chained
    <2>4. Chained(p)'
        BY <1>1, <2>1, <2>2, <2>3 DEF Chained
    <2>5. IsPrefix(p, q)
        BY <1>1, <2>0, <2>1 DEF IsPrefix
    <2> QED
        BY <2>4, <2>5, Zenon
<1> QED
    BY <1>2, <1>3

-----------------------------------------------------------------------------
(* The invariants of the refinement.                                       *)

\* As long as nothing has failed no element is off the way, and in a fifo
\* queue the way ends at the last element.
OnTheWay(q) ==
    faults = 0 =>
        /\ \A e \in Live : \E i \in 1..Len(q) : q[i] = e
        /\ fifo /\ q # <<>> => marker.bottom = q[Len(q)]
WayInv == \E q : Chained(q) /\ OnTheWay(q)

\* Without a fault a pop that found no next element takes the only one.
PopInv ==
    \A c \in Calls : pc[c] = "pop" /\ other[c] = None /\ faults = 0 => subs[qkey[c]] = {}

\* What a command is about to answer is what it has done.
AnswerOf(c) ==
    /\ pc[c] # "done" => outcome[c] = None
    /\ pc[c] \in {"getkey", "delkey"} => keyqueue
    /\ pc[c] \in {"stamp", "replicate"} /\ ~Pushing(c) /\ ~keyqueue => value[c] = qkey[c]
    /\ pc[c] = "reply" =>
          /\ response[c] # None
          /\ response[c] = "ok" => c \in changed /\ Pushing(c)
          /\ response[c] = "empty" => c \in changed /\ ~Pushing(c) /\ keyqueue
          /\ response[c] = "error" /\ faults = 0 => c \notin changed /\ marker.top = None
AnswerInv == \A c \in Calls : AnswerOf(c)

\* As long as nothing has failed every stored element is waiting to be taken,
\* about to be pushed or about to be deleted.
StorageInv ==
    faults = 0 =>
        \A e \in stored :
            \/ e \in Live
            \/ pc[e] \in {"exkey", "push"}
            \/ \E c \in Calls : pc[c] \in {"getval", "delqkey"} /\ qkey[c] = e

OrderInv == WayInv /\ PopInv /\ AnswerInv /\ StorageInv

-----------------------------------------------------------------------------
(* The steps, by what they do to the way.                                  *)

Still ==
    /\ UNCHANGED <<fifo, marker, subs, changed>>
    /\ \A c \in changed : asked'[c] = asked[c] /\ qkey'[c] = qkey[c]
    /\ \A c \in Calls : pc'[c] = "chain" <=> pc[c] = "chain"
    /\ \A c \in Calls : pc[c] = "chain" => other'[c] = other[c]

\* The link of a push is added, or given up; the links of a taken element are
\* deleted.
Leaves(c, l) ==
    /\ pc[c] = l /\ pc'[c] # "chain" /\ \A d \in Calls : d # c => pc'[d] = pc[d]
    /\ UNCHANGED <<fifo, marker, asked, qkey, other, outcome, changed>>
Linking(c) == Leaves(c, "chain") /\ subs' = Linked(c)
Dropping(c) == Leaves(c, "chain") /\ subs' = subs /\ faults' > 0
Erasing(c) == Leaves(c, "delqkey") /\ subs' = [subs EXCEPT ![qkey[c]] = {}]

LEMMA AsideIsStill == ASSUME TypeInv, PcInv, NEW c \in Calls, Aside(c) PROVE Still
<1>1. Calm
    BY AsideIsCalm
<1> USE DEF Goto
<1>2. pc[c] # "chain" /\ \E l \in Pcs \ {"chain"} : pc' = [pc EXCEPT ![c] = l]
    <2>1. CASE ReceivePop(c) \/ PlanPop(c) \/ \E k \in Keys : ReceivePush(c, k)
        BY <2>1 DEF ReceivePush, ReceivePop, MayBegin, PlanPop, Pcs
    <2>2. CASE SetKey(c) \/ SetQueueKey(c) \/ GetExKey(c) \/ GetNextKey(c) \/ GetValue(c) \/ GetKey(c) \/ DelKey(c)
        BY <2>2 DEF SetKey, SetQueueKey, GetExKey, GetNextKey, GetValue, GetKey, DelKey, Pcs
    <2>3. CASE Finish(c) \/ GetExKeyFails(c) \/ GetNextKeyFails(c) \/ ReplicateFails(c) \/ ReplyFails(c) \/ StepFails(c)
        BY <2>3 DEF Finish, Stamp, CommandReplicate, ReplyResponse, GetExKeyFails, GetNextKeyFails, ReplicateFails, ReplyFails,
                    StepFails, Fails, Fragile, Pcs
    <2> QED
        BY <2>1, <2>2, <2>3 DEF Aside
<1>3. \E e : other' \in {other, [other EXCEPT ![c] = e]}
    <2>1. CASE ReceivePop(c) \/ PlanPop(c) \/ \E k \in Keys : ReceivePush(c, k)
        BY <2>1 DEF ReceivePush, ReceivePop, PlanPop
    <2>2. CASE SetKey(c) \/ SetQueueKey(c) \/ GetExKey(c) \/ GetNextKey(c) \/ GetValue(c) \/ GetKey(c) \/ DelKey(c)
        BY <2>2 DEF SetKey, SetQueueKey, GetExKey, GetNextKey, GetValue, GetKey, DelKey, callVars
    <2>3. CASE Finish(c) \/ GetExKeyFails(c) \/ GetNextKeyFails(c) \/ ReplicateFails(c) \/ ReplyFails(c) \/ StepFails(c)
        BY <2>3 DEF Finish, Stamp, CommandReplicate, ReplyResponse, GetExKeyFails, GetNextKeyFails, ReplicateFails, ReplyFails,
                    StepFails, callVars
    <2> QED
        BY <2>1, <2>2, <2>3 DEF Aside
<1>4. /\ \A d \in Calls : pc'[d] = "chain" <=> pc[d] = "chain"
      /\ \A d \in Calls : pc[d] = "chain" => other'[d] = other[d]
    BY <1>2, <1>3 DEF TypeInv, TypeOK
<1> QED
    BY <1>1, <1>4 DEF Calm, Still

LEMMA WaySteps ==
    ASSUME TypeInv, PcInv, [Next]_vars
    PROVE  Still \/ \E c \in Calls : Push(c) \/ Pop(c) \/ Linking(c) \/ Dropping(c) \/ Erasing(c)
<1> DEFINE Goal == Still \/ \E c \in Calls : Push(c) \/ Pop(c) \/ Linking(c) \/ Dropping(c) \/ Erasing(c)
<1>1. ASSUME NEW c \in Calls, Push(c) \/ Pop(c) PROVE Goal
    BY <1>1
<1>2. ASSUME NEW c \in Calls, Aside(c) PROVE Goal
    BY <1>2, AsideIsStill
<1> USE DEF Goto, TypeInv, TypeOK
<1>3. ASSUME NEW c \in Calls, Chain(c) PROVE Goal
    BY <1>3 DEF Chain, Linking, Leaves, callVars
<1>4. ASSUME NEW c \in Calls, ChainFails(c) PROVE Goal
    BY <1>4 DEF ChainFails, Linking, Dropping, Leaves, callVars
<1>5. ASSUME NEW c \in Calls, DelQueueKey(c) PROVE Goal
    BY <1>5 DEF DelQueueKey, Erasing, Leaves, callVars
<1>6. ASSUME NEW c \in Calls, Unanswered(c) PROVE Goal
    <2>1. /\ pc[c] \in Fragile /\ pc' = [pc EXCEPT ![c] = "reply"]
          /\ UNCHANGED <<fifo, marker, asked, qkey, other, outcome, changed>>
          /\ subs' = subs \/ (pc[c] = "delqkey" /\ subs' = [subs EXCEPT ![qkey[c]] = {}])
        BY <1>6 DEF Unanswered, Fails, callVars
    <2> QED
        BY <2>1 DEF Erasing, Leaves, Still, Fragile
<1>7. ASSUME NEW m \in net, ReplKey(m) PROVE Still
    BY <1>7 DEF ReplKey, Still, queueVars, callVars
<1>8. CASE UNCHANGED vars
    BY <1>8 DEF vars, Still, queueVars, callVars
<1> QED
    BY <1>1, <1>2, <1>3, <1>4, <1>5, <1>6, <1>7, <1>8, AllSteps

\* What the steps leave alone.
LEMMA Settings ==
    ASSUME TypeInv, [Next]_vars
    PROVE  fifo' = fifo /\ keyqueue' = keyqueue /\ faults' \in {faults, faults + 1} /\ faults \in Nat
<1> USE DEF TypeInv, TypeOK
<1>0. faults \in Nat
    BY QueueAssumption DEF QueueAssumption
<1>1. ASSUME NEW c \in Calls, Aside(c)
      PROVE  fifo' = fifo /\ keyqueue' = keyqueue /\ faults' \in {faults, faults + 1}
    <2>1. CASE ReceivePop(c) \/ PlanPop(c) \/ \E k \in Keys : ReceivePush(c, k)
        BY <2>1 DEF ReceivePush, ReceivePop, PlanPop
    <2>2. CASE SetKey(c) \/ SetQueueKey(c) \/ GetExKey(c) \/ GetNextKey(c) \/ GetValue(c) \/ GetKey(c) \/ DelKey(c)
        BY <2>2 DEF SetKey, SetQueueKey, GetExKey, GetNextKey, GetValue, GetKey, DelKey
    <2>3. CASE Finish(c) \/ GetExKeyFails(c) \/ GetNextKeyFails(c) \/ ReplicateFails(c) \/ ReplyFails(c) \/ StepFails(c)
        BY <2>3 DEF Finish, Stamp, CommandReplicate, ReplyResponse, GetExKeyFails, GetNextKeyFails, ReplicateFails, ReplyFails,
                    StepFails, Fails
    <2> QED
        BY <1>1, <2>1, <2>2, <2>3 DEF Aside
<1>2. ASSUME NEW c \in Calls, Push(c) \/ Pop(c) \/ Chain(c) \/ ChainFails(c) \/ DelQueueKey(c) \/ Unanswered(c)
      PROVE  fifo' = fifo /\ keyqueue' = keyqueue /\ faults' \in {faults, faults + 1}
    BY <1>2 DEF Push, Pop, Chain, ChainFails, DelQueueKey, Unanswered, Fails
<1>3. ASSUME NEW m \in net, ReplKey(m)
      PROVE  fifo' = fifo /\ keyqueue' = keyqueue /\ faults' \in {faults, faults + 1}
    BY <1>3 DEF ReplKey
<1>4. CASE UNCHANGED vars
    BY <1>4 DEF vars
<1> QED
    BY <1>0, <1>1, <1>2, <1>3, <1>4, AllSteps

LEMMA StillWay ==
    ASSUME TypeInv, Still, faults' = 0 => faults = 0, NEW q, Chained(q), OnTheWay(q)
    PROVE  Chained(q)' /\ OnTheWay(q)'
<1>1. Live' = Live
    BY CalmLive DEF Still
<1>2. \A e \in Calls : After(e)' = After(e)
    <2> SUFFICES ASSUME NEW e \in Calls PROVE Pending(e)' = Pending(e)
        BY DEF After, Still
    <2>1. \A c \in Calls : (pc'[c] = "chain" /\ other'[c] = e) <=> (pc[c] = "chain" /\ other[c] = e)
        BY DEF Still
    <2>2. {other'[c] : c \in {d \in {e} : pc'[d] = "chain"}} = {other[c] : c \in {d \in {e} : pc[d] = "chain"}}
        BY DEF Still
    <2>3. fifo' = fifo
        BY DEF Still
    <2>4. CASE fifo
        BY <2>1, <2>3, <2>4 DEF Pending
    <2>5. CASE ~fifo
        BY <2>2, <2>3, <2>5 DEF Pending
    <2> QED
        BY <2>4, <2>5
<1>3. Chained(q)'
    <2>1. \A e \in Live : After(e)' = After(e)
        BY <1>2 DEF Live, Pushed, TypeInv, TypeOK
    <2> QED
        BY <1>1, <2>1, SameWay DEF Still
<1> QED
    BY <1>1, <1>3 DEF OnTheWay, Still

\* Adding a link that was pending leaves the way as it is, and so does deleting
\* the links of an element that is no longer live.
LEMMA LinkingWay ==
    ASSUME TypeInv, PcInv, faults' = 0 => faults = 0, NEW q, Chained(q), OnTheWay(q),
           NEW c \in Calls, Linking(c)
    PROVE  Chained(q)' /\ OnTheWay(q)'
<1>0. pc[c] = "chain" /\ other[c] \in Calls /\ UNCHANGED <<fifo, marker>> /\ Live \subseteq Calls
    BY DEF Linking, Leaves, TypeInv, TypeOK, Live, Pushed
<1>1. Live' = Live
    BY CalmLive DEF Linking, Leaves
<1>2. \A d \in Calls : d # c => pc[d] # "chain"
    BY <1>0, AloneWith DEF Resting
<1>3. \A d \in Calls : pc'[d] # "chain"
    BY <1>2 DEF Linking, Leaves
<1>4. \A e \in Calls : After(e) = subs[e] \cup Adding(c, e)
    BY <1>0, <1>2, OnePending
<1>5. \A e \in Calls : After(e)' = subs'[e]
    BY <1>3 DEF After, Pending
<1>6. \A e \in Calls : subs'[e] = subs[e] \cup Adding(c, e)
    BY <1>0 DEF Linking, Linked, Adding, TypeInv, TypeOK
<1>7. \A e \in Live : After(e)' = After(e)
    BY <1>0, <1>4, <1>5, <1>6
<1>8. Chained(q)'
    BY <1>0, <1>1, <1>7, SameWay
<1> QED
    BY <1>0, <1>1, <1>8 DEF OnTheWay

LEMMA ErasingWay ==
    ASSUME TypeInv, PcInv, faults' = 0 => faults = 0, NEW q, Chained(q), OnTheWay(q),
           NEW c \in Calls, Erasing(c)
    PROVE  Chained(q)' /\ OnTheWay(q)'
<1>0. pc[c] = "delqkey" /\ UNCHANGED <<fifo, marker>> /\ Live \subseteq Calls
    BY DEF Erasing, Leaves, Live, Pushed, TypeInv, TypeOK
<1>1. Live' = Live
    BY CalmLive DEF Erasing, Leaves
<1>2. \A d \in Calls : pc[d] # "chain"
    BY <1>0, AloneWith DEF Resting
<1>3. \A d \in Calls : pc'[d] # "chain"
    BY <1>2 DEF Erasing, Leaves
<1>4. \A e \in Calls : After(e) = subs[e] /\ After(e)' = subs'[e]
    BY <1>2, <1>3 DEF After, Pending
<1>5. qkey[c] \notin Live
    BY <1>0 DEF PcInv, PopPcs, AfterPcs, Live, Taker
<1>6. \A e \in Live : After(e)' = After(e)
    BY <1>0, <1>4, <1>5 DEF Erasing, TypeInv, TypeOK
<1>7. Chained(q)'
    BY <1>0, <1>1, <1>6, SameWay
<1> QED
    BY <1>0, <1>1, <1>7 DEF OnTheWay

\* A push whose link is given up cuts the way.
LEMMA DroppingWay ==
    ASSUME TypeInv, PcInv, ChainInv, NEW q, Chained(q), NEW c \in Calls, Dropping(c), faults' \in Nat
    PROVE  \E p : IsPrefix(p, q) /\ Chained(p)' /\ OnTheWay(p)'
<1>0. /\ pc[c] = "chain" /\ UNCHANGED <<fifo, marker, subs>> /\ faults' # 0
      /\ Live \subseteq Calls /\ subs \in [Calls -> SUBSET Calls]
    BY DEF Dropping, Leaves, TypeInv, TypeOK, Live, Pushed
<1>1. Live' = Live
    BY CalmLive DEF Dropping, Leaves
<1>2. \A d \in Calls : d # c => pc[d] # "chain"
    BY <1>0, AloneWith DEF Resting
<1>3. \A d \in Calls : pc'[d] # "chain"
    BY <1>2 DEF Dropping, Leaves
<1>4. \A e \in Calls : After(e) = subs[e] \cup Adding(c, e)
    BY <1>0, <1>2, OnePending
<1>5. \A e \in Calls : After(e)' = subs[e]
    BY <1>0, <1>3 DEF After, Pending
<1>6. PICK x : x = IF fifo THEN other[c] ELSE c
    OBVIOUS
<1>7. \A e \in Live : e # x => After(e)' = After(e)
    BY <1>0, <1>4, <1>5, <1>6 DEF Adding
<1>8. ASSUME NEW i \in 1..Len(q), q[i] = x PROVE After(x)' = {}
    <2>1. x \in Live
        BY <1>8 DEF Chained
    <2>2. CASE ~fifo
        BY <1>0, <1>5, <1>6, <2>1, <2>2 DEF ChainInv
    <2>3. CASE fifo
        <3>1. c \notin subs[x] /\ After(x) = subs[x] \cup {c}
            BY <1>0, <1>4, <1>6, <2>1, <2>3 DEF ChainInv, Adding
        <3>2. After(x) = {} \/ \E y : After(x) = {y}
            BY <1>8 DEF Chained
        <3>3. subs[x] = {}
            BY <3>1, <3>2
        <3> QED
            BY <1>0, <1>5, <2>1, <3>3
    <2> QED
        BY <2>2, <2>3
<1>9. PICK p : IsPrefix(p, q) /\ Chained(p)'
    BY <1>0, <1>1, <1>7, <1>8, ShorterWay
<1>10. OnTheWay(p)'
    BY <1>0 DEF OnTheWay
<1> QED
    BY <1>9, <1>10, Zenon

\* A push makes the way longer, unless it does not lead to the last element.
LEMMA PushWay ==
    ASSUME TypeInv, PcInv, LinkInv, ReadInv, TakenInv, NEW q, Chained(q), OnTheWay(q), NEW c \in Calls, Push(c)
    PROVE  \E p : /\ Chained(p)' /\ OnTheWay(p)'
                  /\ p = (IF fifo THEN Append(q, c) ELSE <<c>> \o q) \/ (faults # 0 /\ p = IF fifo THEN q ELSE <<c>>)
<1>0. /\ pc[c] = "push" /\ UNCHANGED <<fifo, subs, other, faults>>
      /\ pc' = [pc EXCEPT ![c] = IF other[c] = None THEN "stamp" ELSE "chain"]
      /\ marker'.top = (IF fifo /\ marker.top # None THEN marker.top ELSE c)
      /\ marker'.bottom = (IF ~fifo /\ marker.top # None THEN marker.bottom ELSE c)
    BY DEF Push, Goto, callVars, MarkerPush, Stamped
<1>1. /\ Live' = Live \cup {c} /\ c \notin Live /\ subs[c] = {} /\ Live \subseteq Calls
      /\ q \in Seq(Calls) /\ Len(q) \in Nat /\ \A i \in 1..Len(q) : q[i] \in Live
      /\ subs \in [Calls -> SUBSET Calls] /\ pc \in [Calls -> Pcs] /\ None \notin Calls
    <2>1. c \notin changed /\ Live' = Live \cup {c}
        BY PushLive
    <2>2. c \notin Live /\ subs[c] = {} /\ Live \subseteq Calls
        BY <2>1 DEF LinkInv, Live, Pushed, TypeInv, TypeOK
    <2>3. q \in Seq(Calls) /\ Len(q) \in Nat /\ \A i \in 1..Len(q) : q[i] \in Live
        BY DEF Chained
    <2>4. subs \in [Calls -> SUBSET Calls] /\ pc \in [Calls -> Pcs] /\ None \notin Calls
        BY QueueAssumption DEF QueueAssumption, TypeInv, TypeOK
    <2> QED
        BY <2>1, <2>2, <2>3, <2>4
<1>2. \A d \in Calls : pc[d] # "chain" /\ (d # c => pc'[d] # "chain")
    BY <1>0, <1>1, AloneWith DEF Resting
<1>3. \A e \in Calls : After(e) = subs[e]
    BY <1>2, NothingPending
<1>4. CASE marker.top = None
    <2>1. q = <<>> /\ other[c] = None
        BY <1>0, <1>1, <1>4 DEF Chained, ReadInv
    <2>2. \A d \in Calls : pc'[d] # "chain"
        BY <1>0, <1>1, <1>2, <2>1
    <2>3. After(c)' = {}
        BY <1>0, <1>1, <2>2 DEF After, Pending
    <2>4. PICK p : p = <<c>>
        OBVIOUS
    <2>5. p \in Seq(Calls) /\ Len(p) = 1 /\ p[1] = c /\ p # <<>>
        BY <2>4
    <2>6. \A i \in 1..Len(p) : After(p[i])' = IF i = Len(p) THEN {} ELSE {p[i + 1]}
        BY <2>3, <2>5
    <2>7. Chained(p)'
        BY <1>0, <1>1, <1>4, <2>5, <2>6 DEF Chained
    <2>8. OnTheWay(p)'
        BY <1>0, <1>1, <1>4, <2>1, <2>5 DEF OnTheWay
    <2>9. Append(q, c) = p /\ <<c>> \o q = p
        BY <2>1, <2>4
    <2> QED
        BY <2>7, <2>8, <2>9, Zenon
<1>5. CASE marker.top # None /\ other[c] # None /\ ~fifo
    <2>1. q # <<>> /\ q[1] = marker.top /\ other[c] = q[1] /\ other[c] # None /\ 1 \in 1..Len(q) /\ q[1] \in Calls
        BY <1>0, <1>1, <1>5 DEF Chained, ReadInv
    <2>2. pc'[c] = "chain"
        BY <1>0, <1>1, <2>1
    <2>3. \A e \in Calls : After(e)' = IF e = c THEN {q[1]} ELSE After(e)
        <3> SUFFICES ASSUME NEW e \in Calls PROVE After(e)' = IF e = c THEN {q[1]} ELSE After(e)
            OBVIOUS
        <3>1. Pending(e)' = {other[d] : d \in {a \in {e} : pc'[a] = "chain"}}
            BY <1>0, <1>5 DEF Pending
        <3>2. Pending(e)' = IF e = c THEN {q[1]} ELSE {}
            BY <1>2, <2>1, <2>2, <3>1
        <3>3. After(e)' = subs[e] \cup Pending(e)'
            BY <1>0 DEF After
        <3> QED
            BY <1>1, <1>3, <3>2, <3>3
    <2>4. PICK p : p = <<c>> \o q
        OBVIOUS
    <2>5. /\ p \in Seq(Calls) /\ Len(p) = Len(q) + 1 /\ p[1] = c /\ p # <<>>
          /\ \A i \in 2..Len(p) : i - 1 \in 1..Len(q) /\ p[i] = q[i - 1] /\ p[i] \in Live
          /\ \A i \in 1..Len(p) : i = 1 \/ i \in 2..Len(p)
        <3>1. /\ p \in Seq(Calls) /\ Len(p) = Len(q) + 1 /\ p[1] = c /\ p # <<>>
              /\ \A i \in 2..Len(p) : p[i] = q[i - 1]
            BY <1>1, <2>4
        <3>2. \A i \in 2..Len(p) : i - 1 \in 1..Len(q)
            BY <1>1, <3>1
        <3>3. \A i \in 1..Len(p) : i = 1 \/ i \in 2..Len(p)
            BY <1>1, <3>1
        <3> QED
            BY <1>1, <3>1, <3>2, <3>3
    <2>6. \A i \in 1..Len(p) : After(p[i])' = IF i = Len(p) THEN {} ELSE {p[i + 1]}
        <3>1. After(c)' = {p[2]} /\ Len(p) # 1
            BY <1>1, <2>1, <2>3, <2>5
        <3>2. ASSUME NEW i \in 2..Len(p) PROVE After(p[i])' = IF i = Len(p) THEN {} ELSE {p[i + 1]}
            <4>0. PICK j : j = i - 1
                OBVIOUS
            <4>1. j \in 1..Len(q) /\ p[i] = q[j] /\ i = j + 1 /\ (i = Len(p) <=> j = Len(q))
                BY <1>1, <2>5, <4>0
            <4>2. After(q[j]) = IF j = Len(q) THEN {} ELSE {q[i]}
                BY <4>1 DEF Chained
            <4>3. PICK e : e = p[i] /\ e = q[j]
                BY <4>1
            <4>4. e \in Calls /\ e # c
                BY <1>1, <4>1, <4>3
            <4>5. After(e)' = After(e)
                BY <2>3, <4>4
            <4>6. ASSUME i # Len(p) PROVE p[i + 1] = q[i]
                <5>1. i + 1 \in 2..Len(p) /\ (i + 1) - 1 = i
                    BY <1>1, <2>5, <4>6
                <5> QED
                    BY <2>5, <5>1
            <4>7. CASE i = Len(p)
                BY <4>1, <4>2, <4>3, <4>5, <4>7, Zenon
            <4>8. CASE i # Len(p)
                BY <4>1, <4>2, <4>3, <4>5, <4>6, <4>8, Zenon
            <4> QED
                BY <4>7, <4>8
        <3> SUFFICES ASSUME NEW i \in 1..Len(p) PROVE After(p[i])' = IF i = Len(p) THEN {} ELSE {p[i + 1]}
            OBVIOUS
        <3>3. CASE i = 1
            <4>1. p[i] = c /\ p[i + 1] = p[2] /\ i # Len(p)
                BY <2>5, <3>1, <3>3
            <4> QED
                BY <3>1, <4>1, Zenon
        <3> QED
            BY <2>5, <3>2, <3>3
    <2>7. \A i, j \in 1..Len(p) : p[i] = p[j] => i = j
        <3> SUFFICES ASSUME NEW i \in 1..Len(p), NEW j \in 1..Len(p), p[i] = p[j] PROVE i = j
            OBVIOUS
        <3>1. CASE i = 1 \/ j = 1
            BY <1>1, <2>5, <3>1
        <3>2. CASE i # 1 /\ j # 1
            <4>1. i - 1 \in 1..Len(q) /\ j - 1 \in 1..Len(q) /\ q[i - 1] = q[j - 1]
                BY <2>5, <3>2
            <4>2. i - 1 = j - 1
                BY <4>1 DEF Chained
            <4> QED
                BY <4>2
        <3> QED
            BY <3>1, <3>2
    <2>8. Chained(p)'
        <3>1. \A i \in 1..Len(p) : p[i] \in Live'
            BY <1>1, <2>5
        <3>2. marker'.top = p[1]
            BY <1>0, <1>5, <2>5
        <3> QED
            BY <2>5, <2>6, <2>7, <3>1, <3>2 DEF Chained
    <2>9. OnTheWay(p)'
        <3>1. faults = 0 => \A e \in Live' : \E i \in 1..Len(p) : p[i] = e
            <4> SUFFICES ASSUME faults = 0, NEW e \in Live' PROVE \E i \in 1..Len(p) : p[i] = e
                OBVIOUS
            <4>1. CASE e = c
                BY <1>1, <2>5, <4>1
            <4>2. CASE e # c
                <5>1. PICK i \in 1..Len(q) : q[i] = e
                    BY <1>1, <4>2 DEF OnTheWay
                <5>2. i + 1 \in 2..Len(p) /\ i + 1 \in 1..Len(p) /\ p[i + 1] = e
                    BY <1>1, <2>5, <5>1
                <5> QED
                    BY <5>2
            <4> QED
                BY <4>1, <4>2
        <3> QED
            BY <1>0, <1>5, <3>1 DEF OnTheWay
    <2> QED
        BY <1>5, <2>4, <2>8, <2>9, Zenon
<1>6. CASE marker.top # None /\ other[c] # None /\ fifo
    <2>0. PICK b : b = marker.bottom
        OBVIOUS
    <2>1. /\ q # <<>> /\ q[1] = marker.top /\ 1 \in 1..Len(q) /\ other[c] = b /\ b # None
          /\ b \in Live /\ subs[b] = {} /\ b \in Calls /\ b # c
        BY <1>0, <1>1, <1>6, <2>0 DEF Chained, ReadInv, LinkInv
    <2>2. pc'[c] = "chain"
        BY <1>0, <1>1, <2>1
    <2>3. \A e \in Calls : After(e)' = IF e = b THEN {c} ELSE After(e)
        <3> SUFFICES ASSUME NEW e \in Calls PROVE After(e)' = IF e = b THEN {c} ELSE After(e)
            OBVIOUS
        <3>1. Pending(e)' = {d \in Calls : pc'[d] = "chain" /\ other[d] = e}
            BY <1>0, <1>6 DEF Pending
        <3>2. Pending(e)' = IF e = b THEN {c} ELSE {}
            BY <1>2, <2>1, <2>2, <3>1
        <3>3. After(e)' = subs[e] \cup Pending(e)'
            BY <1>0 DEF After
        <3> QED
            BY <1>3, <2>1, <3>2, <3>3
    <2>4. \A i \in 1..Len(q) : q[i] = b => i = Len(q)
        <3> SUFFICES ASSUME NEW i \in 1..Len(q), q[i] = b, i # Len(q) PROVE FALSE
            OBVIOUS
        <3>1. After(q[i]) = {q[i + 1]}
            BY DEF Chained
        <3>2. After(b) = {}
            BY <1>3, <2>1
        <3>3. After(b) = {q[i + 1]}
            BY <3>1, Zenon
        <3> QED
            BY <3>2, <3>3
    <2>5. CASE q[Len(q)] # b
        <3>1. faults # 0
            BY <1>6, <2>0, <2>1, <2>5 DEF OnTheWay
        <3>2. \A i \in 1..Len(q) : q[i] # b
            BY <2>4, <2>5
        <3>3. \A i \in 1..Len(q) : After(q[i])' = IF i = Len(q) THEN {} ELSE {q[i + 1]}
            <4> SUFFICES ASSUME NEW i \in 1..Len(q) PROVE After(q[i])' = IF i = Len(q) THEN {} ELSE {q[i + 1]}
                OBVIOUS
            <4>1. PICK e : e = q[i]
                OBVIOUS
            <4>2. e \in Calls /\ e # b
                BY <1>1, <3>2, <4>1
            <4>3. After(e)' = After(e)
                BY <2>3, <4>2
            <4>4. After(q[i]) = IF i = Len(q) THEN {} ELSE {q[i + 1]}
                BY DEF Chained
            <4> QED
                BY <4>1, <4>3, <4>4, Zenon
        <3>4. Chained(q)'
            BY <1>0, <1>1, <1>6, <2>1, <3>3 DEF Chained
        <3>5. OnTheWay(q)'
            BY <1>0, <3>1 DEF OnTheWay
        <3> QED
            BY <1>6, <3>1, <3>4, <3>5
    <2>6. CASE q[Len(q)] = b
        <3>1. PICK p : p = Append(q, c)
            OBVIOUS
        <3>2. /\ p \in Seq(Calls) /\ Len(p) = Len(q) + 1 /\ p[Len(p)] = c /\ p # <<>>
              /\ \A i \in 1..Len(q) : p[i] = q[i]
            BY <1>1, <3>1
        <3>3. \A i \in 1..Len(p) : After(p[i])' = IF i = Len(p) THEN {} ELSE {p[i + 1]}
            <4>1. After(c)' = {}
                BY <1>1, <1>3, <2>1, <2>3
            <4>2. ASSUME NEW i \in 1..Len(q) PROVE After(p[i])' = {p[i + 1]}
                <5>1. PICK e \in Calls : e = p[i] /\ e = q[i]
                    BY <1>1, <3>2
                <5>2. CASE i = Len(q)
                    BY <1>1, <2>3, <2>6, <3>2, <5>1, <5>2
                <5>3. CASE i # Len(q)
                    <6>1. After(q[i]) = {q[i + 1]}
                        BY <5>3 DEF Chained
                    <6>2. e # b /\ q[i + 1] = p[i + 1]
                        BY <1>1, <2>4, <3>2, <5>1, <5>3
                    <6>3. After(e)' = After(e)
                        BY <2>3, <6>2
                    <6> QED
                        BY <5>1, <6>1, <6>2, <6>3, Zenon
                <5> QED
                    BY <5>2, <5>3
            <4>3. \A i \in 1..Len(p) : (i = Len(p)) \/ (i # Len(p) /\ i \in 1..Len(q))
                BY <1>1, <3>2
            <4> QED
                BY <3>2, <4>1, <4>2, <4>3
        <3>4. \A i, j \in 1..Len(p) : p[i] = p[j] => i = j
            BY <1>1, <3>2 DEF Chained
        <3>5. Chained(p)'
            <4>1. \A i \in 1..Len(p) : p[i] \in Live'
                BY <1>1, <3>2
            <4>2. marker'.top = p[1]
                BY <1>0, <1>6, <2>1, <3>2
            <4> QED
                BY <3>2, <3>3, <3>4, <4>1, <4>2 DEF Chained
        <3>6. OnTheWay(p)'
            <4>1. faults = 0 => \A e \in Live' : \E i \in 1..Len(p) : p[i] = e
                BY <1>1, <3>2 DEF OnTheWay
            <4>2. marker'.bottom = p[Len(p)]
                BY <1>0, <1>6, <3>2
            <4> QED
                BY <1>0, <4>1, <4>2 DEF OnTheWay
        <3> QED
            BY <1>6, <3>1, <3>5, <3>6, Zenon
    <2> QED
        BY <2>5, <2>6
<1>7. ASSUME marker.top # None, other[c] = None
      PROVE  /\ faults # 0 /\ \A d \in Calls : pc'[d] # "chain"
             /\ \A e \in Calls : After(e)' = subs[e]
    <2>1. pc[c] = "push" /\ marker.top # None /\ other[c] = None
        BY <1>0, <1>7
    <2>2. faults # 0
        <3>1. LinkInv /\ ReadInv
            OBVIOUS
        <3> QED
            BY <2>1, <3>1 DEF LinkInv, ReadInv
    <2>3. \A d \in Calls : pc'[d] # "chain"
        BY <1>0, <1>1, <1>2, <1>7
    <2>4. \A e \in Calls : After(e)' = subs[e]
        BY <1>0, <2>3 DEF After, Pending
    <2> QED
        BY <2>2, <2>3, <2>4
<1>8. CASE marker.top # None /\ other[c] = None /\ fifo
    <2>1. Chained(q)'
        <3>1. \A i \in 1..Len(q) : After(q[i])' = IF i = Len(q) THEN {} ELSE {q[i + 1]}
            <4> SUFFICES ASSUME NEW i \in 1..Len(q) PROVE After(q[i])' = IF i = Len(q) THEN {} ELSE {q[i + 1]}
                OBVIOUS
            <4>1. PICK e \in Calls : e = q[i]
                BY <1>1
            <4>2. After(e)' = After(e)
                BY <1>3, <1>7, <1>8
            <4>3. After(q[i]) = IF i = Len(q) THEN {} ELSE {q[i + 1]}
                BY DEF Chained
            <4> QED
                BY <4>1, <4>2, <4>3, Zenon
        <3> QED
            BY <1>0, <1>1, <1>8, <3>1 DEF Chained
    <2>2. OnTheWay(q)'
        BY <1>0, <1>7, <1>8 DEF OnTheWay
    <2> QED
        BY <1>7, <1>8, <2>1, <2>2
<1>9. CASE marker.top # None /\ other[c] = None /\ ~fifo
    <2>1. PICK p : p = <<c>>
        OBVIOUS
    <2>2. p \in Seq(Calls) /\ Len(p) = 1 /\ p[1] = c /\ p # <<>>
        BY <2>1
    <2>3. After(c)' = {}
        BY <1>1, <1>7, <1>9
    <2>4. \A i \in 1..Len(p) : After(p[i])' = IF i = Len(p) THEN {} ELSE {p[i + 1]}
        BY <2>2, <2>3
    <2>5. Chained(p)'
        BY <1>0, <1>1, <1>9, <2>2, <2>4 DEF Chained
    <2>6. OnTheWay(p)'
        BY <1>0, <1>7, <1>9 DEF OnTheWay
    <2> QED
        BY <1>7, <1>9, <2>1, <2>5, <2>6, Zenon
<1> QED
    BY <1>4, <1>5, <1>6, <1>8, <1>9

\* A pop takes the first element of the way, or all of it if reading the next
\* one has failed.
LEMMA PopWay ==
    ASSUME TypeInv, PcInv, LinkInv, ReadInv, PopInv, NEW q, Chained(q), OnTheWay(q), NEW c \in Calls, Pop(c)
    PROVE  /\ q # <<>> /\ qkey[c] = Head(q)
           /\ \E p : /\ Chained(p)' /\ OnTheWay(p)'
                     /\ p = Tail(q) \/ (faults # 0 /\ IsPrefix(p, Tail(q)))
<1>0. /\ pc[c] = "pop" /\ UNCHANGED <<fifo, subs, other, faults, qkey>> /\ pc' = [pc EXCEPT ![c] = "getval"]
      /\ other[c] = None => marker'.top = None
      /\ other[c] # None => marker'.top = other[c] /\ marker'.bottom = marker.bottom
    BY DEF Pop, Goto, callVars, MarkerPop, Stamped
<1>1. /\ Live' = Live \ {qkey[c]} /\ Live \subseteq Calls
      /\ q \in Seq(Calls) /\ Len(q) \in Nat /\ \A i \in 1..Len(q) : q[i] \in Live
      /\ subs \in [Calls -> SUBSET Calls] /\ pc \in [Calls -> Pcs]
    <2>1. Live' = Live \ {qkey[c]}
        BY PopLive
    <2>2. Live \subseteq Calls /\ subs \in [Calls -> SUBSET Calls] /\ pc \in [Calls -> Pcs]
        BY DEF Live, Pushed, TypeInv, TypeOK
    <2>3. q \in Seq(Calls) /\ Len(q) \in Nat /\ \A i \in 1..Len(q) : q[i] \in Live
        BY DEF Chained
    <2> QED
        BY <2>1, <2>2, <2>3
<1>2. \A d \in Calls : pc[d] # "chain" /\ pc'[d] # "chain"
    BY <1>0, <1>1, AloneWith DEF Resting
<1>3. \A e \in Calls : After(e) = subs[e] /\ After(e)' = subs[e]
    BY <1>0, <1>2 DEF After, Pending
<1>4. q # <<>> /\ qkey[c] = q[1] /\ Head(q) = q[1] /\ 1 \in 1..Len(q) /\ q[1] \in Calls
    BY <1>0, <1>1 DEF ReadInv, Chained
<1>5. CASE other[c] = None
    <2>1. PICK p : p = <<>>
        OBVIOUS
    <2>2. Chained(p)'
        BY <1>0, <1>5, <2>1 DEF Chained
    <2>3. ASSUME faults = 0 PROVE Len(q) = 1
        <3>1. subs[q[1]] = {}
            BY <1>0, <1>4, <1>5, <2>3 DEF PopInv
        <3>2. After(q[1]) = {}
            BY <1>3, <1>4, <3>1
        <3>3. After(q[1]) = IF 1 = Len(q) THEN {} ELSE {q[1 + 1]}
            BY <1>4 DEF Chained
        <3> QED
            BY <3>2, <3>3
    <2>4. OnTheWay(p)'
        <3>1. ASSUME faults = 0 PROVE Live' = {}
            <4>1. ASSUME NEW e \in Live PROVE e = q[1]
                <5>1. PICK i \in 1..Len(q) : q[i] = e
                    BY <3>1 DEF OnTheWay
                <5> QED
                    BY <2>3, <3>1, <5>1
            <4> QED
                BY <1>1, <1>4, <4>1
        <3> QED
            BY <1>0, <2>1, <3>1 DEF OnTheWay
    <2>5. Tail(q) \in Seq(Calls) /\ Len(Tail(q)) = Len(q) - 1
        BY <1>1, <1>4
    <2>6. faults = 0 => p = Tail(q)
        BY <2>1, <2>3, <2>5, EmptySeq
    <2>7. IsPrefix(p, Tail(q))
        <3>1. SubSeq(p, 1, 0) = <<>> /\ SubSeq(Tail(q), 1, 0) = <<>> /\ Len(p) = 0
            BY <2>1, <2>5, SubSeqEmpty
        <3> QED
            BY <1>1, <1>4, <2>5, <3>1 DEF IsPrefix
    <2> QED
        BY <1>4, <2>2, <2>4, <2>6, <2>7, Zenon
<1>6. CASE other[c] # None
    <2>1. 2 \in 1..Len(q) /\ other[c] = q[2]
        <3>1. other[c] \in subs[q[1]]
            BY <1>0, <1>4, <1>6 DEF ReadInv
        <3>2. other[c] \in After(q[1])
            BY <1>3, <1>4, <3>1
        <3>3. After(q[1]) = IF 1 = Len(q) THEN {} ELSE {q[1 + 1]}
            BY <1>4 DEF Chained
        <3>4. Len(q) # 1 /\ After(q[1]) = {q[2]}
            BY <3>2, <3>3
        <3>5. other[c] \in {q[2]}
            BY <3>2, <3>4, Zenon
        <3>6. 2 \in 1..Len(q)
            <4>1. Len(q) \in Nat /\ 1 \in 1..Len(q)
                BY <1>1, <1>4, Zenon
            <4>2. PICK n \in Nat : n = Len(q)
                BY <4>1
            <4>3. n # 1 /\ 1 \in 1..n
                BY <3>4, <4>1, <4>2, Zenon
            <4>4. 2 \in 1..n
                BY <4>3
            <4> QED
                BY <4>2, <4>4, Zenon
        <3> QED
            BY <3>5, <3>6
    <2>2. PICK p : p = Tail(q)
        OBVIOUS
    <2>3. /\ p \in Seq(Calls) /\ Len(p) = Len(q) - 1 /\ p # <<>> /\ \A i \in 1..Len(p) : p[i] = q[i + 1]
          /\ \A i \in 1..Len(p) : i + 1 \in 1..Len(q) /\ i + 1 # 1
        <3>1. p \in Seq(Calls) /\ Len(p) = Len(q) - 1 /\ \A i \in 1..Len(p) : p[i] = q[i + 1]
            BY <1>1, <1>4, <2>2, HeadTailProperties
        <3>2. Len(p) \in Nat /\ Len(p) # 0
            BY <1>1, <2>1, <3>1
        <3>3. p # <<>>
            BY <3>2
        <3> QED
            BY <1>1, <3>1, <3>2, <3>3
    <2>4. \A i \in 1..Len(p) : p[i] \in Live /\ p[i] # q[1]
        BY <1>1, <1>4, <2>3 DEF Chained
    <2>5. \A i \in 1..Len(p) : After(p[i])' = IF i = Len(p) THEN {} ELSE {p[i + 1]}
        <3> SUFFICES ASSUME NEW i \in 1..Len(p) PROVE After(p[i])' = IF i = Len(p) THEN {} ELSE {p[i + 1]}
            OBVIOUS
        <3>0. PICK j : j = i + 1
            OBVIOUS
        <3>1. j \in 1..Len(q) /\ (j = Len(q) <=> i = Len(p)) /\ p[i] = q[j] /\ (i # Len(p) => p[i + 1] = q[j + 1])
            BY <1>1, <2>3, <3>0
        <3>2. After(q[j]) = IF j = Len(q) THEN {} ELSE {q[j + 1]}
            BY <3>1 DEF Chained
        <3>3. PICK e \in Calls : e = p[i] /\ e = q[j]
            BY <1>1, <2>4, <3>1
        <3>4. After(e)' = After(e)
            BY <1>3
        <3>5. CASE i = Len(p)
            BY <3>1, <3>2, <3>3, <3>4, <3>5, Zenon
        <3>6. CASE i # Len(p)
            BY <3>1, <3>2, <3>3, <3>4, <3>6, Zenon
        <3> QED
            BY <3>5, <3>6
    <2>6. \A i, j \in 1..Len(p) : p[i] = p[j] => i = j
        <3> SUFFICES ASSUME NEW i \in 1..Len(p), NEW j \in 1..Len(p), p[i] = p[j] PROVE i = j
            OBVIOUS
        <3>1. i + 1 \in 1..Len(q) /\ j + 1 \in 1..Len(q) /\ q[i + 1] = q[j + 1]
            BY <2>3
        <3>2. i + 1 = j + 1
            BY <3>1 DEF Chained
        <3> QED
            BY <3>2
    <2>7. Chained(p)'
        <3>1. \A i \in 1..Len(p) : p[i] \in Live'
            BY <1>1, <1>4, <2>4
        <3>2. marker'.top = p[1]
            BY <1>0, <1>1, <1>6, <2>1, <2>3
        <3> QED
            BY <2>3, <2>5, <2>6, <3>1, <3>2 DEF Chained
    <2>8. OnTheWay(p)'
        <3>1. ASSUME faults = 0, NEW e \in Live' PROVE \E i \in 1..Len(p) : p[i] = e
            <4>1. PICK j \in 1..Len(q) : q[j] = e
                BY <1>1, <3>1 DEF OnTheWay
            <4>2. j # 1
                BY <1>1, <1>4, <3>1, <4>1
            <4>3. j - 1 \in 1..Len(p) /\ (j - 1) + 1 = j
                BY <1>1, <2>3, <4>2
            <4> QED
                BY <2>3, <4>1, <4>3
        <3>2. p[Len(p)] = q[Len(q)]
            BY <1>1, <2>1, <2>3
        <3> QED
            BY <1>0, <1>4, <1>6, <3>1, <3>2 DEF OnTheWay
    <2> QED
        BY <1>4, <2>2, <2>7, <2>8, Zenon
<1> QED
    BY <1>5, <1>6

LEMMA NextPopInv ==
    ~Concurrent /\ TypeInv /\ PcInv /\ ReadInv /\ PopInv /\ [Next]_vars => PopInv'
<1> SUFFICES ASSUME ~Concurrent, TypeInv, PcInv, ReadInv, PopInv, [Next]_vars PROVE PopInv'
    OBVIOUS
<1>0. /\ pc \in [Calls -> Pcs] /\ changed \subseteq Calls /\ None \notin Calls
      /\ qkey \in [Calls -> Calls \cup {None}] /\ other \in [Calls -> Calls \cup {None}]
      /\ subs \in [Calls -> SUBSET Calls] /\ faults \in Nat /\ faults + 1 # 0 /\ stored \subseteq Calls
    BY QueueAssumption DEF QueueAssumption, TypeInv, TypeOK
<1>a. \A c, d \in Calls : c = d \/ pc[c] \in Resting \/ pc[d] \in Resting
    BY DEF PcInv
<1>b. ASSUME NEW c \in Calls, MayBegin(c) PROVE pc[c] = "idle" /\ \A d \in Calls : pc[d] \in Resting
    BY <1>b, Zenon DEF MayBegin, Resting
<1>c. \A c \in Calls : pc[c] = "next" => other[c] = None
    BY DEF ReadInv
<1> USE <1>0, <1>a, <1>c DEF Goto, Resting, PopInv
<1>1. ASSUME NEW c \in Calls, NEW k \in Keys, ReceivePush(c, k) PROVE PopInv'
    BY <1>1, <1>b DEF ReceivePush, queueVars, callVars, timeVars
<1>2. ASSUME NEW c \in Calls, ReceivePop(c) PROVE PopInv'
    BY <1>2, <1>b DEF ReceivePop, queueVars, callVars, timeVars
<1>3. ASSUME NEW c \in Calls, SetKey(c) PROVE PopInv'
    BY <1>3 DEF SetKey, queueVars, callVars, timeVars
<1>4. ASSUME NEW c \in Calls, SetQueueKey(c) PROVE PopInv'
    BY <1>4 DEF SetQueueKey, queueVars, callVars, timeVars
<1>5. ASSUME NEW c \in Calls, GetExKey(c) PROVE PopInv'
    BY <1>5 DEF GetExKey, queueVars, callVars, timeVars
<1>6. ASSUME NEW c \in Calls, Push(c) PROVE PopInv'
    BY <1>6 DEF Push, queueVars, callVars, timeVars
<1>7. ASSUME NEW c \in Calls, Chain(c) PROVE PopInv'
    BY <1>7 DEF Chain, queueVars, callVars, timeVars
<1>8. ASSUME NEW c \in Calls, PlanPop(c) PROVE PopInv'
    BY <1>8 DEF PlanPop, queueVars, callVars, timeVars
<1>9. ASSUME NEW c \in Calls, GetNextKey(c) PROVE PopInv'
    <2>1. pc[c] = "next" /\ pc' = [pc EXCEPT ![c] = "pop"] /\ UNCHANGED <<subs, qkey, faults>>
        BY <1>9 DEF GetNextKey, queueVars
    <2>2. /\ \A d \in Calls : d # c => pc[d] # "pop"
          /\ \A d \in Calls : d # c => pc'[d] = pc[d]
        BY <2>1
    <2>3. other'[c] = None => subs[qkey[c]] = {}
        <3>1. other'[c] \in subs[qkey[c]] \/ (subs[qkey[c]] = {} /\ other' = other)
            BY <1>9 DEF GetNextKey
        <3>2. subs[qkey[c]] \subseteq Calls \/ qkey[c] = None
            OBVIOUS
        <3>3. qkey[c] # None
            BY <2>1 DEF TypeInv
        <3> QED
            BY <3>1, <3>2, <3>3
    <2> QED
        BY <2>1, <2>2, <2>3
<1>10. ASSUME NEW c \in Calls, Pop(c) PROVE PopInv'
    BY <1>10 DEF Pop, queueVars, callVars, timeVars
<1>11. ASSUME NEW c \in Calls, GetValue(c) PROVE PopInv'
    BY <1>11 DEF GetValue, queueVars, callVars, timeVars
<1>12. ASSUME NEW c \in Calls, DelQueueKey(c) PROVE PopInv'
    BY <1>12 DEF DelQueueKey, queueVars, callVars, timeVars
<1>13. ASSUME NEW c \in Calls, GetKey(c) PROVE PopInv'
    BY <1>13 DEF GetKey, queueVars, callVars, timeVars
<1>14. ASSUME NEW c \in Calls, DelKey(c) PROVE PopInv'
    BY <1>14 DEF DelKey, queueVars, callVars, timeVars
<1>15. ASSUME NEW c \in Calls, Stamp(c) PROVE PopInv'
    BY <1>15 DEF Stamp, queueVars, callVars, timeVars
<1>16. ASSUME NEW c \in Calls, CommandReplicate(c) PROVE PopInv'
    BY <1>16 DEF CommandReplicate, queueVars, callVars, timeVars
<1>17. ASSUME NEW c \in Calls, ReplyResponse(c) PROVE PopInv'
    BY <1>17 DEF ReplyResponse, queueVars, callVars, timeVars
<1>18. ASSUME NEW c \in Calls, ChainFails(c) PROVE PopInv'
    BY <1>18 DEF ChainFails, queueVars, callVars, timeVars
<1>19. ASSUME NEW c \in Calls, GetNextKeyFails(c) PROVE PopInv'
    BY <1>19 DEF GetNextKeyFails, queueVars, callVars, timeVars
<1>20. ASSUME NEW c \in Calls, ReplicateFails(c) PROVE PopInv'
    BY <1>20 DEF ReplicateFails, queueVars, callVars, timeVars
<1>21. ASSUME NEW c \in Calls, ReplyFails(c) PROVE PopInv'
    BY <1>21 DEF ReplyFails, queueVars, callVars, timeVars
<1>22. ASSUME NEW c \in Calls, StepFails(c) PROVE PopInv'
    BY <1>22 DEF StepFails, Fails, Fragile, queueVars, callVars, timeVars
<1>23. ASSUME NEW c \in Calls, Unanswered(c) PROVE PopInv'
    BY <1>23 DEF Unanswered, Fails, Fragile, queueVars, callVars, timeVars
<1>24. ASSUME NEW m \in net, ReplKey(m) PROVE PopInv'
    BY <1>24 DEF ReplKey, queueVars, callVars, timeVars
<1>25. CASE UNCHANGED vars
    BY <1>25 DEF vars, queueVars, callVars, timeVars
<1>27. ASSUME NEW c \in Calls, GetExKeyFails(c) PROVE PopInv'
    BY <1>27 DEF GetExKeyFails, queueVars, callVars, timeVars
<1> QED
    BY <1>1, <1>2, <1>3, <1>4, <1>5, <1>6, <1>7, <1>8, <1>9, <1>10, <1>11, <1>12, <1>13, <1>14, <1>15, <1>16, <1>17, <1>18, <1>19, <1>20, <1>21, <1>22, <1>23, <1>24, <1>25, <1>27 DEF Next, QPush, QPop, Finish, Trouble

LEMMA AnswersOfOthers ==
    ASSUME TypeInv, PcInv, AnswerInv, NEW c \in Calls, pc[c] \notin Resting,
           \A d \in Calls : d # c => pc'[d] = pc[d] /\ outcome'[d] = outcome[d]
    PROVE  AnswerOf(c)' => AnswerInv'
<1>1. \A d \in Calls : d # c => pc[d] \in Resting
    BY AloneWith
<1>2. ASSUME NEW d \in Calls, d # c PROVE AnswerOf(d)'
    BY <1>1, <1>2 DEF AnswerInv, AnswerOf, Resting
<1> QED
    BY <1>2 DEF AnswerInv

LEMMA NextAnswerInv ==
    ~Concurrent /\ TypeInv /\ PcInv /\ StoredInv /\ TakenInv /\ AnswerInv /\ [Next]_vars => AnswerInv'
<1> SUFFICES ASSUME ~Concurrent, TypeInv, PcInv, StoredInv, TakenInv, AnswerInv, [Next]_vars PROVE AnswerInv'
    OBVIOUS
<1>0. /\ pc \in [Calls -> Pcs] /\ changed \subseteq Calls /\ None \notin Calls /\ faults \in Nat /\ faults + 1 # 0
      /\ keyqueue \in BOOLEAN /\ value \in [Calls -> Calls \cup {None}]
      /\ response \in [Calls -> Responses] /\ outcome \in [Calls -> Responses]
      /\ "ok" \notin Calls /\ "empty" \notin Calls /\ "error" \notin Calls
      /\ None \notin {"ok", "empty", "error"}
    BY QueueAssumption DEF QueueAssumption, TypeInv, TypeOK
<1>a. ASSUME NEW c \in Calls, pc[c] \notin Resting,
             \A d \in Calls : d # c => pc'[d] = pc[d] /\ outcome'[d] = outcome[d]
      PROVE  AnswerOf(c)' => AnswerInv'
    BY <1>a, AnswersOfOthers
<1>b. ASSUME NEW c \in Calls, MayBegin(c) PROVE pc[c] = "idle" /\ \A d \in Calls : pc[d] \in Resting
    BY <1>b, Zenon DEF MayBegin, Resting
<1> USE <1>0 DEF Goto, Resting
<1>1. ASSUME NEW c \in Calls, NEW k \in Keys, ReceivePush(c, k) PROVE AnswerInv'
    BY <1>1, <1>b DEF ReceivePush, AnswerInv, AnswerOf
<1>2. ASSUME NEW c \in Calls, ReceivePop(c) PROVE AnswerInv'
    BY <1>2, <1>b DEF ReceivePop, AnswerInv, AnswerOf
<1>3. ASSUME NEW c \in Calls, SetKey(c) PROVE AnswerInv'
    <2>1. pc[c] \notin Resting /\ \A d \in Calls : d # c => pc'[d] = pc[d] /\ outcome'[d] = outcome[d]
        BY <1>3 DEF SetKey
    <2>2. AnswerOf(c)'
        BY <1>3 DEF SetKey, AnswerInv, AnswerOf, PcInv, PushPcs, PopPcs, BeforePcs, AfterPcs, Pushing, queueVars, callVars
    <2> QED
        BY <1>a, <2>1, <2>2
<1>4. ASSUME NEW c \in Calls, SetQueueKey(c) PROVE AnswerInv'
    <2>1. pc[c] \notin Resting /\ \A d \in Calls : d # c => pc'[d] = pc[d] /\ outcome'[d] = outcome[d]
        BY <1>4 DEF SetQueueKey
    <2>2. AnswerOf(c)'
        BY <1>4 DEF SetQueueKey, AnswerInv, AnswerOf, PcInv, PushPcs, PopPcs, BeforePcs, AfterPcs, Pushing, queueVars, callVars
    <2> QED
        BY <1>a, <2>1, <2>2
<1>5. ASSUME NEW c \in Calls, GetExKey(c) PROVE AnswerInv'
    <2>1. pc[c] \notin Resting /\ \A d \in Calls : d # c => pc'[d] = pc[d] /\ outcome'[d] = outcome[d]
        BY <1>5 DEF GetExKey
    <2>2. AnswerOf(c)'
        BY <1>5 DEF GetExKey, AnswerInv, AnswerOf, PcInv, PushPcs, PopPcs, BeforePcs, AfterPcs, Pushing, queueVars, callVars
    <2> QED
        BY <1>a, <2>1, <2>2
<1>6. ASSUME NEW c \in Calls, Push(c) PROVE AnswerInv'
    <2>1. pc[c] \notin Resting /\ \A d \in Calls : d # c => pc'[d] = pc[d] /\ outcome'[d] = outcome[d]
        BY <1>6 DEF Push
    <2>2. AnswerOf(c)'
        BY <1>6 DEF Push, AnswerInv, AnswerOf, PcInv, PushPcs, PopPcs, BeforePcs, AfterPcs, Pushing, queueVars, callVars
    <2> QED
        BY <1>a, <2>1, <2>2
<1>7. ASSUME NEW c \in Calls, Chain(c) PROVE AnswerInv'
    <2>1. pc[c] \notin Resting /\ \A d \in Calls : d # c => pc'[d] = pc[d] /\ outcome'[d] = outcome[d]
        BY <1>7 DEF Chain
    <2>2. AnswerOf(c)'
        BY <1>7 DEF Chain, AnswerInv, AnswerOf, PcInv, PushPcs, PopPcs, BeforePcs, AfterPcs, Pushing, queueVars, callVars
    <2> QED
        BY <1>a, <2>1, <2>2
<1>8. ASSUME NEW c \in Calls, PlanPop(c) PROVE AnswerInv'
    <2>1. pc[c] \notin Resting /\ \A d \in Calls : d # c => pc'[d] = pc[d] /\ outcome'[d] = outcome[d]
        BY <1>8 DEF PlanPop
    <2>2. AnswerOf(c)'
        BY <1>8 DEF PlanPop, AnswerInv, AnswerOf, PcInv, PushPcs, PopPcs, BeforePcs, AfterPcs, Pushing, queueVars, callVars
    <2> QED
        BY <1>a, <2>1, <2>2
<1>9. ASSUME NEW c \in Calls, GetNextKey(c) PROVE AnswerInv'
    <2>1. pc[c] \notin Resting /\ \A d \in Calls : d # c => pc'[d] = pc[d] /\ outcome'[d] = outcome[d]
        BY <1>9 DEF GetNextKey
    <2>2. AnswerOf(c)'
        BY <1>9 DEF GetNextKey, AnswerInv, AnswerOf, PcInv, PushPcs, PopPcs, BeforePcs, AfterPcs, Pushing, queueVars, callVars
    <2> QED
        BY <1>a, <2>1, <2>2
<1>10. ASSUME NEW c \in Calls, Pop(c) PROVE AnswerInv'
    <2>1. pc[c] \notin Resting /\ \A d \in Calls : d # c => pc'[d] = pc[d] /\ outcome'[d] = outcome[d]
        BY <1>10 DEF Pop
    <2>2. AnswerOf(c)'
        BY <1>10 DEF Pop, AnswerInv, AnswerOf, PcInv, PushPcs, PopPcs, BeforePcs, AfterPcs, Pushing, queueVars, callVars
    <2> QED
        BY <1>a, <2>1, <2>2
<1>11. ASSUME NEW c \in Calls, GetValue(c) PROVE AnswerInv'
    <2>1. pc[c] \notin Resting /\ \A d \in Calls : d # c => pc'[d] = pc[d] /\ outcome'[d] = outcome[d]
        BY <1>11 DEF GetValue
    <2>2. AnswerOf(c)'
        BY <1>11 DEF GetValue, AnswerInv, AnswerOf, PcInv, PushPcs, PopPcs, BeforePcs, AfterPcs, Pushing, queueVars, callVars
    <2> QED
        BY <1>a, <2>1, <2>2
<1>12. ASSUME NEW c \in Calls, DelQueueKey(c) PROVE AnswerInv'
    <2>1. pc[c] \notin Resting /\ \A d \in Calls : d # c => pc'[d] = pc[d] /\ outcome'[d] = outcome[d]
        BY <1>12 DEF DelQueueKey
    <2>2. AnswerOf(c)'
        <3>1. /\ pc[c] = "delqkey" /\ pc' = [pc EXCEPT ![c] = IF keyqueue THEN "getkey" ELSE "stamp"]
              /\ UNCHANGED <<keyqueue, asked, qkey, value, outcome>> /\ outcome[c] = None
            BY <1>12 DEF DelQueueKey, callVars, AnswerInv, AnswerOf
        <3>2. value[c] = qkey[c]
            BY <3>1 DEF StoredInv
        <3> QED
            BY <3>1, <3>2 DEF AnswerOf
    <2> QED
        BY <1>a, <2>1, <2>2
<1>13. ASSUME NEW c \in Calls, GetKey(c) PROVE AnswerInv'
    <2>1. pc[c] \notin Resting /\ \A d \in Calls : d # c => pc'[d] = pc[d] /\ outcome'[d] = outcome[d]
        BY <1>13 DEF GetKey
    <2>2. AnswerOf(c)'
        <3>1. pc[c] = "getkey" /\ value[c] = qkey[c] /\ Taker(c) /\ keyqueue /\ outcome[c] = None
            BY <1>13 DEF GetKey, StoredInv, PcInv, AfterPcs, PopPcs, Taker, AnswerInv, AnswerOf
        <3>2. value[c] # None
            BY <3>1 DEF TakenInv, TakenOnce, Pushed, TypeInv, TypeOK
        <3>3. pc' = [pc EXCEPT ![c] = "delkey"] /\ keyqueue' = keyqueue /\ outcome' = outcome
            BY <1>13, <3>2 DEF GetKey
        <3> QED
            BY <3>1, <3>3 DEF AnswerOf
    <2> QED
        BY <1>a, <2>1, <2>2
<1>14. ASSUME NEW c \in Calls, DelKey(c) PROVE AnswerInv'
    <2>1. pc[c] \notin Resting /\ \A d \in Calls : d # c => pc'[d] = pc[d] /\ outcome'[d] = outcome[d]
        BY <1>14 DEF DelKey
    <2>2. AnswerOf(c)'
        BY <1>14 DEF DelKey, AnswerInv, AnswerOf, PcInv, PushPcs, PopPcs, BeforePcs, AfterPcs, Pushing, queueVars, callVars
    <2> QED
        BY <1>a, <2>1, <2>2
<1>15. ASSUME NEW c \in Calls, Stamp(c) PROVE AnswerInv'
    <2>1. pc[c] \notin Resting /\ \A d \in Calls : d # c => pc'[d] = pc[d] /\ outcome'[d] = outcome[d]
        BY <1>15 DEF Stamp
    <2>2. AnswerOf(c)'
        BY <1>15 DEF Stamp, AnswerInv, AnswerOf, PcInv, PushPcs, PopPcs, BeforePcs, AfterPcs, Pushing, queueVars, callVars
    <2> QED
        BY <1>a, <2>1, <2>2
<1>16. ASSUME NEW c \in Calls, CommandReplicate(c) PROVE AnswerInv'
    <2>1. pc[c] \notin Resting /\ \A d \in Calls : d # c => pc'[d] = pc[d] /\ outcome'[d] = outcome[d]
        BY <1>16 DEF CommandReplicate
    <2>2. AnswerOf(c)'
        <3>1. /\ pc[c] = "replicate" /\ pc' = [pc EXCEPT ![c] = "reply"] /\ c \in changed /\ outcome[c] = None
              /\ UNCHANGED <<keyqueue, asked, qkey, value, outcome, changed>>
            BY <1>16 DEF CommandReplicate, callVars, PcInv, AfterPcs, AnswerInv, AnswerOf
        <3>2. response'[c] = IF Pushing(c) THEN "ok" ELSE IF value[c] = None THEN "empty" ELSE value[c]
            BY <1>16 DEF CommandReplicate, SetResponse
        <3>3. Pushing(c)' <=> Pushing(c)
            BY <3>1 DEF Pushing
        <3>4. ~Pushing(c) => qkey[c] \in Calls
            BY <3>1 DEF Taker, TakenInv, TakenOnce, Pushed, TypeInv, TypeOK
        <3>5. ~Pushing(c) /\ value[c] = None => keyqueue
            BY <3>1, <3>4 DEF AnswerInv, AnswerOf
        <3> QED
            BY <3>1, <3>2, <3>3, <3>5 DEF AnswerOf
    <2> QED
        BY <1>a, <2>1, <2>2
<1>17. ASSUME NEW c \in Calls, ReplyResponse(c) PROVE AnswerInv'
    <2>1. pc[c] \notin Resting /\ \A d \in Calls : d # c => pc'[d] = pc[d] /\ outcome'[d] = outcome[d]
        BY <1>17 DEF ReplyResponse
    <2>2. AnswerOf(c)'
        BY <1>17 DEF ReplyResponse, AnswerInv, AnswerOf, PcInv, PushPcs, PopPcs, BeforePcs, AfterPcs, Pushing, queueVars, callVars
    <2> QED
        BY <1>a, <2>1, <2>2
<1>18. ASSUME NEW c \in Calls, ChainFails(c) PROVE AnswerInv'
    <2>1. pc[c] \notin Resting /\ \A d \in Calls : d # c => pc'[d] = pc[d] /\ outcome'[d] = outcome[d]
        BY <1>18 DEF ChainFails
    <2>2. AnswerOf(c)'
        BY <1>18 DEF ChainFails, AnswerInv, AnswerOf, PcInv, PushPcs, PopPcs, BeforePcs, AfterPcs, Pushing, queueVars, callVars
    <2> QED
        BY <1>a, <2>1, <2>2
<1>19. ASSUME NEW c \in Calls, GetNextKeyFails(c) PROVE AnswerInv'
    <2>1. pc[c] \notin Resting /\ \A d \in Calls : d # c => pc'[d] = pc[d] /\ outcome'[d] = outcome[d]
        BY <1>19 DEF GetNextKeyFails
    <2>2. AnswerOf(c)'
        BY <1>19 DEF GetNextKeyFails, AnswerInv, AnswerOf, PcInv, PushPcs, PopPcs, BeforePcs, AfterPcs, Pushing, queueVars, callVars
    <2> QED
        BY <1>a, <2>1, <2>2
<1>20. ASSUME NEW c \in Calls, ReplicateFails(c) PROVE AnswerInv'
    <2>1. pc[c] \notin Resting /\ \A d \in Calls : d # c => pc'[d] = pc[d] /\ outcome'[d] = outcome[d]
        BY <1>20 DEF ReplicateFails
    <2>2. AnswerOf(c)'
        <3>1. /\ pc[c] = "replicate" /\ pc' = [pc EXCEPT ![c] = "reply"] /\ c \in changed /\ outcome[c] = None
              /\ UNCHANGED <<keyqueue, asked, qkey, value, outcome, changed>>
            BY <1>20 DEF ReplicateFails, callVars, PcInv, AfterPcs, AnswerInv, AnswerOf
        <3>2. response'[c] = IF Pushing(c) THEN "ok" ELSE IF value[c] = None THEN "empty" ELSE value[c]
            BY <1>20 DEF ReplicateFails, SetResponse
        <3>3. Pushing(c)' <=> Pushing(c)
            BY <3>1 DEF Pushing
        <3>4. ~Pushing(c) => qkey[c] \in Calls
            BY <3>1 DEF Taker, TakenInv, TakenOnce, Pushed, TypeInv, TypeOK
        <3>5. ~Pushing(c) /\ value[c] = None => keyqueue
            BY <3>1, <3>4 DEF AnswerInv, AnswerOf
        <3> QED
            BY <3>1, <3>2, <3>3, <3>5 DEF AnswerOf
    <2> QED
        BY <1>a, <2>1, <2>2
<1>21. ASSUME NEW c \in Calls, ReplyFails(c) PROVE AnswerInv'
    <2>1. pc[c] \notin Resting /\ \A d \in Calls : d # c => pc'[d] = pc[d] /\ outcome'[d] = outcome[d]
        BY <1>21 DEF ReplyFails
    <2>2. AnswerOf(c)'
        BY <1>21 DEF ReplyFails, AnswerInv, AnswerOf, PcInv, PushPcs, PopPcs, BeforePcs, AfterPcs, Pushing, queueVars, callVars
    <2> QED
        BY <1>a, <2>1, <2>2
<1>22. ASSUME NEW c \in Calls, StepFails(c) PROVE AnswerInv'
    <2>1. pc[c] \notin Resting /\ \A d \in Calls : d # c => pc'[d] = pc[d] /\ outcome'[d] = outcome[d]
        BY <1>22 DEF StepFails, Fails, Fragile
    <2>2. AnswerOf(c)'
        BY <1>22 DEF StepFails, Fails, Fragile, AnswerInv, AnswerOf, PcInv, PushPcs, PopPcs, BeforePcs, AfterPcs, Pushing, queueVars, callVars
    <2> QED
        BY <1>a, <2>1, <2>2
<1>23. ASSUME NEW c \in Calls, Unanswered(c) PROVE AnswerInv'
    <2>1. pc[c] \notin Resting /\ \A d \in Calls : d # c => pc'[d] = pc[d] /\ outcome'[d] = outcome[d]
        BY <1>23 DEF Unanswered, Fails, Fragile
    <2>2. AnswerOf(c)'
        BY <1>23 DEF Unanswered, Fails, Fragile, AnswerInv, AnswerOf, PcInv, PushPcs, PopPcs, BeforePcs, AfterPcs, Pushing, queueVars, callVars
    <2> QED
        BY <1>a, <2>1, <2>2
<1>24. ASSUME NEW m \in net, ReplKey(m) PROVE AnswerInv'
    BY <1>24 DEF ReplKey, AnswerInv, AnswerOf, Pushing, queueVars, callVars
<1>25. CASE UNCHANGED vars
    BY <1>25 DEF vars, AnswerInv, AnswerOf, Pushing, queueVars, callVars
<1>27. ASSUME NEW c \in Calls, GetExKeyFails(c) PROVE AnswerInv'
    <2>1. pc[c] \notin Resting /\ \A d \in Calls : d # c => pc'[d] = pc[d] /\ outcome'[d] = outcome[d]
        BY <1>27 DEF GetExKeyFails
    <2>2. AnswerOf(c)'
        BY <1>27 DEF GetExKeyFails, AnswerInv, AnswerOf, PcInv, PushPcs, PopPcs, BeforePcs, AfterPcs, Pushing, queueVars, callVars
    <2> QED
        BY <1>a, <2>1, <2>2
<1> QED
    BY <1>1, <1>2, <1>3, <1>4, <1>5, <1>6, <1>7, <1>8, <1>9, <1>10, <1>11, <1>12, <1>13, <1>14, <1>15, <1>16, <1>17, <1>18, <1>19, <1>20, <1>21, <1>22, <1>23, <1>24, <1>25, <1>27 DEF Next, QPush, QPop, Finish, Trouble

LEMMA NextStorageInv ==
    ~Concurrent /\ TypeInv /\ PcInv /\ LinkInv /\ ReadInv /\ StoredInv /\ TakenInv /\ StorageInv /\ [Next]_vars => StorageInv'
<1> SUFFICES ASSUME ~Concurrent, TypeInv, PcInv, LinkInv, ReadInv, StoredInv, TakenInv, StorageInv, [Next]_vars PROVE StorageInv'
    OBVIOUS
<1>0. /\ pc \in [Calls -> Pcs] /\ changed \subseteq Calls /\ None \notin Calls
      /\ qkey \in [Calls -> Calls \cup {None}] /\ other \in [Calls -> Calls \cup {None}]
      /\ subs \in [Calls -> SUBSET Calls] /\ faults \in Nat /\ faults + 1 # 0 /\ stored \subseteq Calls
    BY QueueAssumption DEF QueueAssumption, TypeInv, TypeOK
<1>a. \A c, d \in Calls : c = d \/ pc[c] \in Resting \/ pc[d] \in Resting
    BY DEF PcInv
<1>b. ASSUME NEW c \in Calls, MayBegin(c) PROVE pc[c] = "idle" /\ \A d \in Calls : pc[d] \in Resting
    BY <1>b, Zenon DEF MayBegin, Resting
<1>c. ASSUME changed' = changed PROVE Live' = Live
    <2>1. ASSUME NEW c \in Calls, Push(c) PROVE FALSE
        BY <1>c, <2>1, PushLive DEF Push
    <2>2. ASSUME NEW c \in Calls, Pop(c) PROVE FALSE
        BY <1>c, <2>2, PopLive DEF Pop
    <2>3. Calm \/ \E c \in Calls : Link(c) \/ Delete(c)
        BY <2>1, <2>2, StepKinds
    <2> QED
        BY <2>3, CalmLive DEF Calm, Link, Delete
<1> USE <1>0, <1>a DEF Goto, Resting, StorageInv
<1>1. ASSUME NEW c \in Calls, NEW k \in Keys, ReceivePush(c, k) PROVE StorageInv'
    BY <1>1, <1>b, <1>c DEF ReceivePush, queueVars, callVars, timeVars
<1>2. ASSUME NEW c \in Calls, ReceivePop(c) PROVE StorageInv'
    BY <1>2, <1>b, <1>c DEF ReceivePop, queueVars, callVars, timeVars
<1>3. ASSUME NEW c \in Calls, SetKey(c) PROVE StorageInv'
    BY <1>c, <1>3 DEF SetKey, queueVars, callVars, timeVars
<1>4. ASSUME NEW c \in Calls, SetQueueKey(c) PROVE StorageInv'
    BY <1>c, <1>4 DEF SetQueueKey, queueVars, callVars, timeVars
<1>5. ASSUME NEW c \in Calls, GetExKey(c) PROVE StorageInv'
    BY <1>c, <1>5 DEF GetExKey, queueVars, callVars, timeVars
<1>6. ASSUME NEW c \in Calls, Push(c) PROVE StorageInv'
    <2>1. /\ pc[c] = "push" /\ UNCHANGED <<stored, qkey, faults>> /\ Live' = Live \cup {c}
          /\ \A d \in Calls : d # c => pc'[d] = pc[d]
        BY <1>6, PushLive DEF Push, callVars
    <2>2. \A d \in Calls : d # c => pc[d] \in Resting
        BY <2>1
    <2>3. faults = 0 => \A e \in stored : e \in Live'
        BY <2>1, <2>2
    <2> QED
        BY <2>1, <2>3
<1>7. ASSUME NEW c \in Calls, Chain(c) PROVE StorageInv'
    BY <1>c, <1>7 DEF Chain, queueVars, callVars, timeVars
<1>8. ASSUME NEW c \in Calls, PlanPop(c) PROVE StorageInv'
    BY <1>c, <1>8 DEF PlanPop, queueVars, callVars, timeVars
<1>9. ASSUME NEW c \in Calls, GetNextKey(c) PROVE StorageInv'
    BY <1>c, <1>9 DEF GetNextKey, queueVars, callVars, timeVars
<1>10. ASSUME NEW c \in Calls, Pop(c) PROVE StorageInv'
    <2>1. /\ pc[c] = "pop" /\ pc' = [pc EXCEPT ![c] = "getval"] /\ UNCHANGED <<stored, qkey, faults>>
          /\ Live' = Live \ {qkey[c]}
        BY <1>10, PopLive DEF Pop, callVars
    <2>2. \A d \in Calls : d # c => pc[d] \in Resting
        BY <2>1
    <2>3. pc'[c] = "getval"
        BY <2>1
    <2>4. faults = 0 => \A e \in stored : e \in Live
        BY <2>1, <2>2
    <2> QED
        BY <2>1, <2>3, <2>4
<1>11. ASSUME NEW c \in Calls, GetValue(c) PROVE StorageInv'
    BY <1>c, <1>11 DEF GetValue, queueVars, callVars, timeVars
<1>12. ASSUME NEW c \in Calls, DelQueueKey(c) PROVE StorageInv'
    BY <1>c, <1>12 DEF DelQueueKey, queueVars, callVars, timeVars
<1>13. ASSUME NEW c \in Calls, GetKey(c) PROVE StorageInv'
    BY <1>c, <1>13 DEF GetKey, queueVars, callVars, timeVars
<1>14. ASSUME NEW c \in Calls, DelKey(c) PROVE StorageInv'
    BY <1>c, <1>14 DEF DelKey, queueVars, callVars, timeVars
<1>15. ASSUME NEW c \in Calls, Stamp(c) PROVE StorageInv'
    BY <1>c, <1>15 DEF Stamp, queueVars, callVars, timeVars
<1>16. ASSUME NEW c \in Calls, CommandReplicate(c) PROVE StorageInv'
    BY <1>c, <1>16 DEF CommandReplicate, queueVars, callVars, timeVars
<1>17. ASSUME NEW c \in Calls, ReplyResponse(c) PROVE StorageInv'
    BY <1>c, <1>17 DEF ReplyResponse, queueVars, callVars, timeVars
<1>18. ASSUME NEW c \in Calls, ChainFails(c) PROVE StorageInv'
    BY <1>c, <1>18 DEF ChainFails, queueVars, callVars, timeVars
<1>19. ASSUME NEW c \in Calls, GetNextKeyFails(c) PROVE StorageInv'
    BY <1>c, <1>19 DEF GetNextKeyFails, queueVars, callVars, timeVars
<1>20. ASSUME NEW c \in Calls, ReplicateFails(c) PROVE StorageInv'
    BY <1>c, <1>20 DEF ReplicateFails, queueVars, callVars, timeVars
<1>21. ASSUME NEW c \in Calls, ReplyFails(c) PROVE StorageInv'
    BY <1>c, <1>21 DEF ReplyFails, queueVars, callVars, timeVars
<1>22. ASSUME NEW c \in Calls, StepFails(c) PROVE StorageInv'
    BY <1>c, <1>22 DEF StepFails, Fails, Fragile, queueVars, callVars, timeVars
<1>23. ASSUME NEW c \in Calls, Unanswered(c) PROVE StorageInv'
    BY <1>c, <1>23 DEF Unanswered, Fails, Fragile, queueVars, callVars, timeVars
<1>24. ASSUME NEW m \in net, ReplKey(m) PROVE StorageInv'
    BY <1>c, <1>24 DEF ReplKey, queueVars, callVars, timeVars
<1>25. CASE UNCHANGED vars
    BY <1>c, <1>25 DEF vars, queueVars, callVars, timeVars
<1>27. ASSUME NEW c \in Calls, GetExKeyFails(c) PROVE StorageInv'
    BY <1>c, <1>27 DEF GetExKeyFails, queueVars, callVars, timeVars
<1> QED
    BY <1>1, <1>2, <1>3, <1>4, <1>5, <1>6, <1>7, <1>8, <1>9, <1>10, <1>11, <1>12, <1>13, <1>14, <1>15, <1>16, <1>17, <1>18, <1>19, <1>20, <1>21, <1>22, <1>23, <1>24, <1>25, <1>27 DEF Next, QPush, QPop, Finish, Trouble

-----------------------------------------------------------------------------
(* A step and the way.                                                     *)

\* What has been pushed and taken stays as it is.
Kept == changed' = changed /\ \A c \in changed : asked'[c] = asked[c] /\ qkey'[c] = qkey[c]

Pushes(c, q, p) == Push(c) /\ (p = (IF fifo THEN Append(q, c) ELSE <<c>> \o q) \/ (faults # 0 /\ p = IF fifo THEN q ELSE <<c>>))
Pops(c, q, p) ==
    /\ Pop(c) /\ q # <<>> /\ qkey[c] = Head(q)
    /\ p = Tail(q) \/ (faults # 0 /\ IsPrefix(p, Tail(q)))
Loses(q, p) == Kept /\ faults' # 0 /\ IsPrefix(p, q) /\ outcome' = outcome

LEMMA WayStep ==
    ASSUME TypeInv, QueueInv, PopInv, [Next]_vars, NEW q, Chained(q), OnTheWay(q)
    PROVE  \E p : /\ Chained(p)' /\ OnTheWay(p)'
                  /\ (p = q /\ Kept) \/ Loses(q, p) \/ \E c \in Calls : Pushes(c, q, p) \/ Pops(c, q, p)
<1> DEFINE Goal == \E p : /\ Chained(p)' /\ OnTheWay(p)'
                          /\ (p = q /\ Kept) \/ Loses(q, p) \/ \E c \in Calls : Pushes(c, q, p) \/ Pops(c, q, p)
<1>1. PcInv /\ LinkInv /\ ChainInv /\ ReadInv /\ TakenInv
    BY DEF QueueInv
<1>2. (faults' = 0 => faults = 0) /\ faults' \in Nat
    BY Settings
<1>3. CASE Still
    <2>1. Chained(q)' /\ OnTheWay(q)'
        BY <1>2, <1>3, StillWay
    <2>2. Kept
        BY <1>3 DEF Still, Kept
    <2> QED
        BY <2>1, <2>2
<1>4. ASSUME NEW c \in Calls, Push(c) PROVE Goal
    <2>1. PICK p : /\ Chained(p)' /\ OnTheWay(p)'
                   /\ p = (IF fifo THEN Append(q, c) ELSE <<c>> \o q) \/ (faults # 0 /\ p = IF fifo THEN q ELSE <<c>>)
        BY <1>1, <1>4, PushWay
    <2>2. Pushes(c, q, p)
        BY <1>4, <2>1 DEF Pushes
    <2> QED
        BY <2>1, <2>2
<1>5. ASSUME NEW c \in Calls, Pop(c) PROVE Goal
    <2>1. q # <<>> /\ qkey[c] = Head(q)
        BY <1>1, <1>5, PopWay
    <2>2. PICK p : /\ Chained(p)' /\ OnTheWay(p)'
                   /\ p = Tail(q) \/ (faults # 0 /\ IsPrefix(p, Tail(q)))
        BY <1>1, <1>5, PopWay
    <2>3. Pops(c, q, p)
        BY <1>5, <2>1, <2>2 DEF Pops
    <2> QED
        BY <2>2, <2>3
<1>6. ASSUME NEW c \in Calls, Linking(c) \/ Erasing(c) PROVE Goal
    <2>1. Chained(q)' /\ OnTheWay(q)'
        BY <1>1, <1>2, <1>6, LinkingWay, ErasingWay
    <2>2. Kept
        BY <1>6 DEF Linking, Erasing, Leaves, Kept
    <2> QED
        BY <2>1, <2>2
<1>7. ASSUME NEW c \in Calls, Dropping(c) PROVE Goal
    <2>1. PICK p : IsPrefix(p, q) /\ Chained(p)' /\ OnTheWay(p)'
        BY <1>1, <1>2, <1>7, DroppingWay
    <2>2. Kept /\ faults' # 0 /\ outcome' = outcome
        BY <1>2, <1>7 DEF Dropping, Leaves, Kept
    <2> QED
        BY <2>1, <2>2 DEF Loses
<1> QED
    BY <1>1, <1>3, <1>4, <1>5, <1>6, <1>7, WaySteps

LEMMA NextOrderInv ==
    ASSUME ~Concurrent, TypeInv, QueueInv, OrderInv, [Next]_vars
    PROVE  OrderInv'
<1>1. PICK q : Chained(q) /\ OnTheWay(q)
    BY DEF OrderInv, WayInv
<1>2. PopInv
    BY DEF OrderInv
<1>3. PICK p : Chained(p)' /\ OnTheWay(p)'
    BY <1>1, <1>2, WayStep
<1>4. WayInv'
    BY <1>3 DEF WayInv
<1>5. PopInv' /\ AnswerInv' /\ StorageInv'
    BY NextPopInv, NextAnswerInv, NextStorageInv DEF QueueInv, OrderInv
<1> QED
    BY <1>4, <1>5 DEF OrderInv

LEMMA InitOrder == Init => OrderInv
<1> SUFFICES ASSUME Init PROVE OrderInv
    OBVIOUS
<1>1. /\ changed = {} /\ marker = NoMarker /\ faults = 0 /\ stored = {}
      /\ \A c \in Calls : pc[c] = "idle" /\ outcome[c] = None
    BY DEF Init
<1>2. Live = {}
    BY <1>1 DEF Live, Pushed
<1>3. PICK q : q = <<>>
    OBVIOUS
<1>4. Chained(q) /\ OnTheWay(q)
    BY <1>1, <1>2, <1>3 DEF Chained, OnTheWay, NoMarker
<1>5. PopInv /\ AnswerInv /\ StorageInv
    BY <1>1 DEF PopInv, AnswerInv, AnswerOf, StorageInv
<1> QED
    BY <1>4, <1>5 DEF OrderInv, WayInv

LEMMA OrderInvHolds == ~Concurrent /\ Spec => [](TypeInv /\ QueueInv /\ OrderInv)
<1>1. CASE ~Concurrent
    <2>1. TypeInv /\ QueueInv /\ OrderInv /\ [Next]_vars => OrderInv'
        BY <1>1, NextOrderInv
    <2>2. Spec => [](TypeInv /\ QueueInv)
        BY <1>1, QueueInvHolds
    <2> QED
        BY <2>1, <2>2, InitOrder, PTL DEF Spec
<1> QED
    BY <1>1

-----------------------------------------------------------------------------
(* The refinement.                                                         *)

\* Who answers.
LEMMA Replies ==
    ASSUME [Next]_vars
    PROVE  outcome' = outcome \/ \E c \in Calls : ReplyResponse(c) \/ ReplyFails(c)
<1>1. ASSUME NEW c \in Calls, Aside(c) PROVE outcome' = outcome \/ ReplyResponse(c) \/ ReplyFails(c)
    <2>1. CASE ReceivePop(c) \/ PlanPop(c) \/ \E k \in Keys : ReceivePush(c, k)
        BY <2>1 DEF ReceivePush, ReceivePop, PlanPop
    <2>2. CASE SetKey(c) \/ SetQueueKey(c) \/ GetExKey(c) \/ GetNextKey(c) \/ GetValue(c) \/ GetKey(c) \/ DelKey(c)
        BY <2>2 DEF SetKey, SetQueueKey, GetExKey, GetNextKey, GetValue, GetKey, DelKey
    <2>3. CASE Finish(c) \/ GetExKeyFails(c) \/ GetNextKeyFails(c) \/ ReplicateFails(c) \/ ReplyFails(c) \/ StepFails(c)
        BY <2>3 DEF Finish, Stamp, CommandReplicate, GetExKeyFails, GetNextKeyFails, ReplicateFails, StepFails
    <2> QED
        BY <1>1, <2>1, <2>2, <2>3 DEF Aside
<1>2. ASSUME NEW c \in Calls, Push(c) \/ Pop(c) \/ Chain(c) \/ ChainFails(c) \/ DelQueueKey(c) \/ Unanswered(c)
      PROVE  outcome' = outcome
    BY <1>2 DEF Push, Pop, Chain, ChainFails, DelQueueKey, Unanswered
<1>3. ASSUME NEW m \in net, ReplKey(m) PROVE outcome' = outcome
    BY <1>3 DEF ReplKey
<1>4. CASE UNCHANGED vars
    BY <1>4 DEF vars
<1> QED
    BY <1>1, <1>2, <1>3, <1>4, AllSteps

LEMMA KeptSame == ASSUME TypeInv, Kept PROVE Pushed' = Pushed /\ Hand' = Hand
<1>1. Pushed' = Pushed /\ \A c \in Calls : Taker(c)' <=> Taker(c)
    BY CalmLive DEF Kept
<1>2. \A c \in Calls : Hand'[c] = Hand[c]
    BY <1>1 DEF Kept, Hand, Taker
<1> QED
    BY <1>1, <1>2 DEF Hand

LEMMA Lossiness ==
    ASSUME TypeInv, [Next]_vars
    PROVE  Queue!Failing /\ (faults' = faults => (faults' > 0) = (faults > 0))
                         /\ (faults' # faults => (faults' > 0) = TRUE)
<1>1. fifo' = fifo /\ keyqueue' = keyqueue
    BY Settings
<1>2. faults' = faults => (faults' > 0) = (faults > 0)
    BY Zenon
<1>3. faults' # faults => faults' > 0
    BY Settings
<1>4. faults' # faults => (faults' > 0) = TRUE
    BY <1>3, Zenon
<1>5. (faults' > 0) \in {faults > 0, TRUE}
    BY <1>2, <1>4, Zenon
<1> QED
    BY <1>1, <1>2, <1>4, <1>5, Zenon DEF Queue!Failing

LEMMA InitIsQueue == Init => Queue!Init
<1> SUFFICES ASSUME Init PROVE Queue!Init
    OBVIOUS
<1>1. changed = {} /\ marker = NoMarker /\ faults = 0 /\ outcome = [c \in Calls |-> None]
    BY DEF Init
<1>2. PICK q : q = <<>>
    OBVIOUS
<1>3. Chained(q)
    BY <1>1, <1>2 DEF Chained, NoMarker
<1>4. Elements = <<>>
    BY <1>2, <1>3, ElementsAre
<1>5. Pushed = {} /\ Hand = [c \in Calls |-> None]
    BY <1>1 DEF Pushed, Hand
<1>6. (faults > 0) = FALSE
    BY <1>1
<1>7. fifo \in BOOLEAN /\ keyqueue \in BOOLEAN
    BY DEF Init
<1> QED
    BY <1>1, <1>4, <1>5, <1>6, <1>7 DEF Queue!Init

LEMMA QueueStep ==
    ASSUME ~Concurrent, TypeInv, QueueInv, OrderInv, [Next]_vars
    PROVE  Queue!Next \/ UNCHANGED Queue!vars
<1>0. /\ PopInv /\ AnswerInv /\ PcInv /\ TakenInv /\ LinkInv /\ ReadInv
      /\ faults \in Nat /\ faults' \in {faults, faults + 1}
    BY Settings DEF OrderInv, QueueInv
<1>1. PICK q : Chained(q) /\ OnTheWay(q)
    BY DEF OrderInv, WayInv
<1>2. PICK p : /\ Chained(p)'
               /\ (p = q /\ Kept) \/ Loses(q, p) \/ \E c \in Calls : Pushes(c, q, p) \/ Pops(c, q, p)
    BY <1>0, <1>1, WayStep
<1>3. Elements = q /\ Elements' = p
    <2>1. Elements = q
        BY <1>1, ElementsAre
    <2>2. Elements' = p
        BY <1>2, ElementsAreNext
    <2> QED
        BY <2>1, <2>2
<1>4. /\ Queue!Failing /\ fifo' = fifo /\ keyqueue' = keyqueue
      /\ faults' = faults => (faults' > 0) = (faults > 0)
      /\ faults' # faults => (faults' > 0) = TRUE
    BY Lossiness, Settings
<1>5. faults # 0 => faults' > 0
    BY <1>0
<1>6. q \in Seq(Calls) /\ IsPrefix(q, q)
    <2>1. q \in Seq(Calls)
        BY <1>1 DEF Chained
    <2> QED
        BY <2>1, SubSeqFull DEF IsPrefix
<1>7. CASE Loses(q, p)
    <2>1. Pushed' = Pushed /\ Hand' = Hand
        BY <1>7, KeptSame DEF Loses
    <2>2. (faults' > 0) = TRUE
        <3>1. faults' > 0
            BY <1>0, <1>7 DEF Loses
        <3> QED
            BY <3>1, Zenon
    <2>3. Queue!Lose
        BY <1>3, <1>4, <1>7, <2>1, <2>2, Zenon DEF Loses, Queue!Lose, IsPrefix, Queue!IsPrefix
    <2> QED
        BY <2>3, Zenon DEF Queue!Next
<1>8. ASSUME NEW c \in Calls, Pushes(c, q, p) PROVE Queue!Next
    <2>1. /\ c \notin changed /\ Pushing(c) /\ Pushed' = Pushed \cup {c}
          /\ \A d \in Calls : Taker(d)' <=> Taker(d)
        BY <1>0, <1>8, PushLive DEF Pushes
    <2>2. pc[c] = "push" /\ qkey' = qkey /\ outcome' = outcome
        BY <1>8 DEF Pushes, Push, callVars
    <2>3. c \notin Pushed /\ outcome[c] = None
        BY <1>0, <2>1, <2>2 DEF Pushed, AnswerInv, AnswerOf
    <2>4. Hand' = Hand
        <3>1. \A d \in Calls : Hand'[d] = Hand[d]
            BY <2>1, <2>2 DEF Hand, Taker
        <3> QED
            BY <3>1 DEF Hand
    <2>5. \/ Elements' = IF fifo THEN Append(Elements, c) ELSE <<c>> \o Elements
          \/ faults' > 0 /\ Elements' = IF fifo THEN Elements ELSE <<c>>
        BY <1>3, <1>5, <1>8, Zenon DEF Pushes
    <2>6. Queue!Push(c)
        BY <1>4, <2>1, <2>2, <2>3, <2>4, <2>5, Zenon DEF Queue!Push
    <2> QED
        BY <2>6, Zenon DEF Queue!Next
<1>9. ASSUME NEW c \in Calls, Pops(c, q, p) PROVE Queue!Next
    <2>1. /\ c \notin changed /\ ~Pushing(c) /\ Pushed' = Pushed
          /\ \A d \in Calls : Taker(d)' <=> Taker(d) \/ d = c
        BY <1>0, <1>9, PopLive DEF Pops
    <2>2. qkey' = qkey /\ outcome' = outcome /\ q # <<>> /\ qkey[c] = Head(q)
        BY <1>9 DEF Pops, Pop, callVars
    <2>3. Hand[c] = None
        BY <2>1 DEF Hand
    <2>4. Hand' = [Hand EXCEPT ![c] = Head(q)]
        <3>1. \A d \in Calls : Hand'[d] = IF d = c THEN Head(q) ELSE Hand[d]
            BY <2>1, <2>2 DEF Hand, Taker
        <3> QED
            BY <3>1 DEF Hand
    <2>5. \/ Elements' = Tail(Elements)
          \/ faults' > 0 /\ IsPrefix(Elements', Tail(Elements))
        BY <1>3, <1>5, <1>9, Zenon DEF Pops
    <2>6. Queue!Pop(c)
        BY <1>3, <1>4, <2>1, <2>2, <2>3, <2>4, <2>5, Zenon DEF Queue!Pop, IsPrefix, Queue!IsPrefix
    <2> QED
        BY <2>6, Zenon DEF Queue!Next
<1>10. ASSUME p = q, Kept, NEW c \in Calls, ReplyResponse(c) \/ ReplyFails(c) PROVE Queue!Next
    <2>1. Pushed' = Pushed /\ Hand' = Hand
        BY <1>10, KeptSame
    <2>2. pc[c] = "reply" /\ outcome[c] = None
        BY <1>0, <1>10 DEF ReplyResponse, ReplyFails, AnswerInv, AnswerOf
    <2>3. CASE ReplyFails(c)
        <3>1. faults' > 0 /\ outcome' = [outcome EXCEPT ![c] = "error"]
            BY <1>0, <2>3 DEF ReplyFails
        <3>2. Queue!Refuses(c)
            BY <3>1, Zenon DEF Queue!Refuses
        <3> QED
            BY <1>3, <1>4, <1>10, <2>1, <2>2, <3>2, Zenon DEF Queue!Next, Queue!Answer
    <2>4. CASE ReplyResponse(c)
        <3>1. outcome' = [outcome EXCEPT ![c] = response[c]] /\ faults' = faults
            BY <2>4 DEF ReplyResponse
        <3>2. response[c] \in Calls \cup {"ok", "empty", "error"}
            BY <1>0, <2>2 DEF AnswerInv, AnswerOf, TypeInv, TypeOK, Responses
        <3>3. ASSUME c \in changed, ~Pushing(c) PROVE Hand[c] = qkey[c] /\ qkey[c] # None
            BY <1>0, <3>3, QueueAssumption
               DEF Hand, Taker, TakenInv, TakenOnce, Pushed, TypeInv, TypeOK, QueueAssumption
        <3>4. CASE response[c] \in Calls
            <4>1. Hand[c] # None /\ response[c] = Hand[c]
                BY <1>0, <3>3, <3>4 DEF TakenInv, TakenAnswered, Taker
            <4>2. Queue!Answers(c)
                BY <3>1, <4>1, Zenon DEF Queue!Answers
            <4> QED
                BY <1>3, <1>4, <1>10, <2>1, <2>2, <4>2, Zenon DEF Queue!Next, Queue!Answer
        <3>5. CASE response[c] = "ok"
            <4>1. c \in Pushed
                BY <1>0, <2>2, <3>5 DEF AnswerInv, AnswerOf, Pushed
            <4>2. Queue!Answers(c)
                BY <3>1, <3>5, <4>1, Zenon DEF Queue!Answers
            <4> QED
                BY <1>3, <1>4, <1>10, <2>1, <2>2, <4>2, Zenon DEF Queue!Next, Queue!Answer
        <3>6. CASE response[c] = "empty"
            <4>1. Hand[c] # None /\ keyqueue
                BY <1>0, <2>2, <3>3, <3>6 DEF AnswerInv, AnswerOf
            <4>2. Queue!Answers(c)
                BY <3>1, <3>6, <4>1, Zenon DEF Queue!Answers
            <4> QED
                BY <1>3, <1>4, <1>10, <2>1, <2>2, <4>2, Zenon DEF Queue!Next, Queue!Answer
        <3>7. CASE response[c] = "error"
            <4>1. (q = <<>> /\ c \notin Pushed /\ Hand[c] = None) \/ faults' > 0
                <5>1. CASE faults = 0
                    <6>1. c \notin changed /\ marker.top = None
                        BY <1>0, <2>2, <3>7, <5>1 DEF AnswerInv, AnswerOf
                    <6>2. c \notin Pushed /\ Hand[c] = None
                        BY <6>1 DEF Pushed, Hand
                    <6>3. q = <<>>
                        <7>1. None \notin Calls
                            BY QueueAssumption DEF QueueAssumption
                        <7>2. q # <<>> => q[1] = None /\ q[1] \in Calls
                            BY <1>1, <1>6, <6>1 DEF Chained
                        <7> QED
                            BY <7>1, <7>2
                    <6> QED
                        BY <6>2, <6>3
                <5>2. CASE faults # 0
                    BY <1>5, <5>2
                <5> QED
                    BY <5>1, <5>2
            <4>2. Queue!Refuses(c)
                BY <1>3, <3>1, <3>7, <4>1, Zenon DEF Queue!Refuses
            <4> QED
                BY <1>3, <1>4, <1>10, <2>1, <2>2, <4>2, Zenon DEF Queue!Next, Queue!Answer
        <3> QED
            BY <3>2, <3>4, <3>5, <3>6, <3>7
    <2> QED
        BY <1>10, <2>3, <2>4
<1>11. ASSUME p = q, Kept, outcome' = outcome PROVE Queue!Next \/ UNCHANGED Queue!vars
    <2>1. Pushed' = Pushed /\ Hand' = Hand
        BY <1>11, KeptSame
    <2>2. CASE faults' = faults
        BY <1>3, <1>4, <1>11, <2>1, <2>2, Zenon DEF Queue!vars
    <2>3. CASE faults' # faults
        <3>1. Queue!Lose
            BY <1>3, <1>4, <1>6, <1>11, <2>1, <2>3, Zenon DEF Queue!Lose, IsPrefix, Queue!IsPrefix
        <3> QED
            BY <3>1, Zenon DEF Queue!Next
    <2> QED
        BY <2>2, <2>3
<1>12. CASE p = q /\ Kept
    BY <1>10, <1>11, <1>12, Replies
<1> QED
    BY <1>2, <1>7, <1>8, <1>9, <1>12

\* Used by one client at a time, the commands are the queue they promise to be.
THEOREM QueueIsQueue == ~Concurrent /\ Spec => IsQueue
<1>1. CASE ~Concurrent
    <2>1. TypeInv /\ QueueInv /\ OrderInv /\ [Next]_vars => [Queue!Next]_(Queue!vars)
        BY <1>1, QueueStep
    <2>2. Spec => [](TypeInv /\ QueueInv /\ OrderInv)
        BY <1>1, OrderInvHolds
    <2> QED
        BY <2>1, <2>2, InitIsQueue, PTL DEF Spec, IsQueue, Queue!Spec
<1> QED
    BY <1>1

\* The elements one finds from the marker on have a value, and without a
\* failure nothing else is stored.
THEOREM NoOrphansLeft == Spec => []NoOrphans
<1>1. ASSUME TypeInv, QueueInv, OrderInv PROVE NoOrphans
    <2>1. PICK q : Chained(q) /\ OnTheWay(q)
        BY <1>1 DEF OrderInv, WayInv
    <2>2. Elements = q
        BY <2>1, ElementsAre
    <2>3. ToSet(q) = {q[i] : i \in 1..Len(q)}
        <3>1. q \in Seq(Calls)
            BY <2>1 DEF Chained
        <3> QED
            BY <3>1 DEF ToSet
    <2>4. Live \subseteq stored /\ \A i \in 1..Len(q) : q[i] \in Live
        BY <1>1, <2>1 DEF QueueInv, StoredInv, Chained
    <2>5. ToSet(q) \subseteq stored
        BY <2>3, <2>4
    <2>6. ASSUME Quiet, faults = 0 PROVE stored = ToSet(q)
        <3>1. stored \subseteq Calls /\ \A c \in Calls : pc[c] \in {"idle", "done"}
            BY <1>1, <2>6 DEF TypeInv, TypeOK, Quiet
        <3>2. \A e \in stored : e \in Live
            BY <1>1, <2>6, <3>1 DEF OrderInv, StorageInv
        <3>3. \A e \in Live : e \in ToSet(q)
            BY <2>1, <2>3, <2>6 DEF OnTheWay
        <3> QED
            BY <2>5, <3>2, <3>3
    <2> QED
        BY <2>2, <2>5, <2>6 DEF NoOrphans
<1>2. CASE ~Concurrent
    <2>1. TypeInv /\ QueueInv /\ OrderInv => NoOrphans
        BY <1>1
    <2>2. Spec => [](TypeInv /\ QueueInv /\ OrderInv)
        BY <1>2, OrderInvHolds
    <2> QED
        BY <2>1, <2>2, PTL
<1>3. CASE Concurrent
    <2>1. NoOrphans
        BY <1>3 DEF NoOrphans
    <2> QED
        BY <2>1, PTL
<1> QED
    BY <1>2, <1>3, QueueAssumption DEF QueueAssumption
====
