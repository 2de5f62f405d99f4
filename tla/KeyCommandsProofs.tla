------------------------- MODULE KeyCommandsProofs -------------------------
(***************************************************************************)
(* Proofs about KeyCommands, for any number of servers, commands, requests *)
(* and subkeys and any width of the numbers.                               *)
(***************************************************************************)
EXTENDS KeyCommands, TLAPS

\* The places of a command: before it has taken effect, while it holds the lock.
Undecided == {"idle", "get", "read", "set", "setall", "remove", "lock", "init", "cas", "casset",
              "subs", "replace"}
Holding == {"init", "cas", "casset", "subs", "unlock"}
Counting == {"casset", "inc", "dec"}

\* What the place of a command says of its request, of the value it has in hand
\* and of its outcome.
CallInv(c) ==
    /\ pc[c] = "idle" <=> request[c] = None
    /\ pc[c] = "get" => request[c].op = "get"
    /\ pc[c] \in {"read", "set"} => request[c].op = "set" /\ buf[c].val = request[c].val
    /\ pc[c] = "setall" => request[c].op = "setall"
    /\ pc[c] = "remove" => request[c].op = "del"
    /\ pc[c] \in {"lock", "unlock"} => request[c].op \in Locking
    /\ pc[c] = "init" => request[c].op = "casinit"
    /\ pc[c] \in {"cas", "casset"} => request[c].op \in Counting
    /\ pc[c] = "subs" => request[c].op \in Subkeying
    /\ pc[c] = "replace" => request[c].op \in Subkeying \cup {"setsubs"}
    /\ pc[c] \in Undecided => outcome[c] = None
    /\ pc[c] = "unlock" /\ request[c].op \in Subkeying => outcome[c] = None

\* The lock is held exactly where the code holds it.
LockInv(c) == lock = c <=> pc[c] \in Holding

\* The messages to the other servers.
Messages == [from : Calls, to : Others, ts : Nat,
             element : [val : Values \cup {None}, subs : SUBSET Subkeys, mtime : Nat]]

\* The value a CAS command will set, from the one it found.
Swapped(rq, v) == IF rq.op = "casset" THEN rq.val ELSE Counted(rq.op, v)

\* Between its read and its write the value has not changed.
CasInv(c) ==
    pc[c] = "casset" => /\ Refusal(request[c], Here.val) = "none"
                        /\ buf[c].val = Swapped(request[c], Here.val)

\* The inductive invariant of the commands at Primary.
CommandsInv == \A c \in Calls : CallInv(c) /\ LockInv(c) /\ CasInv(c)
KeyInv == TypeOK /\ CommandsInv
-----------------------------------------------------------------------------
\* Counting stays within the width of the value, wraps at its ends, and is what
\* KeyRegister calls the neighbour.
LEMMA CountedIsNumber ==
    ASSUME NEW v \in Numbers, NEW op
    PROVE  Counted(op, v) \in Numbers
BY KeyAssumption DEF Counted, Numbers

LEMMA CountedIsNeighbour ==
    ASSUME NEW v \in Numbers, NEW op \in {"inc", "dec"}
    PROVE  Counted(op, v) = Register!Neighbour(op, v)
BY KeyAssumption DEF Counted, Numbers, Register!Neighbour
-----------------------------------------------------------------------------
LEMMA InitKeyInv == Init => KeyInv
BY KeyAssumption, RequestAssumption DEF Init, KeyInv, CommandsInv, TypeOK, CallInv, LockInv, CasInv, Holding, Undecided, Absent,
    Pcs, Values, Numbers

LEMMA NextType == KeyInv /\ [Next]_vars => TypeOK'
<1> SUFFICES ASSUME KeyInv, [Next]_vars PROVE TypeOK'
    OBVIOUS
<1> USE KeyAssumption, RequestAssumption, CountedIsNumber DEF KeyInv, CommandsInv, TypeOK, CallInv, Goto, Write, ReadClock, Here, Outcome, Success, Pcs, Ops, Codes, Absent, Locking, Fault, faultVars, WriteError, Subkeying, Counting
<1>1. ASSUME NEW c \in Calls, NEW rq \in Requests, Receive(c, rq) PROVE TypeOK'
    BY <1>1 DEF Receive
<1>2. ASSUME NEW c \in Calls, Get(c) PROVE TypeOK'
    BY <1>2 DEF Get
<1>3. ASSUME NEW c \in Calls, ReadSubkeys(c) PROVE TypeOK'
    BY <1>3 DEF ReadSubkeys
<1>4. ASSUME NEW c \in Calls, Set(c) PROVE TypeOK'
    BY <1>4 DEF Set
<1>5. ASSUME NEW c \in Calls, SetAll(c) PROVE TypeOK'
    BY <1>5 DEF SetAll
<1>6. ASSUME NEW c \in Calls, Remove(c) PROVE TypeOK'
    BY <1>6 DEF Remove
<1>7. ASSUME NEW c \in Calls, Lock(c) PROVE TypeOK'
    BY <1>7 DEF Lock
<1>8. ASSUME NEW c \in Calls, CasInit(c) PROVE TypeOK'
    BY <1>8 DEF CasInit
<1>9. ASSUME NEW c \in Calls, CasRefused(c) PROVE TypeOK'
    <2>1. Refusal(request[c], Here.val) \in {"none"} \cup Codes
        BY DEF Refusal
    <2>2. outcome' = [outcome EXCEPT ![c] = Outcome(Refusal(request[c], Here.val), None)]
          /\ Refusal(request[c], Here.val) # "none"
        BY <1>9 DEF CasRefused
    <2>3. outcome'[c] \in [code : Codes, val : Values \cup {None}]
        BY <2>1, <2>2
    <2>4. outcome' \in [Calls -> [code : Codes, val : Values \cup {None}] \cup {None}]
        BY <2>2, <2>3
    <2> QED
        BY <1>9, <2>4 DEF CasRefused
<1>10. ASSUME NEW c \in Calls, CasAccepted(c) PROVE TypeOK'
    <2>1. request[c] \in Requests /\ request[c].op \in Counting /\ Here.val \in Values \cup {None}
        BY <1>10 DEF CasAccepted
    <2>2. Swapped(request[c], Here.val) \in Values
        BY <1>10, <2>1 DEF CasAccepted, Swapped, Refusal, Values
    <2>3. buf' = [buf EXCEPT ![c].val = Swapped(request[c], Here.val)]
        BY <1>10 DEF CasAccepted, Swapped
    <2>4. buf' \in [Calls -> [val : Values \cup {None}, subs : SUBSET Subkeys]]
        BY <2>2, <2>3
    <2> QED
        BY <1>10, <2>4 DEF CasAccepted
<1>11. ASSUME NEW c \in Calls, CasSet(c) PROVE TypeOK'
    BY <1>11 DEF CasSet
<1>12. ASSUME NEW c \in Calls, AddSubkey(c) PROVE TypeOK'
    <2>1. request[c] \in Requests
        BY <1>12 DEF AddSubkey
    <2>2. Here.subs \cup request[c].subs \in SUBSET Subkeys
        BY <2>1
    <2>3. buf' \in [Calls -> [val : Values \cup {None}, subs : SUBSET Subkeys]]
        BY <1>12, <2>2 DEF AddSubkey
    <2> QED
        BY <1>12, <2>3 DEF AddSubkey
<1>13. ASSUME NEW c \in Calls, DelSubkeyEarly(c) PROVE TypeOK'
    BY <1>13 DEF DelSubkeyEarly
<1>14. ASSUME NEW c \in Calls, DelSubkey(c) PROVE TypeOK'
    BY <1>14 DEF DelSubkey
<1>15. ASSUME NEW c \in Calls, Unlock(c) PROVE TypeOK'
    BY <1>15 DEF Unlock
<1>16. ASSUME NEW c \in Calls, ReplaceSubkeys(c) PROVE TypeOK'
    <2>1. store' \in [Servers -> [val : Values \cup {None}, subs : SUBSET Subkeys, mtime : Nat]]
        <3>1. clock' \in Nat
            BY <1>16 DEF ReplaceSubkeys
        <3>2. CASE Write(Here.val, buf[c].subs)
            BY <3>1, <3>2
        <3>3. CASE store' = [store EXCEPT ![Primary].subs = buf[c].subs]
            <4> DEFINE e == [Here EXCEPT !.subs = buf[c].subs]
            <4>1. e \in [val : Values \cup {None}, subs : SUBSET Subkeys, mtime : Nat]
                OBVIOUS
            <4>2. store' = [store EXCEPT ![Primary] = e]
                BY <3>3
            <4> QED
                BY <4>1, <4>2
        <3> QED
            BY <1>16, <3>2, <3>3 DEF ReplaceSubkeys
    <2> QED
        BY <1>16, <2>1 DEF ReplaceSubkeys
<1>17. ASSUME NEW c \in Calls, Stamp(c) PROVE TypeOK'
    BY <1>17 DEF Stamp
<1>18. ASSUME NEW c \in Calls, ReplyResponse(c) PROVE TypeOK'
    BY <1>18 DEF ReplyResponse
<1>19. ASSUME NEW c \in Calls, Respond(c) PROVE TypeOK'
    BY <1>19 DEF Respond
<1>20. ASSUME NEW c \in Calls, CopyValue(c) PROVE TypeOK'
    BY <1>20 DEF CopyValue
<1>21. ASSUME NEW c \in Calls, CopySubkeys(c) PROVE TypeOK'
    BY SMTT(30), <1>21 DEF CopySubkeys
<1>22. ASSUME NEW c \in Calls, CommandReplicate(c) PROVE TypeOK'
    <2>1. ASSUME NEW s \in Others PROVE ReplKey(c, s) \in Messages
        BY <2>1 DEF ReplKey, Messages
    <2>2. net' \cup removing' \subseteq Messages
        BY <1>22, <2>1 DEF CommandReplicate, Messages
    <2> QED
        BY <1>22, <2>2 DEF CommandReplicate, Messages
<1>23. ASSUME NEW c \in Calls, CommandReplicateDel(c) PROVE TypeOK'
    <2>1. ASSUME NEW s \in Others PROVE ReplDel(c, s) \in Messages
        BY <2>1 DEF ReplDel, Messages
    <2>2. net' \cup removing' \subseteq Messages
        BY <1>23, <2>1 DEF CommandReplicateDel, Messages
    <2> QED
        BY <1>23, <2>2 DEF CommandReplicateDel, Messages
<1>24. ASSUME NEW c \in Calls, ReplyFails(c) PROVE TypeOK'
    BY <1>24 DEF ReplyFails, Unsent
<1>25. ASSUME NEW m \in net, ReplKeyProcessing(m) PROVE TypeOK'
    <2>1. m.to \in Servers /\ m.element \in [val : Values \cup {None}, subs : SUBSET Subkeys, mtime : Nat]
        BY DEF Others
    <2>2. store' \in [Servers -> [val : Values \cup {None}, subs : SUBSET Subkeys, mtime : Nat]]
        BY <1>25, <2>1 DEF ReplKeyProcessing, SetElementByBinArray
    <2> QED
        BY <1>25, <2>2 DEF ReplKeyProcessing
<1>26. ASSUME NEW m \in net, ReplDelCheck(m) PROVE TypeOK'
    BY <1>26 DEF ReplDelCheck
<1>27. ASSUME NEW m \in removing, ReplDelRemove(m) PROVE TypeOK'
    BY <1>27 DEF ReplDelRemove
<1>28. CASE UNCHANGED vars
    BY <1>28 DEF vars
<1>29. ASSUME NEW c \in Calls, WriteFails(c) PROVE TypeOK'
    BY <1>29 DEF WriteFails, GiveUp
<1>30. ASSUME NEW c \in Calls, EditFails(c) PROVE TypeOK'
    BY <1>30 DEF EditFails, GiveUp
<1>31. ASSUME NEW c \in Calls, ReadFails(c) PROVE TypeOK'
    BY <1>31 DEF ReadFails, GiveUp
<1>32. ASSUME NEW c \in Calls, ReadSubkeysFails(c) PROVE TypeOK'
    <2>1. request[c] \in Requests
        BY <1>32 DEF ReadSubkeysFails
    <2> DEFINE s == IF pc[c] = "read" THEN {} ELSE request[c].subs
    <2>2. s \in SUBSET Subkeys
        BY <2>1
    <2>3. buf' = [buf EXCEPT ![c].subs = s]
        BY <1>32 DEF ReadSubkeysFails
    <2>4. buf' \in [Calls -> [val : Values \cup {None}, subs : SUBSET Subkeys]]
        BY <2>2, <2>3
    <2> QED
        BY <1>32, <2>4 DEF ReadSubkeysFails
<1>33. ASSUME NEW c \in Calls, CopyFails(c) PROVE TypeOK'
    <2>1. /\ faults' \in Nat /\ missed' = missed /\ misread' \subseteq Calls
          /\ UNCHANGED <<store, lock, clock, request, ts, outcome, removing>>
        BY <1>33 DEF CopyFails
    <2>2. ASSUME NEW s \in Others PROVE [ReplKey(c, s) EXCEPT !.element.mtime = 0] \in Messages
        BY <2>2 DEF ReplKey, Messages
    <2>3. CASE pc[c] = "copyval"
        <3>1. /\ buf' = [buf EXCEPT ![c].val = None] /\ net' = net
              /\ pc' = [pc EXCEPT ![c] = "copysubs"]
            BY <1>33, <2>3 DEF CopyFails
        <3>2. buf' \in [Calls -> [val : Values \cup {None}, subs : SUBSET Subkeys]]
            BY <3>1
        <3> QED
            BY <2>1, <3>1, <3>2
    <2>4. CASE pc[c] = "copysubs"
        <3>1. /\ buf' = [buf EXCEPT ![c].subs = {}] /\ net' = net
              /\ pc' = [pc EXCEPT ![c] = "send"]
            BY <1>33, <2>4 DEF CopyFails
        <3>2. buf' \in [Calls -> [val : Values \cup {None}, subs : SUBSET Subkeys]]
            BY <3>1
        <3> QED
            BY <2>1, <3>1, <3>2
    <2>5. CASE pc[c] = "send"
        <3>1. /\ net' = net \cup {[ReplKey(c, s) EXCEPT !.element.mtime = 0] : s \in Others}
              /\ buf' = buf /\ pc' = [pc EXCEPT ![c] = "done"]
            BY <1>33, <2>5 DEF CopyFails
        <3> DEFINE k(s) == [ReplKey(c, s) EXCEPT !.element.mtime = 0]
        <3>2. \A s \in Others : k(s) \in Messages
            BY <2>2
        <3>3. net \subseteq Messages /\ removing \subseteq Messages
            BY DEF Messages
        <3>4. net' = net \cup {k(s) : s \in Others}
            BY <3>1
        <3> HIDE DEF k
        <3>5. net' \cup removing' \subseteq Messages
            BY <2>1, <3>2, <3>3, <3>4
        <3> QED
            BY <2>1, <3>1, <3>5 DEF Messages
    <2> QED
        BY <1>33, <2>3, <2>4, <2>5 DEF CopyFails
<1>34. ASSUME NEW c \in Calls, ReplicateFails(c) PROVE TypeOK'
    <2>1. missed' \subseteq [to : Others, ts : Nat]
        BY <1>34 DEF ReplicateFails, Unsent
    <2> QED
        BY <1>34, <2>1 DEF ReplicateFails
<1>35. ASSUME NEW m \in net, Lose(m) PROVE TypeOK'
    BY <1>35 DEF Lose
<1>36. ASSUME NEW m \in net, ReplKeyFails(m) PROVE TypeOK'
    BY <1>36 DEF ReplKeyFails
<1>37. ASSUME NEW m \in removing, ReplDelFails(m) PROVE TypeOK'
    BY <1>37 DEF ReplDelFails
<1>38. ASSUME NEW m \in net, ReplDelMisreads(m) PROVE TypeOK'
    BY <1>38 DEF ReplDelMisreads
<1> QED
    BY <1>1, <1>2, <1>3, <1>4, <1>5, <1>6, <1>7, <1>8, <1>9, <1>10, <1>11, <1>12, <1>13, <1>14, <1>15, <1>16, <1>17, <1>18, <1>19, <1>20, <1>21, <1>22, <1>23, <1>24, <1>25, <1>26, <1>27, <1>28, <1>29, <1>30, <1>31, <1>32, <1>33, <1>34, <1>35, <1>36, <1>37, <1>38 DEF Next, CommandProcessing, CommandFails, Replication

\* A replication never touches the server that executes the commands.
LEMMA ReplicationKeepsPrimary ==
    ASSUME TypeOK, Replication
    PROVE  Here' = Here
<1>1. \A m \in net \cup removing : m.to # Primary
    BY DEF TypeOK, Others
<1>2. store \in [Servers -> [val : Values \cup {None}, subs : SUBSET Subkeys, mtime : Nat]]
    BY DEF TypeOK
<1>3. ASSUME NEW m \in net, ReplKeyProcessing(m) \/ ReplDelCheck(m) PROVE Here' = Here
    BY <1>1, <1>2, <1>3, KeyAssumption DEF ReplKeyProcessing, ReplDelCheck, SetElementByBinArray, Here
<1>4. ASSUME NEW m \in removing, ReplDelRemove(m) PROVE Here' = Here
    BY <1>1, <1>2, <1>4, KeyAssumption DEF ReplDelRemove, Here
<1>5. ASSUME NEW m \in net \cup removing, Lose(m) \/ ReplKeyFails(m) \/ ReplDelFails(m) \/ ReplDelMisreads(m) PROVE Here' = Here
    BY <1>5 DEF Lose, ReplKeyFails, ReplDelFails, ReplDelMisreads, Here
<1> QED
    BY <1>3, <1>4, <1>5 DEF Replication

LEMMA NextCommands == KeyInv /\ [Next]_vars => CommandsInv'
<1> SUFFICES ASSUME KeyInv, [Next]_vars PROVE CommandsInv'
    OBVIOUS
<1> USE KeyAssumption, RequestAssumption DEF KeyInv, CommandsInv, TypeOK, CallInv, LockInv, CasInv, Goto, Write, Access, Here, Ops, Locking, Subkeying, Counting, Undecided, Holding, faultVars
<1>1. ASSUME NEW c \in Calls, NEW rq \in Requests, Receive(c, rq) PROVE CommandsInv'
    BY <1>1 DEF Receive
<1>2. ASSUME NEW c \in Calls, Get(c) PROVE CommandsInv'
    BY <1>2 DEF Get
<1>3. ASSUME NEW c \in Calls, ReadSubkeys(c) PROVE CommandsInv'
    BY <1>3 DEF ReadSubkeys
<1>4. ASSUME NEW c \in Calls, Set(c) PROVE CommandsInv'
    BY <1>4 DEF Set
<1>5. ASSUME NEW c \in Calls, SetAll(c) PROVE CommandsInv'
    BY <1>5 DEF SetAll
<1>6. ASSUME NEW c \in Calls, Remove(c) PROVE CommandsInv'
    BY <1>6 DEF Remove
<1>7. ASSUME NEW c \in Calls, Lock(c) PROVE CommandsInv'
    BY <1>7 DEF Lock
<1>8. ASSUME NEW c \in Calls, CasInit(c) PROVE CommandsInv'
    BY <1>8 DEF CasInit
<1>9. ASSUME NEW c \in Calls, CasRefused(c) PROVE CommandsInv'
    BY <1>9 DEF CasRefused
<1>10. ASSUME NEW c \in Calls, CasAccepted(c) PROVE CommandsInv'
    BY <1>10 DEF CasAccepted, Swapped
<1>11. ASSUME NEW c \in Calls, CasSet(c) PROVE CommandsInv'
    BY <1>11 DEF CasSet
<1>12. ASSUME NEW c \in Calls, AddSubkey(c) PROVE CommandsInv'
    BY <1>12 DEF AddSubkey
<1>13. ASSUME NEW c \in Calls, DelSubkeyEarly(c) PROVE CommandsInv'
    BY <1>13 DEF DelSubkeyEarly
<1>14. ASSUME NEW c \in Calls, DelSubkey(c) PROVE CommandsInv'
    BY <1>14 DEF DelSubkey
<1>15. ASSUME NEW c \in Calls, Unlock(c) PROVE CommandsInv'
    BY <1>15 DEF Unlock
<1>16. ASSUME NEW c \in Calls, ReplaceSubkeys(c) PROVE CommandsInv'
    BY <1>16 DEF ReplaceSubkeys
<1>17. ASSUME NEW c \in Calls, Stamp(c) PROVE CommandsInv'
    BY <1>17 DEF Stamp
<1>18. ASSUME NEW c \in Calls, ReplyResponse(c) PROVE CommandsInv'
    BY <1>18 DEF ReplyResponse
<1>19. ASSUME NEW c \in Calls, Respond(c) PROVE CommandsInv'
    BY <1>19 DEF Respond
<1>20. ASSUME NEW c \in Calls, CopyValue(c) PROVE CommandsInv'
    BY <1>20 DEF CopyValue
<1>21. ASSUME NEW c \in Calls, CopySubkeys(c) PROVE CommandsInv'
    BY <1>21 DEF CopySubkeys
<1>22. ASSUME NEW c \in Calls, CommandReplicate(c) PROVE CommandsInv'
    BY <1>22 DEF CommandReplicate
<1>23. ASSUME NEW c \in Calls, CommandReplicateDel(c) PROVE CommandsInv'
    BY <1>23 DEF CommandReplicateDel
<1>24. ASSUME NEW c \in Calls, ReplyFails(c) PROVE CommandsInv'
    BY <1>24 DEF ReplyFails, Unsent
<1>25. ASSUME NEW m \in net, ReplKeyProcessing(m) PROVE CommandsInv'
    BY <1>25, ReplicationKeepsPrimary DEF ReplKeyProcessing, Replication
<1>26. ASSUME NEW m \in net, ReplDelCheck(m) PROVE CommandsInv'
    BY <1>26 DEF ReplDelCheck
<1>27. ASSUME NEW m \in removing, ReplDelRemove(m) PROVE CommandsInv'
    BY ZenonT(60), <1>27, ReplicationKeepsPrimary DEF ReplDelRemove, Replication
<1>28. CASE UNCHANGED vars
    BY <1>28 DEF vars
<1>29. ASSUME NEW c \in Calls, WriteFails(c) PROVE CommandsInv'
    BY <1>29 DEF WriteFails, GiveUp
<1>30. ASSUME NEW c \in Calls, EditFails(c) PROVE CommandsInv'
    BY <1>30 DEF EditFails, GiveUp
<1>31. ASSUME NEW c \in Calls, ReadFails(c) PROVE CommandsInv'
    BY <1>31 DEF ReadFails, GiveUp
<1>32. ASSUME NEW c \in Calls, ReadSubkeysFails(c) PROVE CommandsInv'
    BY <1>32 DEF ReadSubkeysFails, GiveUp
<1>33. ASSUME NEW c \in Calls, CopyFails(c) PROVE CommandsInv'
    BY <1>33 DEF CopyFails, GiveUp
<1>34. ASSUME NEW c \in Calls, ReplicateFails(c) PROVE CommandsInv'
    BY <1>34 DEF ReplicateFails, GiveUp
<1>35. ASSUME NEW m \in net, Lose(m) PROVE CommandsInv'
    BY <1>35 DEF Lose
<1>36. ASSUME NEW m \in net, ReplKeyFails(m) PROVE CommandsInv'
    BY <1>36 DEF ReplKeyFails
<1>37. ASSUME NEW m \in removing, ReplDelFails(m) PROVE CommandsInv'
    BY <1>37 DEF ReplDelFails
<1>38. ASSUME NEW m \in net, ReplDelMisreads(m) PROVE CommandsInv'
    BY <1>38 DEF ReplDelMisreads
<1> QED
    BY <1>1, <1>2, <1>3, <1>4, <1>5, <1>6, <1>7, <1>8, <1>9, <1>10, <1>11, <1>12, <1>13, <1>14, <1>15, <1>16, <1>17, <1>18, <1>19, <1>20, <1>21, <1>22, <1>23, <1>24, <1>25, <1>26, <1>27, <1>28, <1>29, <1>30, <1>31, <1>32, <1>33, <1>34, <1>35, <1>36, <1>37, <1>38 DEF Next, CommandProcessing, CommandFails, Replication

LEMMA KeyInvHolds == Spec => []KeyInv
<1>1. KeyInv /\ [Next]_vars => KeyInv'
    BY NextType, NextCommands DEF KeyInv
<1> QED
    BY InitKeyInv, <1>1, PTL DEF Spec

\* The type invariant of the storage, the commands and the replications.
THEOREM TypeCorrect == Spec => []TypeOK
<1>1. KeyInv => TypeOK
    BY DEF KeyInv
<1> QED
    BY <1>1, KeyInvHolds, PTL

\* Nobody else holds the lock of the key where a command relies on it: from the
\* K2HDALock to its deletion (k2hdkccomcasset.cc, k2hdkccomaddsubkeys.cc ...).
LockIsExclusive == \A c, d \in Calls : pc[c] \in Holding /\ pc[d] \in Holding => c = d

\* No two commands are between the creation and the deletion of their locks of
\* the key, and none that has ended still holds it: not after a refusal, nor
\* after a read, a write or an allocation that failed under the lock.
THEOREM LockExcludes == Spec => [](LockIsExclusive /\ \A c \in Calls : pc[c] \in {"done", "failed"} => lock # c)
<1>1. KeyInv => LockIsExclusive /\ \A c \in Calls : pc[c] \in {"done", "failed"} => lock # c
    BY KeyAssumption DEF KeyInv, CommandsInv, LockInv, LockIsExclusive, Holding
<1> QED
    BY <1>1, KeyInvHolds, PTL
-----------------------------------------------------------------------------
(* The value is an atomic register: the steps of KeyCommands that take     *)
(* effect are steps of KeyRegister, the others leave it as it is.          *)

LEMMA InitRegister == Init => Register!Init
BY KeyAssumption DEF Init, Register!Init, Here, Absent, Values

\* A CAS command that goes on has found the value it asks for.
LEMMA AcceptedSwap ==
    ASSUME KeyInv, NEW c \in Calls, CasSet(c)
    PROVE  Register!CompareAndSwap(c) \/ Register!Count(c)
<1> DEFINE v == Here.val
<1>1. /\ request[c] \in Requests /\ request[c] # None /\ request[c].op \in Counting
      /\ outcome[c] = None /\ v \in Values \cup {None}
      /\ Refusal(request[c], v) = "none" /\ buf[c].val = Swapped(request[c], v)
    BY KeyAssumption DEF KeyInv, CommandsInv, TypeOK, CallInv, CasInv, CasSet, Undecided, Here
<1>2. Here.val' = buf[c].val /\ outcome' = [outcome EXCEPT ![c] = Success] /\ UNCHANGED request
    BY KeyAssumption DEF KeyInv, TypeOK, CasSet, Write, Here
<1>3. CASE request[c].op = "casset"
    <2>1. v # None /\ v = request[c].old /\ buf[c].val = request[c].val
        BY <1>1, <1>3 DEF Refusal, Swapped
    <2> QED
        BY <1>1, <1>2, <1>3, <2>1 DEF Register!CompareAndSwap, Register!Effect, Success, Outcome,
            Register!Success, Register!Outcome
<1>4. CASE request[c].op # "casset"
    <2>1. v \in Numbers /\ request[c].op \in {"inc", "dec"} /\ buf[c].val = Counted(request[c].op, v)
        BY <1>1, <1>4 DEF Refusal, Swapped, Counting
    <2>2. buf[c].val = Register!Neighbour(request[c].op, v)
        BY <2>1, CountedIsNeighbour
    <2> QED
        BY <1>1, <1>2, <2>1, <2>2 DEF Register!Count, Register!Effect, Success, Outcome, Numbers,
            Register!Numbers, Register!Success, Register!Outcome
<1> QED
    BY <1>3, <1>4

LEMMA RefusedSwap ==
    ASSUME KeyInv, NEW c \in Calls, CasRefused(c)
    PROVE  Register!CompareAndSwap(c) \/ Register!Count(c)
<1> DEFINE v == Here.val
<1>1. /\ request[c] \in Requests /\ request[c] # None /\ request[c].op \in Counting
      /\ outcome[c] = None /\ v \in Values \cup {None}
    BY KeyAssumption DEF KeyInv, CommandsInv, TypeOK, CallInv, CasRefused, Undecided, Here
<1>2. /\ Refusal(request[c], v) # "none" /\ UNCHANGED <<Here.val, request>>
      /\ outcome' = [outcome EXCEPT ![c] = Outcome(Refusal(request[c], v), None)]
    BY DEF CasRefused, Here
<1>3. CASE request[c].op = "casset"
    BY <1>1, <1>2, <1>3 DEF Refusal, Register!CompareAndSwap, Register!Effect, Outcome, Register!Outcome
<1>4. CASE request[c].op # "casset"
    <2>1. v \notin Numbers /\ request[c].op \in {"inc", "dec"}
        BY <1>1, <1>2, <1>4, KeyAssumption DEF Refusal, Counting, Values
    <2>2. Refusal(request[c], v) = IF v = None THEN "nodata" ELSE "notsamedatatype"
        BY <2>1 DEF Refusal
    <2> QED
        BY <1>1, <1>2, <2>1, <2>2 DEF Register!Count, Register!Effect, Outcome, Numbers,
            Register!Numbers, Register!Outcome
<1> QED
    BY <1>3, <1>4

regVars == <<Here.val, request, outcome>>

LEMMA NextRegister == KeyInv /\ [Next]_vars => [Register!Next]_regVars
<1> SUFFICES ASSUME KeyInv, [Next]_vars PROVE Register!Next \/ UNCHANGED regVars
    OBVIOUS
<1>0. /\ TypeOK /\ CommandsInv /\ None \notin Requests
      /\ store \in [Servers -> [val : Values \cup {None}, subs : SUBSET Subkeys, mtime : Nat]]
    BY KeyAssumption DEF KeyInv, TypeOK
<1> USE <1>0, KeyAssumption DEF Register!Next, Register!Effect, Register!Success, Register!Outcome,
    CallInv, CommandsInv, Undecided, Subkeying, Here, Write, Outcome, Success, regVars
<1>1. ASSUME NEW c \in Calls, NEW rq \in Requests, Receive(c, rq) PROVE Register!Ask(c, rq)
    BY <1>1 DEF Receive, Register!Ask
<1>2. ASSUME NEW c \in Calls, Get(c) PROVE Register!Get(c)
    BY <1>2 DEF Get, Register!Get
<1>3. ASSUME NEW c \in Calls, Set(c) \/ SetAll(c) \/ CasInit(c) PROVE Register!Set(c)
    BY <1>3 DEF Set, SetAll, CasInit, Register!Set
<1>4. ASSUME NEW c \in Calls, Remove(c) PROVE Register!Delete(c)
    BY <1>4 DEF Remove, Absent, Register!Delete
<1>5. ASSUME NEW c \in Calls, CasSet(c) \/ CasRefused(c)
      PROVE  Register!CompareAndSwap(c) \/ Register!Count(c)
    BY <1>5, AcceptedSwap, RefusedSwap DEF KeyInv
<1>6. ASSUME NEW c \in Calls, DelSubkeyEarly(c) \/ ReplaceSubkeys(c)
      PROVE  Register!ChangeSubkeys(c) \/ Register!Fail(c)
    BY <1>6 DEF DelSubkeyEarly, ReplaceSubkeys, Register!ChangeSubkeys, Register!Fail, Register!Failures
<1>7. ASSUME NEW c \in Calls,
             \/ ReadSubkeys(c) \/ Lock(c) \/ CasAccepted(c) \/ AddSubkey(c) \/ DelSubkey(c) \/ Unlock(c)
             \/ Stamp(c) \/ ReplyResponse(c) \/ ReplyFails(c) \/ Respond(c) \/ CopyValue(c)
             \/ CopySubkeys(c) \/ CommandReplicate(c) \/ CommandReplicateDel(c)
             \/ ReadSubkeysFails(c) \/ CopyFails(c) \/ ReplicateFails(c)
      PROVE  UNCHANGED regVars
    BY <1>7 DEF ReadSubkeys, Lock, CasAccepted, AddSubkey, DelSubkey, Unlock, Stamp, ReplyResponse,
        ReplyFails, Respond, CopyValue, CopySubkeys, CommandReplicate, CommandReplicateDel,
        ReadSubkeysFails, CopyFails, ReplicateFails
<1>8. CASE Replication
    BY <1>8, ReplicationKeepsPrimary DEF Replication, ReplKeyProcessing, ReplDelCheck, ReplDelRemove,
        Lose, ReplKeyFails, ReplDelFails, ReplDelMisreads
<1>9. CASE UNCHANGED vars
    BY <1>9 DEF vars
<1>10. ASSUME NEW c \in Calls, WriteFails(c) \/ EditFails(c) \/ ReadFails(c)
       PROVE  Register!ChangeSubkeys(c) \/ Register!Fail(c)
    <2> DEFINE Ends(code) == GiveUp(c, code) /\ UNCHANGED <<store, request>>
    <2>1. /\ request[c] # None /\ outcome[c] = None
        BY <1>10 DEF WriteFails, EditFails, ReadFails
    <2>2. \/ \E code \in Register!Failures : Ends(code)
          \/ request[c].op = "delsub" /\ Ends("success")
        BY <1>10 DEF WriteFails, EditFails, ReadFails, WriteError, Register!Failures
    <2>3. ASSUME NEW code \in Register!Failures, Ends(code) PROVE Register!Fail(c)
        BY <2>1, <2>3 DEF GiveUp, Register!Fail
    <2>4. CASE request[c].op = "delsub" /\ Ends("success")
        BY <2>1, <2>4 DEF GiveUp, Register!ChangeSubkeys
    <2> QED
        BY <2>2, <2>3, <2>4
<1> QED
    BY <1>1, <1>2, <1>3, <1>4, <1>5, <1>6, <1>7, <1>8, <1>9, <1>10 DEF Next, CommandProcessing, CommandFails

\* KeyCommands implements KeyRegister: every command, whether it locks the key
\* or not, takes effect at one moment on the value the key has at that moment.
THEOREM KeyIsRegister == Spec => ValueIsRegister
<1>1. Spec => Register!Init /\ [][Register!Next]_regVars
    BY InitRegister, NextRegister, KeyInvHolds, PTL DEF Spec
<1> QED
    BY <1>1 DEF ValueIsRegister, Register!Spec, regVars
-----------------------------------------------------------------------------

(***************************************************************************)
(* Proofs about the replication of KeyCommands, for any number of servers, *)
(* commands, failures and replications under way.  They are about          *)
(* executions in which no command deletes the key or replicates what it    *)
(* could not read, and the theorems suppose that the clock tells two       *)
(* changes apart.                                                          *)
(***************************************************************************)

\* No command deletes the key, and every copy that is sent was read.
Faithful ==
    /\ misread = {}
    /\ \A c \in Calls : request[c] # None => request[c].op # "del"

\* What is sent and what is stored has the times of the past, nobody has a
\* later element than Primary, and a replication that is not refused because of
\* its time carries an element that is not older than what it replaces: than
\* that of any server, and than what any other replication may put there.
OrderInv ==
    /\ removing = {} /\ \A m \in net : request[m.from] # None
    /\ \A c \in Calls : ts[c] <= clock
    /\ \A m \in net : m.ts <= clock /\ m.element.mtime <= Here.mtime
    /\ Here.mtime <= clock
    /\ \A s \in Servers : store[s].mtime <= Here.mtime
    /\ \A m \in net, s \in Servers :
           store[s].mtime <= m.ts => store[s].mtime <= m.element.mtime
    /\ \A m, n \in net : n.element.mtime <= m.ts => n.element.mtime <= m.element.mtime

\* What is copied or sent with a time after the last change is what Primary has.
CopyInv ==
    /\ \A c \in Calls :
           pc[c] \in {"copysubs", "send"} /\ ts[c] >= Here.mtime => buf[c].val = Here.val
    /\ \A m \in net : m.ts >= Here.mtime => m.element.val = Here.val

\* The commands that will still send what Primary has.
Sending(c) ==
    \/ pc[c] = "stamp"
    \/ pc[c] = "unlock" /\ request[c].op \notin Subkeying
    \/ pc[c] \in {"reply", "copyval", "copysubs", "send"} /\ ts[c] >= Here.mtime

\* A replication of what Primary has, or of something later, has failed.
Excused(s) == \E r \in missed : r.to = s /\ r.ts >= Here.mtime

\* A server has what Primary has, or it is sent or about to be, or that failed.
Reached(s) ==
    \/ store[s].val = Here.val /\ store[s].mtime = Here.mtime
    \/ \E c \in Calls : Sending(c)
    \/ \E m \in net : m.to = s /\ m.ts >= Here.mtime
    \/ Excused(s)
ArriveInv == \A s \in Others : Reached(s)

\* The inductive invariant of the replication.
ReplicaInv == KeyInv /\ (Faithful => OrderInv /\ CopyInv /\ ArriveInv)
-----------------------------------------------------------------------------
(* The steps, by what they do to the store and to the replications.        *)

\* Nothing is written, or only subkeys; a command may read the clock.
Unwritten ==
    /\ \A s \in Servers : store'[s].val = store[s].val /\ store'[s].mtime = store[s].mtime
    /\ UNCHANGED <<net, removing>>
    /\ clock' \in {clock, clock + 1}
    /\ \A c \in Calls : ts'[c] \in {ts[c], clock'}
    /\ missed \subseteq missed'

\* Primary writes and stamps the element.
Written ==
    /\ \A s \in Others : store'[s] = store[s]
    /\ clock' = clock + 1
    /\ store'[Primary].mtime = clock'
    /\ UNCHANGED <<net, removing, ts>>
    /\ \E c \in Calls : Sending(c)'

\* A replication is lost, or cannot be written.
Dropped(m) ==
    /\ net' = net \ {m}
    /\ missed' = missed \cup {[to |-> m.to, ts |-> m.ts]}
    /\ UNCHANGED <<store, clock, pc, request, buf, ts, removing>>

LEMMA RequestsStay ==
    ASSUME KeyInv, [Next]_vars
    PROVE  \A c \in Calls : request[c] # None => request'[c] = request[c]
BY KeyAssumption DEF KeyInv, TypeOK, CommandsInv, CallInv, Next, vars, Receive, CommandProcessing,
    Replication, Get, ReadSubkeys, Set, SetAll, Remove, Lock, CasInit, CasRefused, CasAccepted, CasSet,
    AddSubkey, DelSubkeyEarly, DelSubkey, Unlock, ReplaceSubkeys, Stamp, ReplyResponse, ReplyFails,
    Respond, CopyValue, CopySubkeys, CommandReplicate, CommandReplicateDel, ReplKeyProcessing,
    ReplDelCheck, ReplDelRemove, WriteFails, EditFails, ReadFails, ReadSubkeysFails,
    CopyFails, ReplicateFails, Lose, ReplKeyFails, ReplDelFails, ReplDelMisreads, GiveUp, CommandFails, faultVars

LEMMA MisreadStays == [Next]_vars => misread \subseteq misread'
BY DEF Next, vars, Receive, CommandProcessing,
    Replication, Get, ReadSubkeys, Set, SetAll, Remove, Lock, CasInit, CasRefused, CasAccepted, CasSet,
    AddSubkey, DelSubkeyEarly, DelSubkey, Unlock, ReplaceSubkeys, Stamp, ReplyResponse, ReplyFails,
    Respond, CopyValue, CopySubkeys, CommandReplicate, CommandReplicateDel, ReplKeyProcessing,
    ReplDelCheck, ReplDelRemove, WriteFails, EditFails, ReadFails, ReadSubkeysFails,
    CopyFails, ReplicateFails, Lose, ReplKeyFails, ReplDelFails, ReplDelMisreads, GiveUp, CommandFails, faultVars

\* A key that is not deleted in a state was not deleted before, and a copy that
\* was not misread is not.
LEMMA FaithfulBefore == KeyInv /\ [Next]_vars /\ Faithful' => Faithful
BY RequestsStay, MisreadStays DEF Faithful

LEMMA NoMisreading ==
    ASSUME Faithful', NEW c \in Calls
    PROVE  ~CopyFails(c)
BY DEF Faithful, CopyFails

LEMMA NoDeletion ==
    ASSUME KeyInv, Faithful, OrderInv
    PROVE  /\ \A c \in Calls : ~Remove(c) /\ ~CommandReplicateDel(c)
           /\ \A m \in net : ~ReplDelCheck(m) /\ ~ReplDelMisreads(m)
           /\ \A m \in removing : ~ReplDelRemove(m) /\ ~ReplDelFails(m)
BY KeyAssumption DEF KeyInv, TypeOK, CommandsInv, CallInv, Faithful, OrderInv, Remove, CommandReplicateDel,
    ReplDelCheck, ReplDelMisreads, ReplDelRemove, IsDel

LEMMA StepKinds ==
    ASSUME KeyInv, Faithful, Faithful', OrderInv, ~Coarse, [Next]_vars
    PROVE  \/ Unwritten \/ Written
           \/ \E c \in Calls : CommandReplicate(c)
           \/ \E m \in net : ReplKeyProcessing(m) \/ Dropped(m)
<1>0. /\ store \in [Servers -> [val : Values \cup {None}, subs : SUBSET Subkeys, mtime : Nat]]
      /\ ts \in [Calls -> Nat] /\ clock \in Nat
    BY DEF KeyInv, TypeOK
<1> USE <1>0, KeyAssumption DEF Here, Write, ReadClock, Others, faultVars
<1>1. ASSUME NEW c \in Calls, NEW rq \in Requests, Receive(c, rq) PROVE Unwritten
    BY <1>1 DEF Receive, Unwritten
<1>2. ASSUME NEW c \in Calls,
             \/ Get(c) \/ ReadSubkeys(c) \/ Lock(c) \/ CasRefused(c) \/ CasAccepted(c) \/ AddSubkey(c)
             \/ DelSubkeyEarly(c) \/ DelSubkey(c) \/ Unlock(c) \/ ReplyResponse(c) \/ ReplyFails(c)
             \/ Respond(c) \/ CopyValue(c) \/ CopySubkeys(c)
      PROVE  Unwritten
    BY <1>2 DEF Unwritten, Get, ReadSubkeys, Lock, CasRefused, CasAccepted, AddSubkey, DelSubkeyEarly,
        DelSubkey, Unlock, ReplyResponse, ReplyFails, Respond, CopyValue, CopySubkeys
<1>3. ASSUME NEW c \in Calls, Set(c) \/ SetAll(c) \/ CasInit(c) \/ CasSet(c) PROVE Written
    <2>1. pc \in [Calls -> Pcs] /\ CommandsInv
        BY DEF KeyInv, TypeOK
    <2>2. CASE Set(c) \/ SetAll(c)
        BY <2>1, <2>2 DEF Set, SetAll, Goto, Sending, Written
    <2>3. CASE CasInit(c)
        BY <2>1, <2>3 DEF CasInit, Goto, Sending, Written, CommandsInv, CallInv, Subkeying
    <2>4. CASE CasSet(c)
        BY <2>1, <2>4 DEF CasSet, Goto, Sending, Written, CommandsInv, CallInv, Subkeying, Counting
    <2> QED
        BY <1>3, <2>2, <2>3, <2>4
<1>4. ASSUME NEW c \in Calls, ReplaceSubkeys(c) PROVE Written \/ Unwritten
    BY SMTT(30), <1>4 DEF Written, Unwritten, ReplaceSubkeys, Sending, Goto, KeyInv, TypeOK
<1>5. ASSUME NEW c \in Calls, Stamp(c) PROVE Unwritten
    BY <1>5 DEF Stamp, Unwritten
<1>6. CASE UNCHANGED vars
    BY <1>6 DEF vars, Unwritten
<1>7. ASSUME NEW c \in Calls,
             WriteFails(c) \/ EditFails(c) \/ ReadFails(c) \/ ReadSubkeysFails(c) \/ ReplicateFails(c)
      PROVE  Unwritten
    BY <1>7 DEF Unwritten, WriteFails, EditFails, ReadFails, ReadSubkeysFails, ReplicateFails
<1>8. ASSUME NEW m \in net, Lose(m) \/ ReplKeyFails(m) PROVE Dropped(m)
    BY <1>8 DEF Dropped, Lose, ReplKeyFails
<1> QED
    BY <1>1, <1>2, <1>3, <1>4, <1>5, <1>6, <1>7, <1>8, NoDeletion, NoMisreading DEF Next,
        CommandProcessing, CommandFails, Replication

LEMMA NextOrder ==
    ASSUME KeyInv, Faithful, Faithful', OrderInv, ~Coarse, [Next]_vars
    PROVE  OrderInv'
<1>0. /\ store \in [Servers -> [val : Values \cup {None}, subs : SUBSET Subkeys, mtime : Nat]]
      /\ ts \in [Calls -> Nat] /\ clock \in Nat /\ net \subseteq Messages /\ Primary \in Servers
      /\ pc \in [Calls -> Pcs] /\ CommandsInv
    BY KeyAssumption DEF KeyInv, TypeOK, Messages
<1>1. \A c \in Calls : request[c] # None => request'[c] = request[c]
    BY RequestsStay
<1> USE <1>0, <1>1 DEF OrderInv, Here, Others
<1>2. CASE Unwritten
    BY <1>2 DEF Unwritten, Messages
<1>3. CASE Written
    BY <1>3 DEF Written, Messages
<1>4. ASSUME NEW c \in Calls, CommandReplicate(c) PROVE OrderInv'
    BY <1>4 DEF CommandReplicate, ReplKey, Messages, CommandsInv, CallInv
<1>5. ASSUME NEW m \in net, ReplKeyProcessing(m) PROVE OrderInv'
    BY <1>5 DEF ReplKeyProcessing, SetElementByBinArray, Later, Messages
<1>6. ASSUME NEW m \in net, Dropped(m) PROVE OrderInv'
    BY <1>6 DEF Dropped, Messages
<1> QED
    BY <1>2, <1>3, <1>4, <1>5, <1>6, StepKinds DEF OrderInv

\* A command that has copied the value keeps it and its time until it is sent;
\* one that copies it copies what Primary has.
LEMMA CopySteps ==
    ASSUME KeyInv, Faithful, Faithful', [Next]_vars, NEW c \in Calls, pc'[c] \in {"copysubs", "send"}
    PROVE  \/ pc[c] \in {"copysubs", "send"} /\ buf'[c].val = buf[c].val /\ ts'[c] = ts[c]
           \/ CopyValue(c)
<1>0. /\ pc \in [Calls -> Pcs] /\ CommandsInv /\ ts \in [Calls -> Nat]
      /\ buf \in [Calls -> [val : Values \cup {None}, subs : SUBSET Subkeys]]
    BY DEF KeyInv, TypeOK
<1> USE <1>0 DEF Goto
<1>1. ASSUME NEW d \in Calls, NEW rq \in Requests, Receive(d, rq) PROVE pc[c] = pc'[c] /\ buf'[c] = buf[c] /\ ts' = ts
    BY <1>1, RequestAssumption DEF Receive, Ops, Locking
<1>2. ASSUME NEW d \in Calls,
             \/ Get(d) \/ Lock(d) \/ CasRefused(d) \/ Set(d) \/ SetAll(d) \/ CasInit(d) \/ CasSet(d)
             \/ DelSubkeyEarly(d) \/ Unlock(d) \/ ReplaceSubkeys(d) \/ ReplyFails(d) \/ Remove(d)
             \/ Respond(d) \/ CommandReplicate(d) \/ CommandReplicateDel(d)
      PROVE  pc[c] = pc'[c] /\ buf' = buf /\ ts' = ts
    BY <1>2 DEF Get, Lock, CasRefused, Set, SetAll, CasInit, CasSet, DelSubkeyEarly, Unlock,
        ReplaceSubkeys, ReplyFails, Remove, Respond, CommandReplicate, CommandReplicateDel
<1>3. ASSUME NEW d \in Calls, ReadSubkeys(d) \/ CasAccepted(d) \/ AddSubkey(d) \/ DelSubkey(d)
      PROVE  pc[c] = pc'[c] /\ buf'[c] = buf[c] /\ ts' = ts
    BY <1>3 DEF ReadSubkeys, CasAccepted, AddSubkey, DelSubkey
<1>4. ASSUME NEW d \in Calls, Stamp(d) PROVE pc[c] = pc'[c] /\ buf' = buf /\ ts'[c] = ts[c]
    BY <1>4 DEF Stamp
<1>5. ASSUME NEW d \in Calls, ReplyResponse(d) PROVE pc[c] = pc'[c] /\ buf' = buf /\ ts' = ts
    BY <1>5 DEF ReplyResponse, Faithful, CommandsInv, CallInv
<1>6. ASSUME NEW d \in Calls, CopyValue(d), c # d PROVE pc[c] = pc'[c] /\ buf'[c] = buf[c] /\ ts' = ts
    BY <1>6 DEF CopyValue
<1>7. ASSUME NEW d \in Calls, CopySubkeys(d)
      PROVE  pc[c] \in {"copysubs", "send"} /\ buf'[c].val = buf[c].val /\ ts' = ts
    BY <1>7 DEF CopySubkeys
<1>8. CASE Replication
    BY <1>8 DEF Replication, ReplKeyProcessing, ReplDelCheck, ReplDelRemove, ReplDelMisreads, Lose,
        ReplKeyFails, ReplDelFails
<1>9. CASE UNCHANGED vars
    BY <1>9 DEF vars
<1>10. ASSUME NEW d \in Calls, WriteFails(d) \/ EditFails(d) \/ ReadFails(d) \/ ReplicateFails(d)
      PROVE  pc[c] = pc'[c] /\ buf' = buf /\ ts' = ts
    BY <1>10 DEF WriteFails, EditFails, ReadFails, ReplicateFails, GiveUp
<1>11. ASSUME NEW d \in Calls, ReadSubkeysFails(d)
      PROVE  pc[c] = pc'[c] /\ buf'[c] = buf[c] /\ ts' = ts
    BY <1>11 DEF ReadSubkeysFails
<1> QED
    BY <1>1, <1>2, <1>3, <1>4, <1>5, <1>6, <1>7, <1>8, <1>9, <1>10, <1>11, NoMisreading DEF Next,
        CommandProcessing, CommandFails

\* A command that will send what Primary has still will, unless it fails.
LEMMA SendingStays ==
    ASSUME KeyInv, Faithful, Faithful', OrderInv, [Next]_vars, Unwritten,
           NEW c \in Calls, Sending(c), ~CommandReplicate(c), ~ReplyFails(c), ~ReplicateFails(c)
    PROVE  Sending(c)'
<1>0. /\ pc \in [Calls -> Pcs] /\ ts \in [Calls -> Nat] /\ clock \in Nat /\ clock' \in Nat
      /\ Here.mtime \in Nat /\ Here.mtime <= clock /\ clock <= clock' /\ Here'.mtime = Here.mtime
      /\ \A d \in Calls : pc[d] # "idle" => request[d] # None
    BY KeyAssumption DEF KeyInv, TypeOK, CommandsInv, CallInv, OrderInv, Unwritten, Here
<1>1. ASSUME UNCHANGED <<pc, ts, request>> PROVE Sending(c)'
    BY <1>0, <1>1 DEF Sending
<1>2. ASSUME NEW d \in Calls, NEW rq \in Requests, Receive(d, rq) PROVE Sending(c)'
    <2>1. pc[d] = "idle" /\ \E l : pc' = [pc EXCEPT ![d] = l]
        BY <1>2, Zenon DEF Receive, Goto
    <2>2. d # c /\ pc'[c] = pc[c]
        BY <1>0, <2>1 DEF Sending
    <2>3. request'[c] = request[c] /\ ts' = ts
        BY <1>2, <2>2 DEF Receive
    <2> QED
        BY <1>0, <2>2, <2>3 DEF Sending
<1> USE <1>0 DEF Sending, Goto, Subkeying
<1>3. ASSUME NEW d \in Calls, Get(d), ~CommandReplicate(c) PROVE Sending(c)'
    BY <1>3 DEF Get
<1>4. ASSUME NEW d \in Calls, ReadSubkeys(d), ~CommandReplicate(c) PROVE Sending(c)'
    BY <1>4 DEF ReadSubkeys
<1>5. ASSUME NEW d \in Calls, Set(d), ~CommandReplicate(c) PROVE Sending(c)'
    BY <1>5 DEF Set
<1>6. ASSUME NEW d \in Calls, SetAll(d), ~CommandReplicate(c) PROVE Sending(c)'
    BY <1>6 DEF SetAll
<1>7. ASSUME NEW d \in Calls, Remove(d), ~CommandReplicate(c) PROVE Sending(c)'
    BY <1>7 DEF Remove
<1>8. ASSUME NEW d \in Calls, Lock(d), ~CommandReplicate(c) PROVE Sending(c)'
    BY <1>8 DEF Lock
<1>9. ASSUME NEW d \in Calls, CasInit(d), ~CommandReplicate(c) PROVE Sending(c)'
    BY <1>9 DEF CasInit
<1>10. ASSUME NEW d \in Calls, CasRefused(d), ~CommandReplicate(c) PROVE Sending(c)'
    BY <1>10 DEF CasRefused
<1>11. ASSUME NEW d \in Calls, CasAccepted(d), ~CommandReplicate(c) PROVE Sending(c)'
    BY <1>11 DEF CasAccepted
<1>12. ASSUME NEW d \in Calls, CasSet(d), ~CommandReplicate(c) PROVE Sending(c)'
    BY <1>12 DEF CasSet
<1>13. ASSUME NEW d \in Calls, AddSubkey(d), ~CommandReplicate(c) PROVE Sending(c)'
    BY <1>13 DEF AddSubkey
<1>14. ASSUME NEW d \in Calls, DelSubkeyEarly(d), ~CommandReplicate(c) PROVE Sending(c)'
    BY <1>14 DEF DelSubkeyEarly
<1>15. ASSUME NEW d \in Calls, DelSubkey(d), ~CommandReplicate(c) PROVE Sending(c)'
    BY <1>15 DEF DelSubkey
<1>16. ASSUME NEW d \in Calls, Unlock(d), ~CommandReplicate(c) PROVE Sending(c)'
    BY <1>16 DEF Unlock
<1>17. ASSUME NEW d \in Calls, ReplaceSubkeys(d), ~CommandReplicate(c) PROVE Sending(c)'
    BY <1>17 DEF ReplaceSubkeys
<1>18. ASSUME NEW d \in Calls, Stamp(d), ~CommandReplicate(c) PROVE Sending(c)'
    BY <1>18 DEF Stamp
<1>19. ASSUME NEW d \in Calls, ReplyResponse(d), ~CommandReplicate(c) PROVE Sending(c)'
    BY <1>19 DEF ReplyResponse
<1>20. ASSUME NEW d \in Calls, Respond(d), ~CommandReplicate(c) PROVE Sending(c)'
    BY <1>20 DEF Respond
<1>21. ASSUME NEW d \in Calls, CopyValue(d), ~CommandReplicate(c) PROVE Sending(c)'
    BY <1>21 DEF CopyValue
<1>22. ASSUME NEW d \in Calls, CopySubkeys(d), ~CommandReplicate(c) PROVE Sending(c)'
    BY <1>22 DEF CopySubkeys
<1>23. ASSUME NEW d \in Calls, CommandReplicateDel(d), ~CommandReplicate(c) PROVE Sending(c)'
    BY <1>23 DEF CommandReplicateDel, Faithful
<1>24. ASSUME NEW d \in Calls, CommandReplicate(d) PROVE Sending(c)'
    BY <1>24 DEF CommandReplicate
<1>25. ASSUME NEW d \in Calls, d # c, ReplyFails(d) PROVE Sending(c)'
    BY <1>25 DEF ReplyFails
<1>26. CASE Replication
    BY <1>1, <1>26 DEF Replication, ReplKeyProcessing, ReplDelCheck, ReplDelRemove, ReplDelMisreads, Lose,
        ReplKeyFails, ReplDelFails
<1>27. CASE UNCHANGED vars
    BY <1>1, <1>27 DEF vars
<1>28. ASSUME NEW d \in Calls, d # c, ReplicateFails(d) PROVE Sending(c)'
    BY <1>28 DEF ReplicateFails
<1>29. ASSUME NEW d \in Calls, WriteFails(d) PROVE Sending(c)'
    BY <1>29 DEF WriteFails, GiveUp
<1>30. ASSUME NEW d \in Calls, EditFails(d) PROVE Sending(c)'
    BY <1>30 DEF EditFails, GiveUp
<1>31. ASSUME NEW d \in Calls, ReadFails(d) PROVE Sending(c)'
    BY <1>31 DEF ReadFails, GiveUp
<1>32. ASSUME NEW d \in Calls, ReadSubkeysFails(d) PROVE Sending(c)'
    BY <1>32 DEF ReadSubkeysFails
<1> QED
    BY <1>2, <1>3, <1>4, <1>5, <1>6, <1>7, <1>8, <1>9, <1>10, <1>11, <1>12, <1>13, <1>14, <1>15, <1>16, <1>17, <1>18, <1>19, <1>20, <1>21, <1>22, <1>23, <1>24, <1>25, <1>26, <1>27, <1>28, <1>29, <1>30, <1>31, <1>32, NoMisreading DEF Next, CommandProcessing, CommandFails

LEMMA NextCopy ==
    ASSUME KeyInv, Faithful, Faithful', OrderInv, CopyInv, ~Coarse, [Next]_vars
    PROVE  CopyInv'
<1>0. /\ store \in [Servers -> [val : Values \cup {None}, subs : SUBSET Subkeys, mtime : Nat]]
      /\ ts \in [Calls -> Nat] /\ clock \in Nat /\ net \subseteq Messages /\ Primary \in Servers
      /\ buf \in [Calls -> [val : Values \cup {None}, subs : SUBSET Subkeys]]
    BY KeyAssumption DEF KeyInv, TypeOK, Messages
<1>1. ASSUME NEW c \in Calls, pc'[c] \in {"copysubs", "send"}, ts'[c] >= Here'.mtime
      PROVE  buf'[c].val = Here'.val
    <2>1. CASE CopyValue(c)
        BY <1>0, <2>1 DEF CopyValue, Here
    <2>2. CASE pc[c] \in {"copysubs", "send"} /\ buf'[c].val = buf[c].val /\ ts'[c] = ts[c]
        <3> USE <1>0, <1>1, <2>2 DEF CopyInv, OrderInv, Here
        <3>1. CASE Unwritten
            BY <3>1 DEF Unwritten
        <3>2. CASE Written
            BY <3>2 DEF Written
        <3>3. ASSUME NEW d \in Calls, CommandReplicate(d) PROVE buf'[c].val = Here'.val
            BY <3>3 DEF CommandReplicate
        <3>4. ASSUME NEW m \in net, ReplKeyProcessing(m) PROVE buf'[c].val = Here'.val
            BY <3>4, ReplicationKeepsPrimary DEF KeyInv, Replication
        <3>5. ASSUME NEW m \in net, Dropped(m) PROVE buf'[c].val = Here'.val
            BY <3>5 DEF Dropped
        <3> QED
            BY <3>1, <3>2, <3>3, <3>4, <3>5, StepKinds
    <2> QED
        BY <1>1, <2>1, <2>2, CopySteps
<1>2. ASSUME NEW m \in net', m.ts >= Here'.mtime
      PROVE  m.element.val = Here'.val
    <2> USE <1>0, <1>2 DEF CopyInv, OrderInv, Here, Messages
    <2>1. CASE Unwritten
        BY <2>1 DEF Unwritten
    <2>2. CASE Written
        BY <2>2 DEF Written
    <2>3. ASSUME NEW d \in Calls, CommandReplicate(d) PROVE m.element.val = Here'.val
        BY <2>3 DEF CommandReplicate, ReplKey
    <2>4. ASSUME NEW n \in net, ReplKeyProcessing(n) PROVE m.element.val = Here'.val
        BY <2>4, ReplicationKeepsPrimary DEF KeyInv, Replication, ReplKeyProcessing
    <2>5. ASSUME NEW n \in net, Dropped(n) PROVE m.element.val = Here'.val
        BY <2>5 DEF Dropped
    <2> QED
        BY <2>1, <2>2, <2>3, <2>4, <2>5, StepKinds
<1> QED
    BY <1>1, <1>2 DEF CopyInv, Here

LEMMA NextArrive ==
    ASSUME KeyInv, Faithful, Faithful', OrderInv, CopyInv, ArriveInv, ~Coarse, [Next]_vars
    PROVE  ArriveInv'
<1> SUFFICES ASSUME NEW s \in Others PROVE Reached(s)'
    BY DEF ArriveInv
<1>0. /\ store \in [Servers -> [val : Values \cup {None}, subs : SUBSET Subkeys, mtime : Nat]]
      /\ ts \in [Calls -> Nat] /\ clock \in Nat /\ net \subseteq Messages /\ Primary \in Servers
      /\ s \in Servers /\ s # Primary
    BY KeyAssumption DEF KeyInv, TypeOK, Messages, Others
<1>1. Reached(s)
    BY DEF ArriveInv
<1>2. ASSUME NEW d \in Calls, CommandReplicate(d) PROVE Reached(s)'
    <2>1. /\ store' = store /\ ts' = ts /\ request' = request /\ net \subseteq net'
          /\ pc' = [pc EXCEPT ![d] = "done"] /\ pc[d] = "send" /\ ReplKey(d, s) \in net'
        BY <1>2 DEF CommandReplicate, Goto
    <2>2. CASE Sending(d)
        <3>1. ReplKey(d, s).to = s /\ ReplKey(d, s).ts >= Here.mtime
            BY <2>1, <2>2 DEF ReplKey, Sending
        <3> QED
            BY <2>1, <3>1 DEF Reached, Here
    <2>3. ASSUME NEW c \in Calls, Sending(c), c # d PROVE Sending(c)'
        <3>1. pc'[c] = pc[c]
            BY <2>1, <2>3 DEF KeyInv, TypeOK
        <3> QED
            BY <2>1, <2>3, <3>1 DEF Sending, Here
    <2>4. CASE Excused(s)
        BY <1>2, <2>1, <2>4 DEF CommandReplicate, faultVars, Reached, Excused, Here
    <2> QED
        BY <1>1, <2>1, <2>2, <2>3, <2>4 DEF Reached, Here
<1>3. CASE Unwritten
    <2>1. Here'.mtime = Here.mtime /\ Here'.val = Here.val /\ net' = net
          /\ store'[s].val = store[s].val /\ store'[s].mtime = store[s].mtime
          /\ missed \subseteq missed'
        BY <1>0, <1>3 DEF Unwritten, Here
    <2>2. ASSUME NEW c \in Calls, Sending(c), ReplyFails(c) \/ ReplicateFails(c) PROVE Excused(s)'
        <3>1. ts[c] >= Here.mtime /\ Unsent(c) \subseteq missed'
            BY <2>2 DEF Sending, ReplyFails, ReplicateFails
        <3> DEFINE r == [to |-> s, ts |-> ts[c]]
        <3>2. r \in missed' /\ r.to = s /\ r.ts >= Here'.mtime
            BY <2>1, <3>1 DEF Unsent
        <3> QED
            BY <3>2 DEF Excused, Here
    <2>3. ASSUME Excused(s) PROVE Excused(s)'
        BY <2>1, <2>3 DEF Excused
    <2> QED
        BY <1>1, <1>2, <1>3, <2>1, <2>2, <2>3, SendingStays DEF Reached
<1>4. CASE Written
    BY <1>4 DEF Written, Reached
<1>5. ASSUME NEW m \in net, ReplKeyProcessing(m) PROVE Reached(s)'
    <2>1. /\ Here' = Here /\ net' = net \ {m} /\ m \in Messages
          /\ UNCHANGED <<pc, request, ts, missed>>
          /\ store' = IF m.ts < store[m.to].mtime THEN store ELSE [store EXCEPT ![m.to] = m.element]
        BY <1>0, <1>5, ReplicationKeepsPrimary DEF KeyInv, Replication, ReplKeyProcessing,
            SetElementByBinArray, Later, faultVars
    <2>2. CASE \E c \in Calls : Sending(c)
        BY <2>1, <2>2 DEF Reached, Sending
    <2>3. CASE m.to = s /\ m.ts >= Here.mtime
        <3>1. m.ts \in Nat /\ m.element.mtime \in Nat /\ store[s].mtime \in Nat /\ Here.mtime \in Nat
            BY <1>0, <2>1 DEF Messages, Here
        <3>2. Here.mtime <= m.element.mtime /\ m.element.mtime <= Here.mtime /\ store[s].mtime <= Here.mtime
            BY <1>0, <2>3, <3>1 DEF OrderInv, Here
        <3>3. m.element.val = Here.val
            BY <2>3 DEF CopyInv
        <3> QED
            BY <1>0, <2>1, <2>3, <3>1, <3>2, <3>3 DEF Reached, Messages
    <2>4. CASE store[s].val = Here.val /\ store[s].mtime = Here.mtime /\ ~(m.to = s /\ m.ts >= Here.mtime)
        <3>1. store'[s] = store[s]
            BY <1>0, <2>1, <2>4 DEF Messages, Here
        <3> QED
            BY <2>1, <2>4, <3>1 DEF Reached
    <2>5. CASE (\E n \in net : n.to = s /\ n.ts >= Here.mtime) /\ ~(m.to = s /\ m.ts >= Here.mtime)
        BY <2>1, <2>5 DEF Reached
    <2>6. CASE Excused(s)
        BY <2>1, <2>6 DEF Reached, Excused
    <2> QED
        BY <1>1, <2>2, <2>3, <2>4, <2>5, <2>6 DEF Reached
<1>6. ASSUME NEW m \in net, Dropped(m) PROVE Reached(s)'
    <2>1. /\ Here' = Here /\ net' = net \ {m} /\ UNCHANGED <<store, pc, request, ts>>
          /\ missed' = missed \cup {[to |-> m.to, ts |-> m.ts]}
        BY <1>6 DEF Dropped, Here
    <2>2. CASE \E c \in Calls : Sending(c)
        BY <2>1, <2>2 DEF Reached, Sending
    <2>3. CASE store[s].val = Here.val /\ store[s].mtime = Here.mtime
        BY <2>1, <2>3 DEF Reached
    <2>4. CASE Excused(s)
        BY <2>1, <2>4 DEF Reached, Excused
    <2>5. CASE \E n \in net : n.to = s /\ n.ts >= Here.mtime
        <3>1. PICK n \in net : n.to = s /\ n.ts >= Here.mtime
            BY <2>5
        <3>2. CASE n = m
            <4>1. [to |-> m.to, ts |-> m.ts] \in missed'
                BY <2>1
            <4> QED
                BY <2>1, <3>1, <3>2, <4>1 DEF Reached, Excused
        <3>3. CASE n # m
            BY <2>1, <3>1, <3>3 DEF Reached
        <3> QED
            BY <3>2, <3>3
    <2> QED
        BY <1>1, <2>2, <2>3, <2>4, <2>5 DEF Reached
<1> QED
    BY <1>2, <1>3, <1>4, <1>5, <1>6, StepKinds

LEMMA InitReplica == Init => ReplicaInv
<1> SUFFICES ASSUME Init PROVE ReplicaInv
    OBVIOUS
<1>1. KeyInv
    BY InitKeyInv
<1>2. OrderInv /\ CopyInv /\ ArriveInv
    BY KeyAssumption DEF Init, OrderInv, CopyInv, ArriveInv, Reached, Here, Absent, Others
<1> QED
    BY <1>1, <1>2 DEF ReplicaInv

LEMMA ReplicaInvHolds == ~Coarse /\ Spec => []ReplicaInv
<1>1. ASSUME ~Coarse, ReplicaInv, [Next]_vars PROVE ReplicaInv'
    BY <1>1, NextType, NextCommands, FaithfulBefore, NextOrder, NextCopy, NextArrive DEF ReplicaInv, KeyInv
<1>2. CASE ~Coarse
    <2>1. ReplicaInv /\ [Next]_vars => ReplicaInv'
        BY <1>1, <1>2
    <2> QED
        BY InitReplica, <2>1, PTL DEF Spec
<1> QED
    BY <1>2

\* In whatever order the replications of a key arrive, a server never replaces
\* what it has by something older (SetElementByBinArray in k2hdkccomreplkey.cc,
\* with the time CommandReplicate is given).
THEOREM NeverBack == ~Coarse /\ Spec => ReplicaNeverGoesBack
<1>1. ASSUME ~Coarse, ReplicaInv, [Next]_vars, ~Deleted', misread' = {}, NEW s \in Others
      PROVE  store'[s].mtime >= store[s].mtime
    <2>1. Faithful /\ Faithful' /\ KeyInv /\ OrderInv
        BY <1>1, FaithfulBefore DEF Deleted, Faithful, ReplicaInv
    <2>2. /\ store \in [Servers -> [val : Values \cup {None}, subs : SUBSET Subkeys, mtime : Nat]]
          /\ s \in Servers /\ s # Primary /\ net \subseteq Messages
        BY <2>1 DEF KeyInv, TypeOK, Others, Messages
    <2>3. CASE Unwritten \/ Written
        BY <2>2, <2>3 DEF Unwritten, Written, Others
    <2>4. ASSUME NEW c \in Calls, CommandReplicate(c) PROVE store'[s].mtime >= store[s].mtime
        BY <2>2, <2>4 DEF CommandReplicate
    <2>5. ASSUME NEW m \in net, ReplKeyProcessing(m) PROVE store'[s].mtime >= store[s].mtime
        BY <2>1, <2>2, <2>5 DEF ReplKeyProcessing, SetElementByBinArray, Later, OrderInv, Messages
    <2>6. ASSUME NEW m \in net, Dropped(m) PROVE store'[s].mtime >= store[s].mtime
        BY <2>2, <2>6 DEF Dropped
    <2> QED
        BY <1>1, <2>1, <2>3, <2>4, <2>5, <2>6, StepKinds
<1>2. CASE ~Coarse
    <2>1. ReplicaInv /\ [Next]_vars => [~Deleted' /\ misread' = {} => \A s \in Others : store'[s].mtime >= store[s].mtime]_vars
        BY <1>1, <1>2
    <2> QED
        BY <1>2, <2>1, ReplicaInvHolds, PTL DEF Spec, ReplicaNeverGoesBack
<1> QED
    BY <1>2

\* When every command has been executed and every replication has arrived or
\* failed, a server has the value of the key that Primary has, unless it has
\* missed one that was stamped since the last change.
THEOREM Agreement == Spec => []ReplicasAgree
<1>1. ASSUME ReplicaInv PROVE ReplicasAgree
    <2> SUFFICES ASSUME Quiet, ~Deleted, misread = {}, NEW s \in Others
                 PROVE  store[s].val = Here.val \/ Excused(s)
        BY DEF ReplicasAgree, Excused
    <2>1. Reached(s)
        BY <1>1 DEF ReplicaInv, ArriveInv, Faithful, Deleted
    <2> QED
        BY <2>1 DEF Reached, Sending, Quiet
<1>2. CASE ~Coarse
    BY <1>1, <1>2, ReplicaInvHolds, PTL
<1>3. CASE Coarse
    <2>1. ReplicasAgree
        BY <1>3 DEF ReplicasAgree
    <2> QED
        BY <2>1, PTL
<1> QED
    BY <1>2, <1>3
=============================================================================
