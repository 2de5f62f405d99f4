------------------------- MODULE WaitResponseProofs -------------------------
(***************************************************************************)
(* Proofs about WaitResponse, for any number of command objects, any       *)
(* numbers and types they share, and any number of answers to each.        *)
(***************************************************************************)
EXTENDS WaitResponse, TLAPS

\* The places within CommandSending at which an object may be in the map, and
\* those from which its thread goes on as soon as TriggerResponse is raised.
Entered == {"send", "unwait", "test", "enter", "waiting"}
Trusting == {"send", "test", "enter", "waiting"}

\* The main thread has the object in hand, or has written to it.
Touched(c) == (mpc # "receive" /\ mobj = c) \/ rcv[c] # None

\* An object that has not been entered is unknown to the main thread.
FreshInv ==
    \A c \in Commands : pc[c] \in {"none", "wait"} =>
        ~Touched(c) /\ \A k \in Keys : waitmap[k] # c

\* Whatever is written to an object fits it.
FitInv ==
    /\ mpc = "store" => mrsp \in Commands /\ KeyOf[mrsp] = KeyOf[mobj]
    /\ \A c \in Commands : rcv[c] # None => KeyOf[rcv[c]] = KeyOf[c]

\* The flag that a sender trusts, and the success it reports, mean that the
\* response is there: it is stored before the flag is raised.
TriggerInv ==
    /\ mpc \in {"trigger", "notify"} => rcv[mobj] # None
    /\ \A c \in Commands : pc[c] \in Trusting /\ trigger[c] => rcv[c] # None
    /\ \A c \in Commands : outcome[c] = "answered" => rcv[c] # None

\* The inductive invariant.
WaitInv == TypeOK /\ LeftBehindOnlyByFailedWait /\ WrittenOnce /\ FreshInv /\ FitInv /\ TriggerInv
-----------------------------------------------------------------------------
LEMMA LoweredFlag ==
    ASSUME NEW S, NEW f \in [S -> BOOLEAN], NEW c
    PROVE  [f EXCEPT ![c] = FALSE] \in [S -> BOOLEAN]
OBVIOUS

LEMMA InitWaitInv == Init => WaitInv
BY WaitAssumption DEF Init, WaitInv, TypeOK, LeftBehindOnlyByFailedWait, WrittenOnce, FreshInv, Touched,
    FitInv, TriggerInv, Trusting

LEMMA NextWaitInv == WaitInv /\ [Next]_vars => WaitInv'
<1> SUFFICES ASSUME WaitInv, [Next]_vars PROVE WaitInv'
    OBVIOUS
<1> USE WaitAssumption DEF WaitInv, TypeOK, LeftBehindOnlyByFailedWait, WrittenOnce, FreshInv, Touched,
    FitInv, TriggerInv, Trusting, FailedWaits, Release, Goto, Ends, objVars, mainVars
<1>1. ASSUME NEW c \in Commands, New(c) PROVE WaitInv'
    BY <1>1 DEF New
<1>2. ASSUME NEW c \in Commands, SetWaitCommandObject(c) PROVE WaitInv'
    <2>1. CASE waitmap[KeyOf[c]] = None
        <3> USE <1>2, <2>1 DEF SetWaitCommandObject
        <3>1. TypeOK'
            <4>1. trigger' \in [Commands -> BOOLEAN]
                <5>1. trigger' = [trigger EXCEPT ![c] = FALSE] /\ trigger \in [Commands -> BOOLEAN]
                    OBVIOUS
                <5> QED
                    BY <5>1, LoweredFlag
            <4>2. pc' \in [Commands -> {"none"} \cup Entered \cup {"wait", "returned", "deleted"}]
                BY DEF Entered
            <4>3. waitmap' \in [Keys -> Commands \cup {None}]
                OBVIOUS
            <4> QED
                BY <4>1, <4>2, <4>3 DEF Entered
        <3>2. LeftBehindOnlyByFailedWait' /\ WrittenOnce'
            OBVIOUS
        <3>3. FreshInv'
            OBVIOUS
        <3>4. FitInv'
            OBVIOUS
        <3>5. TriggerInv'
            OBVIOUS
        <3> QED
            BY <3>1, <3>2, <3>3, <3>4, <3>5
    <2>2. CASE waitmap[KeyOf[c]] # None
        BY <1>2, <2>2 DEF SetWaitCommandObject
    <2> QED
        BY <2>1, <2>2
<1>3. ASSUME NEW c \in Commands, Send(c) PROVE WaitInv'
    BY <1>3 DEF Send
<1>4. ASSUME NEW c \in Commands, SendFails(c) PROVE WaitInv'
    BY <1>4 DEF SendFails
<1>5. ASSUME NEW c \in Commands, UnsetWaitCommandObject(c) PROVE WaitInv'
    BY <1>5 DEF UnsetWaitCommandObject
<1>6. ASSUME NEW c \in Commands, TestTrigger(c) PROVE WaitInv'
    BY <1>6 DEF TestTrigger
<1>7. ASSUME NEW c \in Commands, EnterWait(c) PROVE WaitInv'
    BY <1>7 DEF EnterWait
<1>8. ASSUME NEW c \in Commands, WaitTimeout(c) PROVE WaitInv'
    BY <1>8 DEF WaitTimeout
<1>9. ASSUME NEW c \in Commands, SpuriousWakeup(c) PROVE WaitInv'
    BY <1>9 DEF SpuriousWakeup
<1>10. ASSUME NEW c \in Commands, LockFails(c) PROVE WaitInv'
    BY <1>10 DEF LockFails, WaitError
<1>11. ASSUME NEW c \in Commands, WaitFails(c) PROVE WaitInv'
    BY <1>11 DEF WaitFails, WaitError
<1>12. ASSUME NEW c \in Commands, Delete(c) PROVE WaitInv'
    BY <1>12 DEF Delete
<1>13. ASSUME NEW c \in Commands, FindWaitCommandObject(c) PROVE WaitInv'
    BY <1>13 DEF FindWaitCommandObject
<1>14. CASE StoreResponse
    BY <1>14 DEF StoreResponse, Alive
<1>15. CASE RaiseTrigger
    BY <1>15 DEF RaiseTrigger, Alive
<1>16. CASE Notify
    BY <1>16 DEF Notify, Alive
<1>17. CASE NotifyFails
    BY <1>17 DEF NotifyFails, Alive
<1>18. CASE TouchDeleted
    BY <1>18 DEF TouchDeleted
<1>19. CASE UNCHANGED vars
    BY <1>19 DEF vars
<1> QED
    BY <1>1, <1>2, <1>3, <1>4, <1>5, <1>6, <1>7, <1>8, <1>9, <1>10, <1>11, <1>12, <1>13, <1>14, <1>15, <1>16, <1>17,
       <1>18, <1>19 DEF Next, Worker, Disturbance, SetReceiveData, Done

LEMMA WaitInvHolds == Spec => []WaitInv
BY InitWaitInv, NextWaitInv, PTL DEF Spec
-----------------------------------------------------------------------------
\* The type invariant of senders, wait map and main thread.
THEOREM TypeCorrect == Spec => []TypeOK
<1>1. WaitInv => TypeOK
    BY DEF WaitInv
<1> QED
    BY <1>1, WaitInvHolds, PTL

\* A command that reports success has a response, and one of its own number and
\* type, however many objects share them and whatever comes late or twice; if it
\* has none, the wait itself has ended with an error
\* (K2hdkcCommand::CommandSending, K2hdkcCntrl::Run).
THEOREM SuccessHasAResponse == Spec => []SuccessHasResponse
<1>1. WaitInv => SuccessHasResponse
    BY DEF WaitInv, TriggerInv, FitInv, SuccessHasResponse, Succeeded
<1> QED
    BY <1>1, WaitInvHolds, PTL

\* Of all ways out of CommandSending only the three from a wait that failed leave
\* an object in the wait map.
THEOREM OnlyAFailedWaitLeavesAnEntry == Spec => []LeftBehindOnlyByFailedWait
<1>1. WaitInv => LeftBehindOnlyByFailedWait
    BY DEF WaitInv
<1> QED
    BY <1>1, WaitInvHolds, PTL

\* SetReceiveData never writes twice to an object, nor at the same time.
THEOREM AnObjectIsWrittenOnce == Spec => []WrittenOnce
<1>1. WaitInv => WrittenOnce
    BY DEF WaitInv
<1> QED
    BY <1>1, WaitInvHolds, PTL
=============================================================================
