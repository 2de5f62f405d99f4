-------------------------- MODULE WorkerPoolProofs --------------------------
(***************************************************************************)
(* Proofs about WorkerPool, for any number of slots, threads, requests and *)
(* shutdown rounds.                                                        *)
(***************************************************************************)
EXTENDS WorkerPool, FiniteSetTheorems, TLAPS

\* What the type invariant rests on: a request is in the main thread's hand
\* while it is being queued, CreateThreads counts down to zero, and a worker
\* that runs a command has one.
TypeInv ==
    /\ TypeOK
    /\ mpc \in {"push", "wake", "grow", "broadcast"} => req \in Requests
    /\ mpc = "count" => todo > 0
    /\ \A w \in Slots : pc[w] = "run" => job[w] \in Requests

\* The sets of threads are finite, so that they have a size.
LEMMA SizesAreNaturals ==
    ASSUME NEW S, S \subseteq Slots
    PROVE  IsFiniteSet(S) /\ Cardinality(S) \in Nat
BY PoolAssumption, FS_Subset, FS_CardinalityType

LEMMA InitType == Init => TypeInv
<1> SUFFICES ASSUME Init PROVE TypeInv
    OBVIOUS
<1> USE DEF Init
<1>1. tries \in 0..ExitTries /\ idle_count \in [Slots -> 0..ReduceIdle + 1]
    BY PoolAssumption
<1>2. /\ pc \in [Slots -> WorkerPcs] /\ mpc \in MainPcs
      /\ \A w \in Slots : pc[w] # "run"
    BY DEF WorkerPcs, MainPcs
<1>3. rcvprocdatas \in Seq(Requests)
    OBVIOUS
<1>4. /\ stop_req \in [Slots -> BOOLEAN] /\ exited \in [Slots -> BOOLEAN]
      /\ is_work \in [Slots -> BOOLEAN] /\ job \in [Slots -> Requests \cup {None}]
    OBVIOUS
<1>5. ~(mpc \in {"push", "wake", "grow", "broadcast"}) /\ mpc # "count"
    OBVIOUS
<1> HIDE DEF Init
<1>6. /\ req \in Requests \cup {None} /\ todo \in Nat /\ fresh \in Slots \cup {None}
      /\ scan \subseteq Slots
      /\ unsent \subseteq Requests /\ processed \subseteq Requests
      /\ thread_list \subseteq Slots /\ run_thread_map \subseteq Slots
      /\ list_lock \in Slots \cup {Main, None}
      /\ free_thread_count \in Int
    BY DEF Init
<1>7. is_loop \in BOOLEAN /\ sigterm \in BOOLEAN /\ exit_notice \in BOOLEAN
    BY Zenon DEF Init
<1> QED
    BY <1>1, <1>2, <1>3, <1>4, <1>5, <1>6, <1>7 DEF TypeInv, TypeOK

LEMMA NextType == TypeInv /\ [Next]_vars => TypeInv'
<1> SUFFICES ASSUME TypeInv, [Next]_vars PROVE TypeInv'
    OBVIOUS
<1> USE DEF TypeInv, TypeOK, MainPcs, WorkerPcs, Asleep, Working, Leaving
<1>1. CASE CreateThreads
    <2>1. Cardinality(run_thread_map) \in Nat
        BY SizesAreNaturals
    <2> QED
        BY <1>1, <2>1, PoolAssumption DEF CreateThreads, workVars
<1>2. CASE CountFresh
    BY <1>2 DEF CountFresh, workVars
<1>3. CASE CreateEnd
    BY <1>3, PoolAssumption DEF CreateEnd, workVars
<1>4. ASSUME NEW w \in Slots, PthreadCreate(w) PROVE TypeInv'
    <2> USE <1>4 DEF PthreadCreate
    <2>1. pc' \in [Slots -> WorkerPcs] /\ \A v \in Slots : pc'[v] = "run" => pc[v] = "run"
        OBVIOUS
    <2>2. stop_req' \in [Slots -> BOOLEAN] /\ exited' \in [Slots -> BOOLEAN]
        OBVIOUS
    <2>3. idle_count' \in [Slots -> 0..ReduceIdle + 1]
        BY PoolAssumption
    <2> QED
        BY <2>1, <2>2, <2>3
<1>5. CASE TestLoop \/ ReceiveOther \/ ReceiveNothing
    BY <1>5 DEF TestLoop, ReceiveOther, ReceiveNothing, mainVars, poolVars, workVars
<1>6. ASSUME NEW r \in Requests, ReceiveRequest(r) PROVE TypeInv'
    BY <1>6 DEF ReceiveRequest, poolVars, workVars
<1>7. CASE Processing
    BY <1>7 DEF Processing, mainVars, poolVars, workVars
<1>8. CASE WakeupThreads
    BY <1>8 DEF WakeupThreads, mainVars, poolVars, workVars
<1>9. CASE Broadcast
    BY <1>9 DEF Broadcast, Woken, poolVars
<1>10. CASE CheckExitThreads
    BY <1>10 DEF CheckExitThreads, workVars
<1>11. ASSUME NEW w \in Slots, JoinThread(w) PROVE TypeInv'
    BY <1>11 DEF JoinThread
<1>12. CASE JoinEnd
    BY <1>12 DEF JoinEnd, mainVars, poolVars, workVars
<1>13. CASE ExitAllThreads
    BY <1>13 DEF ExitAllThreads, mainVars, poolVars, workVars
<1>14. CASE ExitRound
    <2> USE <1>14 DEF ExitRound, poolVars
    <2>1. tries' \in 0..ExitTries
        BY PoolAssumption
    <2>2. stop_req' \in [Slots -> BOOLEAN]
        OBVIOUS
    <2> QED
        BY <2>1, <2>2
<1>15. CASE ExitBroadcast
    BY <1>15 DEF ExitBroadcast, Woken, poolVars
<1>16. CASE Clean
    BY <1>16 DEF Clean, mainVars, poolVars, workVars
<1>17. CASE SigExit
    BY <1>17 DEF SigExit, poolVars, workVars
<1>18. ASSUME NEW w \in Slots, Worker(w) \/ SpuriousWakeup(w) PROVE TypeInv'
    <2> USE DEF Goto, mainVars, poolVars
    <2>1. CASE Test(w)
        BY <2>1 DEF Test
    <2>2. CASE EnterWait(w)
        BY <2>2 DEF EnterWait
    <2>3. CASE WaitTimeout(w)
        BY <2>3 DEF WaitTimeout
    <2>4. CASE SpuriousWakeup(w)
        BY <2>4 DEF SpuriousWakeup
    <2>5. CASE AfterTimeout(w)
        <3> USE <2>5, PoolAssumption DEF AfterTimeout
        <3>1. Idler(w) \in [Slots -> 0..ReduceIdle + 1]
            BY DEF Idler
        <3>2. pc' \in [Slots -> WorkerPcs] /\ \A v \in Slots : pc'[v] = "run" => pc[v] = "run"
            BY ZenonT(60)
        <3>3. idle_count' = idle_count \/ idle_count' = Idler(w)
            OBVIOUS
        <3> QED
            BY <3>1, <3>2, <3>3
    <2>6. CASE AfterSignal(w)
        <3> USE <2>6 DEF AfterSignal
        <3>1. pc' \in [Slots -> WorkerPcs] /\ \A v \in Slots : pc'[v] = "run" => pc[v] = "run"
            OBVIOUS
        <3>2. is_work' = is_work \/ is_work' = [is_work EXCEPT ![w] = FALSE]
            OBVIOUS
        <3>3. is_work' \in [Slots -> BOOLEAN]
            BY <3>2
        <3>4. free_thread_count' \in Int
            OBVIOUS
        <3> QED
            BY <3>1, <3>3, <3>4
    <2>7. CASE TakeRequest(w)
        <3> USE <2>7 DEF TakeRequest
        <3>1. Head(rcvprocdatas) \in Requests /\ Tail(rcvprocdatas) \in Seq(Requests)
            OBVIOUS
        <3>2. job' = job \/ job' = [job EXCEPT ![w] = Head(rcvprocdatas)]
            OBVIOUS
        <3>3. pc' = [pc EXCEPT ![w] = "finish"] \/ pc' = [pc EXCEPT ![w] = "run"]
            OBVIOUS
        <3>4. pc' \in [Slots -> WorkerPcs] /\ job' \in [Slots -> Requests \cup {None}]
            BY ZenonT(60), <3>1, <3>2, <3>3
        <3>5. ASSUME NEW v \in Slots, pc'[v] = "run" PROVE job'[v] \in Requests
            <4>1. CASE v = w
                BY <3>1, <3>5, <4>1
            <4>2. CASE v # w
                BY <3>5, <4>2
            <4> QED
                BY <4>1, <4>2
        <3>6. rcvprocdatas' \in Seq(Requests)
            BY <3>1
        <3> HIDE DEF Goto
        <3> QED
            BY <3>4, <3>5, <3>6
    <2>8. CASE QueueEmpty(w)
        BY <2>8 DEF QueueEmpty
    <2>9. CASE CommandDone(w)
        BY <2>9 DEF CommandDone
    <2>10. CASE FinishWork(w)
        BY <2>10, PoolAssumption DEF FinishWork, Idler
    <2>11. CASE CheckIdle(w)
        BY <2>11 DEF CheckIdle
    <2>12. CASE Reduce(w)
        BY <2>12 DEF Reduce
    <2>13. CASE Leave(w)
        BY <2>13 DEF Leave
    <2>14. CASE Unmap(w)
        BY <2>14 DEF Unmap
    <2>15. CASE SetExited(w)
        BY <2>15 DEF SetExited
    <2>16. CASE SetNotice(w)
        BY <2>16 DEF SetNotice
    <2> QED
        BY <1>18, <2>1, <2>2, <2>3, <2>4, <2>5, <2>6, <2>7, <2>8, <2>9, <2>10, <2>11, <2>12,
           <2>13, <2>14, <2>15, <2>16 DEF Worker
<1>19. CASE UNCHANGED vars
    BY <1>19 DEF vars, mainVars, poolVars, workVars
<1> QED
    BY <1>1, <1>2, <1>3, <1>4, <1>5, <1>6, <1>7, <1>8, <1>9, <1>10, <1>11, <1>12, <1>13,
       <1>14, <1>15, <1>16, <1>17, <1>18, <1>19
    DEF Next, MainThread, Startup, MainLoop, Shutdown, Ended

\* The type invariant: every variable stays within its type in any behaviour
\* of the pool (all of K2hdkcThread and the main loop).
THEOREM TypeCorrect == Spec => []TypeOK
<1>1. Spec => []TypeInv
    BY InitType, NextType, PTL DEF Spec
<1>2. TypeInv => TypeOK
    BY DEF TypeInv
<1> QED
    BY <1>1, <1>2, PTL
-----------------------------------------------------------------------------
(* How the state of a thread, the list, the map and the lock belong        *)
(* together.  This is the inductive invariant the safety theorems share.   *)

\* The places of a worker that has a seat in run_thread_map.  At "leave" and
\* "unmap" it may (asked to stop) or may not (reduced itself) have one.
Seated == (Asleep \ {"leave"}) \cup Working

LockInv ==
    /\ (list_lock = Main) <=> (mpc \in {"create", "count"})
    /\ \A w \in Slots : (list_lock = w) <=> (pc[w] = "reduce")

ListInv ==
    /\ \A w \in Slots : w \in thread_list <=> pc[w] # "none"
    /\ \A w \in Slots : w \in run_thread_map => pc[w] \in Seated \cup {"leave", "unmap"}
    /\ \A w \in Slots : pc[w] \in Seated => w \in run_thread_map

ExitedInv ==
    \A w \in Slots : pc[w] # "none" => (exited[w] <=> pc[w] \in {"notify", "dead"})

StopInv ==
    /\ tries > 0 => mpc \in {"stopreq", "stopcast", "join", "clean", "stopped"}
    /\ mpc = "stopcast" => tries > 0
    /\ \A w \in Slots : pc[w] # "none" /\ stop_req[w] => tries > 0
    /\ \A w \in Slots : pc[w] \in {"leave", "unmap"} /\ w \in run_thread_map => stop_req[w]

Shape == LockInv /\ ListInv /\ ExitedInv /\ StopInv

shapeVars == <<mpc, tries, thread_list, run_thread_map, list_lock, pc, stop_req, exited>>

\* A worker's step that changes nothing of this but its own place.
Moves(w) ==
    /\ UNCHANGED <<mpc, req, scan, tries, thread_list, run_thread_map, list_lock, exit_notice,
                   stop_req, exited>>
    /\ pc[w] \in Seated \ {"reduce"}
    /\ \A v \in Slots \ {w} : pc'[v] = pc[v]
    /\ pc'[w] \in (Seated \cup {"leave"}) \ {"reduce"}
    /\ pc'[w] = "leave" => stop_req[w]

LEMMA WorkerMoves ==
    ASSUME TypeInv, NEW w \in Slots, Worker(w) \/ SpuriousWakeup(w)
    PROVE  \/ Moves(w)
           \/ CheckIdle(w) /\ pc'[w] = "reduce"
           \/ Reduce(w) \/ Leave(w) \/ Unmap(w) \/ SetExited(w) \/ SetNotice(w)
<1> USE DEF Goto, mainVars, poolVars
<1>1. pc \in [Slots -> WorkerPcs]
    BY DEF TypeInv, TypeOK
<1>2. CASE Test(w)
    BY <1>1, <1>2 DEF Test, Moves, Seated, Asleep, Working
<1>3. CASE EnterWait(w)
    BY <1>1, <1>3 DEF EnterWait, Moves, Seated, Asleep, Working
<1>4. CASE WaitTimeout(w)
    BY <1>1, <1>4 DEF WaitTimeout, Moves, Seated, Asleep, Working
<1>5. CASE SpuriousWakeup(w)
    BY <1>1, <1>5 DEF SpuriousWakeup, Moves, Seated, Asleep, Working
<1>6. CASE AfterTimeout(w)
    BY <1>1, <1>6 DEF AfterTimeout, Moves, Seated, Asleep, Working
<1>7. CASE AfterSignal(w)
    BY <1>1, <1>7 DEF AfterSignal, Moves, Seated, Asleep, Working
<1>8. CASE TakeRequest(w)
    BY <1>1, <1>8 DEF TakeRequest, Moves, Seated, Asleep, Working
<1>9. CASE QueueEmpty(w)
    BY <1>1, <1>9 DEF QueueEmpty, Moves, Seated, Asleep, Working
<1>10. CASE CommandDone(w)
    BY <1>1, <1>10 DEF CommandDone, Moves, Seated, Asleep, Working
<1>11. CASE FinishWork(w)
    BY <1>1, <1>11 DEF FinishWork, Moves, Seated, Asleep, Working
<1>12. CASE CheckIdle(w)
    BY <1>1, <1>12 DEF CheckIdle, Moves, Seated, Asleep, Working
<1> QED
    BY <1>2, <1>3, <1>4, <1>5, <1>6, <1>7, <1>8, <1>9, <1>10, <1>11, <1>12 DEF Worker

LEMMA InitShape == Init => Shape
BY PoolAssumption DEF Init, Shape, LockInv, ListInv, ExitedInv, StopInv, Seated, Asleep, Working

LEMMA NextShape == TypeInv /\ Shape /\ [Next]_vars => Shape'
<1> SUFFICES ASSUME TypeInv, Shape, [Next]_vars PROVE Shape'
    OBVIOUS
<1>0. /\ pc \in [Slots -> WorkerPcs] /\ stop_req \in [Slots -> BOOLEAN]
      /\ exited \in [Slots -> BOOLEAN] /\ tries \in Nat
      /\ Main \notin Slots /\ None \notin Slots /\ None # Main
    BY PoolAssumption DEF TypeInv, TypeOK
<1> USE <1>0 DEF Shape, LockInv, ListInv, ExitedInv, StopInv, Seated, Asleep, Working
<1>1. CASE CreateThreads
    BY <1>1 DEF CreateThreads, workVars
<1>2. CASE CountFresh
    BY <1>2 DEF CountFresh, workVars
<1>3. CASE CreateEnd
    BY <1>3 DEF CreateEnd, workVars
<1>4. ASSUME NEW w \in Slots, PthreadCreate(w) PROVE Shape'
    BY <1>4 DEF PthreadCreate
<1>5. CASE TestLoop
    BY <1>5 DEF TestLoop, mainVars, poolVars, workVars
<1>6. CASE ReceiveOther \/ ReceiveNothing
    BY <1>6 DEF ReceiveOther, ReceiveNothing, mainVars, poolVars, workVars
<1>7. ASSUME NEW r \in Requests, ReceiveRequest(r) PROVE Shape'
    BY <1>7 DEF ReceiveRequest, poolVars, workVars
<1>8. CASE Processing
    BY <1>8 DEF Processing, mainVars, poolVars, workVars
<1>9. CASE WakeupThreads
    BY <1>9 DEF WakeupThreads, mainVars, poolVars, workVars
<1>10. CASE Broadcast
    BY <1>10 DEF Broadcast, Woken, poolVars
<1>11. CASE CheckExitThreads
    BY <1>11 DEF CheckExitThreads, workVars
<1>12. ASSUME NEW w \in Slots, JoinThread(w) PROVE Shape'
    BY <1>12 DEF JoinThread
<1>13. CASE JoinEnd
    BY <1>13 DEF JoinEnd, mainVars, poolVars, workVars
<1>14. CASE ExitAllThreads
    BY <1>14 DEF ExitAllThreads, mainVars, poolVars, workVars
<1>15. CASE ExitRound
    BY <1>15 DEF ExitRound, poolVars
<1>16. CASE ExitBroadcast
    BY <1>16 DEF ExitBroadcast, Woken, poolVars
<1>17. CASE Clean
    BY <1>17 DEF Clean, mainVars, poolVars, workVars
<1>18. CASE SigExit
    BY <1>18 DEF SigExit, poolVars, workVars
<1>19. ASSUME NEW w \in Slots, Worker(w) \/ SpuriousWakeup(w) PROVE Shape'
    <2> USE DEF Goto, mainVars, poolVars
    <2>1. CASE Moves(w)
        BY <2>1 DEF Moves
    <2>2. CASE CheckIdle(w) /\ pc'[w] = "reduce"
        BY <2>2 DEF CheckIdle
    <2>3. CASE Reduce(w)
        BY <2>3 DEF Reduce
    <2>4. CASE Leave(w)
        BY <2>4 DEF Leave
    <2>5. CASE Unmap(w)
        BY <2>5 DEF Unmap
    <2>6. CASE SetExited(w)
        BY <2>6 DEF SetExited
    <2>7. CASE SetNotice(w)
        BY <2>7 DEF SetNotice
    <2> QED
        BY <1>19, <2>1, <2>2, <2>3, <2>4, <2>5, <2>6, <2>7, WorkerMoves
<1>20. CASE UNCHANGED vars
    BY <1>20 DEF vars, mainVars, poolVars, workVars
<1> QED
    BY <1>1, <1>2, <1>3, <1>4, <1>5, <1>6, <1>7, <1>8, <1>9, <1>10, <1>11, <1>12, <1>13,
       <1>14, <1>15, <1>16, <1>17, <1>18, <1>19, <1>20
    DEF Next, MainThread, Startup, MainLoop, Shutdown, Ended

\* The shape of the pool in every reachable state.
LEMMA ShapeHolds == Spec => [](TypeInv /\ Shape)
<1>1. Init => TypeInv /\ Shape
    BY InitType, InitShape
<1>2. (TypeInv /\ Shape) /\ [Next]_vars => (TypeInv /\ Shape)'
    BY NextType, NextShape
<1> QED
    BY <1>1, <1>2, PTL DEF Spec

\* When ExitAllThreads ends with an empty list no thread is left (Clean of
\* K2hdkcThread, and K2hdkcCntrl::Clean after it, may tear down what threads use).
THEOREM StopCompletes == Spec => []StopComplete
<1>1. TypeInv /\ Shape => StopComplete
    BY DEF TypeInv, TypeOK, Shape, ListInv, StopComplete
<1> QED
    BY <1>1, ShapeHolds, PTL
-----------------------------------------------------------------------------
(* No exited thread is forgotten.                                          *)

LEMMA NextExitNotMissed ==
    TypeInv /\ Shape /\ ExitNotMissed /\ [Next]_vars => ExitNotMissed'
<1> SUFFICES ASSUME TypeInv, Shape, ExitNotMissed, [Next]_vars,
                    NEW x \in thread_list', exited'[x], ~Stopping', ~exit_notice',
                    pc'[x] # "notify"
             PROVE  mpc' = "join" /\ x \in scan'
    BY DEF ExitNotMissed
<1>0. /\ pc \in [Slots -> WorkerPcs] /\ exited \in [Slots -> BOOLEAN] /\ tries \in Nat
      /\ thread_list \subseteq Slots /\ scan \subseteq Slots
    BY DEF TypeInv, TypeOK
<1> USE <1>0 DEF ExitNotMissed, Stopping, Shape, ListInv, ExitedInv, StopInv
<1>1. CASE CreateThreads
    BY <1>1 DEF CreateThreads, workVars
<1>2. CASE CountFresh
    BY <1>2 DEF CountFresh, workVars
<1>3. CASE CreateEnd
    BY <1>3 DEF CreateEnd, workVars
<1>4. ASSUME NEW w \in Slots, PthreadCreate(w) PROVE mpc' = "join" /\ x \in scan'
    BY <1>4 DEF PthreadCreate
<1>5. CASE TestLoop
    BY <1>5 DEF TestLoop, mainVars, poolVars, workVars
<1>6. CASE ReceiveOther \/ ReceiveNothing
    BY <1>6 DEF ReceiveOther, ReceiveNothing, mainVars, poolVars, workVars
<1>7. ASSUME NEW r \in Requests, ReceiveRequest(r) PROVE mpc' = "join" /\ x \in scan'
    BY <1>7 DEF ReceiveRequest, poolVars, workVars
<1>8. CASE Processing
    BY <1>8 DEF Processing, mainVars, poolVars, workVars
<1>9. CASE WakeupThreads
    BY <1>9 DEF WakeupThreads, mainVars, poolVars, workVars
<1>10. CASE Broadcast
    BY <1>10 DEF Broadcast, Woken, poolVars
<1>11. CASE CheckExitThreads
    BY <1>11 DEF CheckExitThreads, workVars
<1>12. ASSUME NEW w \in Slots, JoinThread(w) PROVE mpc' = "join" /\ x \in scan'
    BY <1>12 DEF JoinThread
<1>13. CASE JoinEnd
    BY <1>13 DEF JoinEnd, mainVars, poolVars, workVars
<1>14. CASE ExitAllThreads
    BY <1>14 DEF ExitAllThreads, mainVars, poolVars, workVars
<1>15. CASE ExitRound
    BY <1>15 DEF ExitRound, poolVars
<1>16. CASE ExitBroadcast
    BY <1>16 DEF ExitBroadcast, Woken, poolVars
<1>17. CASE Clean
    BY <1>17 DEF Clean, mainVars, poolVars, workVars
<1>18. CASE SigExit
    BY <1>18 DEF SigExit, poolVars, workVars
<1>19. ASSUME NEW w \in Slots, Worker(w) \/ SpuriousWakeup(w)
       PROVE  mpc' = "join" /\ x \in scan'
    <2> USE DEF Goto, mainVars, poolVars, Seated, Asleep, Working
    <2>1. CASE Moves(w)
        BY <2>1 DEF Moves
    <2>2. CASE CheckIdle(w) /\ pc'[w] = "reduce"
        BY <2>2 DEF CheckIdle
    <2>3. CASE Reduce(w)
        BY <2>3 DEF Reduce
    <2>4. CASE Leave(w)
        BY <2>4 DEF Leave
    <2>5. CASE Unmap(w)
        BY <2>5 DEF Unmap
    <2>6. CASE SetExited(w)
        BY <2>6 DEF SetExited
    <2>7. CASE SetNotice(w)
        BY <2>7 DEF SetNotice
    <2> QED
        BY <1>19, <2>1, <2>2, <2>3, <2>4, <2>5, <2>6, <2>7, WorkerMoves
<1>20. CASE UNCHANGED vars
    BY <1>20 DEF vars, mainVars, poolVars, workVars
<1> QED
    BY <1>1, <1>2, <1>3, <1>4, <1>5, <1>6, <1>7, <1>8, <1>9, <1>10, <1>11, <1>12, <1>13,
       <1>14, <1>15, <1>16, <1>17, <1>18, <1>19, <1>20
    DEF Next, MainThread, Startup, MainLoop, Shutdown, Ended

\* An exited thread is always about to be joined: the notice, which
\* CheckExitThreads takes down before it walks the list, is never lost.
THEOREM ExitIsNotMissed == Spec => []ExitNotMissed
<1>1. Init => ExitNotMissed
    BY DEF Init, ExitNotMissed
<1>2. (TypeInv /\ Shape /\ ExitNotMissed) /\ [Next]_vars => ExitNotMissed'
    BY NextExitNotMissed
<1> QED
    BY <1>1, <1>2, ShapeHolds, PTL DEF Spec
-----------------------------------------------------------------------------
(* How many threads there are.                                             *)

\* Sizes of the sets the actions change by one thread.
LEMMA SizeOfOneMore ==
    ASSUME NEW S, S \subseteq Slots, NEW w \in Slots, w \notin S
    PROVE  Cardinality(S \cup {w}) = Cardinality(S) + 1
BY SizesAreNaturals, FS_AddElement

LEMMA SizeOfOneLess ==
    ASSUME NEW S, S \subseteq Slots, NEW w \in S
    PROVE  Cardinality(S \ {w}) = Cardinality(S) - 1
BY SizesAreNaturals, FS_RemoveElement

\* What a thread that reduces the pool has seen under the lock still holds
\* when it takes itself off the map.
ReduceInv ==
    \A w \in Slots :
        pc[w] = "reduce" => MinThreads < Cardinality(run_thread_map) /\ 1 < Cardinality(run_thread_map)

LEMMA NextReduce == TypeInv /\ Shape /\ ReduceInv /\ [Next]_vars => ReduceInv'
<1> SUFFICES ASSUME TypeInv, Shape, ReduceInv, [Next]_vars,
                    NEW x \in Slots, pc'[x] = "reduce"
             PROVE  (MinThreads < Cardinality(run_thread_map) /\ 1 < Cardinality(run_thread_map))'
    BY DEF ReduceInv
<1> DEFINE Enough == MinThreads < Cardinality(run_thread_map) /\ 1 < Cardinality(run_thread_map)
<1>0. /\ pc \in [Slots -> WorkerPcs] /\ Main \notin Slots /\ None \notin Slots /\ None # Main
    BY PoolAssumption DEF TypeInv, TypeOK
<1>1. pc[x] = "reduce" => Enough
    BY DEF ReduceInv
<1>2. SUFFICES (run_thread_map' = run_thread_map) /\ (pc[x] = "reduce" \/ Enough)
    BY <1>1
<1> HIDE DEF Enough
<1> USE <1>0, <1>1 DEF Shape, LockInv
<1>3. CASE Startup
    BY <1>3 DEF Startup, CreateThreads, CountFresh, CreateEnd, PthreadCreate, workVars
<1>4. CASE MainLoop
    BY <1>4 DEF MainLoop, TestLoop, ReceiveOther, ReceiveNothing, ReceiveRequest, Processing,
                WakeupThreads, Broadcast, Woken, CheckExitThreads, JoinThread, JoinEnd,
                mainVars, poolVars, workVars
<1>5. CASE Shutdown
    BY <1>5 DEF Shutdown, ExitAllThreads, ExitRound, ExitBroadcast, Woken, Clean,
                mainVars, poolVars, workVars
<1>6. CASE SigExit
    BY <1>6 DEF SigExit, poolVars, workVars
<1>7. ASSUME NEW w \in Slots, Worker(w) \/ SpuriousWakeup(w)
      PROVE  (run_thread_map' = run_thread_map) /\ (pc[x] = "reduce" \/ Enough)
    <2> USE DEF Goto, mainVars, poolVars
    <2>1. CASE Moves(w)
        BY <2>1 DEF Moves
    <2>2. CASE CheckIdle(w) /\ pc'[w] = "reduce"
        BY <2>2 DEF CheckIdle, CanReduce, Enough
    <2>3. CASE Reduce(w)
        BY <2>3 DEF Reduce
    <2>4. CASE Leave(w)
        BY <2>4 DEF Leave
    <2>5. CASE Unmap(w)
        BY <2>5 DEF Unmap
    <2>6. CASE SetExited(w)
        BY <2>6 DEF SetExited
    <2>7. CASE SetNotice(w)
        BY <2>7 DEF SetNotice
    <2> QED
        BY <1>7, <2>1, <2>2, <2>3, <2>4, <2>5, <2>6, <2>7, WorkerMoves
<1>8. CASE UNCHANGED vars
    BY <1>8 DEF vars, mainVars, poolVars, workVars
<1> QED
    BY <1>3, <1>4, <1>5, <1>6, <1>7, <1>8 DEF Next, MainThread, Ended

LEMMA ReduceHolds == Spec => [](TypeInv /\ Shape /\ ReduceInv)
<1>1. Init => ReduceInv
    BY DEF Init, ReduceInv
<1> QED
    BY <1>1, NextReduce, ShapeHolds, PTL DEF Spec

\* Threads that find themselves superfluous at once do not take the pool below
\* min_thread_cnt: the comparison and the removal are under list_lockval.
THEOREM ReduceKeepsMinimumHolds == Spec => ReduceKeepsMinimum
<1> DEFINE Step ==
        \A w \in run_thread_map \ run_thread_map' :
            ~stop_req[w] /\ pc[w] = "reduce" => Cardinality(run_thread_map') >= MinThreads
<1>1. (TypeInv /\ Shape /\ ReduceInv) /\ [Next]_vars => [Step]_vars
    <2> SUFFICES ASSUME TypeInv, Shape, ReduceInv, [Next]_vars,
                        NEW x \in run_thread_map \ run_thread_map', pc[x] = "reduce"
                 PROVE  Cardinality(run_thread_map') >= MinThreads
        OBVIOUS
    <2>0. /\ pc \in [Slots -> WorkerPcs] /\ Main \notin Slots /\ None \notin Slots /\ None # Main
          /\ run_thread_map \subseteq Slots /\ x \in Slots /\ list_lock = x
        BY PoolAssumption DEF TypeInv, TypeOK, Shape, LockInv
    <2>1. Reduce(x)
        <3> USE <2>0 DEF Shape, LockInv
        <3>1. CASE Startup
            BY <3>1 DEF Startup, CreateThreads, CountFresh, CreateEnd, PthreadCreate
        <3>2. CASE MainLoop
            BY <3>2 DEF MainLoop, TestLoop, ReceiveOther, ReceiveNothing, ReceiveRequest,
                        Processing, WakeupThreads, Broadcast, CheckExitThreads, JoinThread,
                        JoinEnd, poolVars
        <3>3. CASE Shutdown
            BY <3>3 DEF Shutdown, ExitAllThreads, ExitRound, ExitBroadcast, Clean, poolVars
        <3>4. CASE SigExit
            BY <3>4 DEF SigExit, poolVars
        <3>5. ASSUME NEW w \in Slots, Worker(w) \/ SpuriousWakeup(w) PROVE Reduce(x)
            BY <3>5, WorkerMoves
            DEF Moves, CheckIdle, Reduce, Leave, Unmap, SetExited, SetNotice, poolVars
        <3>6. CASE UNCHANGED vars
            BY <3>6 DEF vars, poolVars
        <3> QED
            BY <3>1, <3>2, <3>3, <3>4, <3>5, <3>6 DEF Next, MainThread, Ended
    <2>2. /\ Cardinality(run_thread_map') = Cardinality(run_thread_map) - 1
          /\ MinThreads < Cardinality(run_thread_map)
        BY <2>0, <2>1, SizeOfOneLess DEF Reduce, ReduceInv
    <2> QED
        BY <2>0, <2>2, SizesAreNaturals, PoolAssumption
<1> QED
    BY <1>1, ReduceHolds, PTL DEF Spec, ReduceKeepsMinimum
-----------------------------------------------------------------------------
(* The pool never exceeds max_thread_cnt.                                  *)

\* WakeupThreads compares thread_list, CreateThreads run_thread_map: what the
\* one allows the other must not exceed.
BoundInv ==
    /\ ThreadBound
    /\ mpc = "start" => thread_list = {}
    /\ mpc = "grow" => Cardinality(thread_list) < MaxThreads
    /\ mpc = "create" => todo + Cardinality(thread_list) <= MaxThreads
    /\ mpc = "count" => todo - 1 + Cardinality(thread_list) <= MaxThreads

LEMMA NextBound == TypeInv /\ Shape /\ BoundInv /\ [Next]_vars => BoundInv'
<1> SUFFICES ASSUME TypeInv, Shape, BoundInv, [Next]_vars PROVE BoundInv'
    OBVIOUS
<1>0. /\ thread_list \subseteq Slots /\ run_thread_map \subseteq Slots /\ todo \in Nat
      /\ pc \in [Slots -> WorkerPcs] /\ MaxThreads \in Nat
      /\ Cardinality(thread_list) \in Nat /\ Cardinality(run_thread_map) \in Nat
    BY SizesAreNaturals, PoolAssumption DEF TypeInv, TypeOK
<1> USE <1>0 DEF BoundInv, ThreadBound
<1>1. CASE CreateThreads
    <2>1. CASE mpc = "start"
        <3>1. thread_list = {} /\ run_thread_map = {}
            BY <2>1
        <3>2. Cardinality(thread_list) = 0 /\ Cardinality(run_thread_map) = 0
            BY <3>1, FS_EmptySet
        <3> QED
            BY <1>1, <2>1, <3>1, <3>2 DEF CreateThreads
    <2>2. CASE mpc = "grow"
        BY <1>1, <2>2 DEF CreateThreads
    <2> QED
        BY <1>1, <2>1, <2>2 DEF CreateThreads
<1>2. CASE CountFresh
    BY <1>2 DEF CountFresh
<1>3. CASE CreateEnd
    BY <1>3 DEF CreateEnd
<1>4. ASSUME NEW w \in Slots, PthreadCreate(w) PROVE BoundInv'
    <2>1. w \notin thread_list
        BY <1>4 DEF PthreadCreate, Shape, ListInv
    <2>2. Cardinality(thread_list') = Cardinality(thread_list) + 1
        BY <1>4, <2>1, SizeOfOneMore DEF PthreadCreate
    <2> QED
        BY <1>4, <2>2 DEF PthreadCreate
<1>5. CASE TestLoop \/ ReceiveOther \/ ReceiveNothing
    BY <1>5 DEF TestLoop, ReceiveOther, ReceiveNothing, mainVars, poolVars
<1>6. ASSUME NEW r \in Requests, ReceiveRequest(r) PROVE BoundInv'
    BY <1>6 DEF ReceiveRequest, poolVars
<1>7. CASE Processing \/ WakeupThreads
    BY <1>7 DEF Processing, WakeupThreads, mainVars, poolVars
<1>8. CASE Broadcast
    BY <1>8 DEF Broadcast, poolVars
<1>9. CASE CheckExitThreads
    BY <1>9 DEF CheckExitThreads
<1>10. ASSUME NEW w \in Slots, JoinThread(w) PROVE BoundInv'
    <2>1. CASE exited[w]
        <3>1. w \notin run_thread_map
            BY <1>10, <2>1 DEF JoinThread, Shape, ListInv, Seated, Asleep, Working
        <3>2. thread_list' \subseteq Slots /\ Cardinality(thread_list') <= Cardinality(thread_list)
            BY <1>10, FS_Subset, SizesAreNaturals DEF JoinThread
        <3>3. Cardinality(thread_list') \in Nat
            BY <3>2, SizesAreNaturals
        <3> QED
            BY <1>10, <2>1, <3>1, <3>2, <3>3 DEF JoinThread
    <2>2. CASE ~exited[w]
        BY <1>10, <2>2 DEF JoinThread
    <2> QED
        BY <2>1, <2>2
<1>11. CASE JoinEnd
    BY <1>11 DEF JoinEnd, mainVars, poolVars
<1>12. CASE Shutdown
    BY <1>12 DEF Shutdown, ExitAllThreads, ExitRound, ExitBroadcast, Clean, mainVars, poolVars
<1>13. CASE SigExit
    BY <1>13 DEF SigExit, poolVars
<1>14. ASSUME NEW w \in Slots, Worker(w) \/ SpuriousWakeup(w) PROVE BoundInv'
    <2>1. UNCHANGED <<mpc, todo, thread_list>> /\ run_thread_map' \subseteq run_thread_map
        BY <1>14 DEF Worker, SpuriousWakeup, Test, EnterWait, WaitTimeout, AfterTimeout,
            AfterSignal, TakeRequest, QueueEmpty, CommandDone, FinishWork, CheckIdle, Reduce,
            Leave, Unmap, SetExited, SetNotice, mainVars, poolVars
    <2> QED
        BY <2>1
<1>15. CASE UNCHANGED vars
    BY <1>15 DEF vars, mainVars, poolVars
<1> QED
    BY <1>1, <1>2, <1>3, <1>4, <1>5, <1>6, <1>7, <1>8, <1>9, <1>10, <1>11, <1>12, <1>13,
       <1>14, <1>15 DEF Next, MainThread, Startup, MainLoop, Ended

\* However growing, leaving and joining interleave, there are never more than
\* max_thread_cnt threads.
THEOREM ThreadBoundHolds == Spec => []ThreadBound
<1>1. Init => BoundInv
    BY FS_EmptySet, PoolAssumption DEF Init, BoundInv, ThreadBound
<1>2. (TypeInv /\ Shape /\ BoundInv) /\ [Next]_vars => BoundInv'
    BY NextBound
<1>3. BoundInv => ThreadBound
    BY DEF BoundInv
<1> QED
    BY <1>1, <1>2, <1>3, ShapeHolds, PTL DEF Spec
-----------------------------------------------------------------------------
(* A running server always has a thread.                                   *)

\* The pool is being filled for the first time.
Filling == mpc \in {"start", "create", "count"} /\ req = None

RemainsInv ==
    /\ mpc = "start" => req = None
    /\ Filling => thread_list \subseteq run_thread_map
    /\ ~Filling /\ mpc # "failed" /\ ~Stopping => run_thread_map # {}

LEMMA NextRemains ==
    TypeInv /\ Shape /\ ReduceInv /\ BoundInv /\ RemainsInv /\ [Next]_vars => RemainsInv'
<1> SUFFICES ASSUME TypeInv, Shape, ReduceInv, BoundInv, RemainsInv, [Next]_vars
             PROVE  RemainsInv'
    OBVIOUS
<1>0. /\ thread_list \subseteq Slots /\ run_thread_map \subseteq Slots /\ None \notin Requests
      /\ pc \in [Slots -> WorkerPcs] /\ Main \notin Slots /\ None \notin Slots /\ None # Main
      /\ mpc \in {"push", "wake", "grow", "broadcast"} => req # None
      /\ tries \in Nat
    BY PoolAssumption DEF TypeInv, TypeOK
<1> USE <1>0 DEF RemainsInv, Filling, Stopping
<1>1. CASE CreateThreads
    BY <1>1 DEF CreateThreads, BoundInv
<1>2. CASE CountFresh
    BY <1>2 DEF CountFresh
<1>3. CASE CreateEnd
    BY <1>3 DEF CreateEnd
<1>4. ASSUME NEW w \in Slots, PthreadCreate(w) PROVE RemainsInv'
    BY <1>4 DEF PthreadCreate
<1>5. CASE TestLoop \/ ReceiveOther \/ ReceiveNothing
    BY <1>5 DEF TestLoop, ReceiveOther, ReceiveNothing, mainVars, poolVars
<1>6. ASSUME NEW r \in Requests, ReceiveRequest(r) PROVE RemainsInv'
    BY <1>6 DEF ReceiveRequest, poolVars
<1>7. CASE Processing \/ WakeupThreads
    BY <1>7 DEF Processing, WakeupThreads, mainVars, poolVars
<1>8. CASE Broadcast
    BY <1>8 DEF Broadcast, poolVars
<1>9. CASE CheckExitThreads
    BY <1>9 DEF CheckExitThreads
<1>10. ASSUME NEW w \in Slots, JoinThread(w) PROVE RemainsInv'
    BY <1>10 DEF JoinThread
<1>11. CASE JoinEnd
    BY <1>11 DEF JoinEnd, mainVars, poolVars, Shape, StopInv
<1>12. CASE Shutdown
    BY <1>12 DEF Shutdown, ExitAllThreads, ExitRound, ExitBroadcast, Clean, mainVars, poolVars,
                 Shape, StopInv
<1>13. CASE SigExit
    BY <1>13 DEF SigExit, poolVars
<1>14. ASSUME NEW w \in Slots, Worker(w) \/ SpuriousWakeup(w) PROVE RemainsInv'
    <2> USE DEF mainVars, poolVars
    <2>1. CASE Moves(w) \/ CheckIdle(w)
        BY <2>1 DEF Moves, CheckIdle
    <2>2. CASE Reduce(w)
        <3>1. w \in run_thread_map
            BY <2>2 DEF Reduce, Shape, ListInv, Seated, Asleep, Working
        <3>2. Cardinality(run_thread_map') > 0
            BY <2>2, <3>1, SizeOfOneLess, SizesAreNaturals DEF Reduce, ReduceInv
        <3>3. run_thread_map' # {}
            BY <3>2, FS_EmptySet
        <3>4. ~Filling
            BY <2>2 DEF Reduce, Shape, LockInv, BoundInv, ListInv
        <3> QED
            BY <2>2, <3>3, <3>4 DEF Reduce
    <2>3. CASE Unmap(w)
        BY <2>3 DEF Unmap, Shape, LockInv, BoundInv, ListInv, StopInv
    <2>4. CASE Leave(w) \/ SetExited(w) \/ SetNotice(w)
        BY <2>4 DEF Leave, SetExited, SetNotice
    <2> QED
        BY <1>14, <2>1, <2>2, <2>3, <2>4, WorkerMoves
<1>15. CASE UNCHANGED vars
    BY <1>15 DEF vars, mainVars, poolVars
<1> QED
    BY <1>1, <1>2, <1>3, <1>4, <1>5, <1>6, <1>7, <1>8, <1>9, <1>10, <1>11, <1>12, <1>13,
       <1>14, <1>15 DEF Next, MainThread, Startup, MainLoop, Ended

\* Until ExitAllThreads, idle threads never leave the pool empty: every
\* broadcast has somebody it may reach.
THEOREM WorkerRemainsHolds == Spec => []WorkerRemains
<1>1. Init => ReduceInv /\ BoundInv /\ RemainsInv
    BY FS_EmptySet, PoolAssumption
    DEF Init, ReduceInv, BoundInv, ThreadBound, RemainsInv, Filling
<1>2. (TypeInv /\ Shape /\ (ReduceInv /\ BoundInv /\ RemainsInv)) /\ [Next]_vars
        => (ReduceInv /\ BoundInv /\ RemainsInv)'
    BY NextReduce, NextBound, NextRemains
<1>3. RemainsInv => WorkerRemains
    BY DEF RemainsInv, WorkerRemains, Filling
<1> QED
    BY <1>1, <1>2, <1>3, ShapeHolds, PTL DEF Spec
-----------------------------------------------------------------------------
(* The lock-free count of free threads is exact.                           *)

FreshInv == (mpc = "count") <=> (fresh # None)

LEMMA NextFreshInv == TypeInv /\ FreshInv /\ [Next]_vars => FreshInv'
<1> SUFFICES ASSUME TypeInv, FreshInv, [Next]_vars PROVE FreshInv'
    OBVIOUS
<1> USE PoolAssumption DEF FreshInv, mainVars
<1>1. CASE Startup
    BY <1>1 DEF Startup, CreateThreads, CountFresh, CreateEnd, PthreadCreate
<1>2. CASE MainLoop
    BY <1>2 DEF MainLoop, TestLoop, ReceiveOther, ReceiveNothing, ReceiveRequest, Processing,
                WakeupThreads, Broadcast, CheckExitThreads, JoinThread, JoinEnd
<1>3. CASE Shutdown
    BY <1>3 DEF Shutdown, ExitAllThreads, ExitRound, ExitBroadcast, Clean
<1>4. CASE SigExit
    BY <1>4 DEF SigExit
<1>5. ASSUME NEW w \in Slots, Worker(w) \/ SpuriousWakeup(w) PROVE FreshInv'
    BY <1>5 DEF Worker, SpuriousWakeup, Test, EnterWait, WaitTimeout, AfterTimeout, AfterSignal,
        TakeRequest, QueueEmpty, CommandDone, FinishWork, CheckIdle, Reduce, Leave, Unmap,
        SetExited, SetNotice
<1>6. CASE UNCHANGED vars
    BY <1>6 DEF vars
<1> QED
    BY <1>1, <1>2, <1>3, <1>4, <1>5, <1>6 DEF Next, MainThread, Ended

\* Free is changed by a thread that starts, takes up work, finishes it or goes.
LEMMA FreeSame ==
    ASSUME UNCHANGED <<fresh, free_thread_count>>, Free' = Free, FreeCountExact
    PROVE  FreeCountExact'
BY DEF FreeCountExact

LEMMA NextFreeCount ==
    TypeInv /\ Shape /\ FreshInv /\ FreeCountExact /\ [Next]_vars => FreeCountExact'
<1> SUFFICES ASSUME TypeInv, Shape, FreshInv, FreeCountExact, [Next]_vars
             PROVE  FreeCountExact'
    OBVIOUS
<1>0. /\ pc \in [Slots -> WorkerPcs] /\ free_thread_count \in Int /\ None \notin Slots
      /\ Free \subseteq Slots /\ Cardinality(Free) \in Nat
    BY PoolAssumption, SizesAreNaturals DEF TypeInv, TypeOK, Free
<1> USE <1>0 DEF Asleep, FreshInv
<1>1. CASE CreateThreads
    BY <1>1, FreeSame DEF CreateThreads, workVars, Free
<1>2. CASE CountFresh
    <2>1. Free' = Free
        BY <1>2 DEF CountFresh, workVars, Free
    <2> QED
        BY <1>2, <2>1 DEF CountFresh, FreeCountExact
<1>3. CASE CreateEnd
    BY <1>3, FreeSame DEF CreateEnd, workVars, Free
<1>4. ASSUME NEW w \in Slots, PthreadCreate(w) PROVE FreeCountExact'
    <2>1. Free' = Free \cup {w} /\ w \notin Free
        BY <1>4 DEF PthreadCreate, Free
    <2>2. Cardinality(Free') = Cardinality(Free) + 1
        BY <2>1, SizeOfOneMore
    <2> QED
        BY <1>4, <2>2 DEF PthreadCreate, FreeCountExact
<1>5. CASE TestLoop \/ ReceiveOther \/ ReceiveNothing
    BY <1>5, FreeSame DEF TestLoop, ReceiveOther, ReceiveNothing, mainVars, poolVars, workVars, Free
<1>6. ASSUME NEW r \in Requests, ReceiveRequest(r) PROVE FreeCountExact'
    BY <1>6, FreeSame DEF ReceiveRequest, poolVars, workVars, Free
<1>7. CASE Processing \/ WakeupThreads
    BY <1>7, FreeSame DEF Processing, WakeupThreads, mainVars, poolVars, workVars, Free
<1>8. CASE Broadcast
    <2>1. Free' = Free
        BY <1>8 DEF Broadcast, Woken, Free
    <2> QED
        BY <1>8, <2>1, FreeSame DEF Broadcast, poolVars
<1>9. CASE CheckExitThreads
    BY <1>9, FreeSame DEF CheckExitThreads, workVars, Free
<1>10. ASSUME NEW w \in Slots, JoinThread(w) PROVE FreeCountExact'
    <2>1. Free' = Free
        BY <1>10 DEF JoinThread, Free
    <2> QED
        BY <1>10, <2>1, FreeSame DEF JoinThread
<1>11. CASE JoinEnd
    BY <1>11, FreeSame DEF JoinEnd, mainVars, poolVars, workVars, Free
<1>12. CASE ExitAllThreads \/ ExitRound \/ Clean
    BY <1>12, FreeSame DEF ExitAllThreads, ExitRound, Clean, mainVars, poolVars, workVars, Free
<1>13. CASE ExitBroadcast
    <2>1. Free' = Free
        BY <1>13 DEF ExitBroadcast, Woken, Free
    <2> QED
        BY <1>13, <2>1, FreeSame DEF ExitBroadcast, poolVars
<1>14. CASE SigExit
    BY <1>14, FreeSame DEF SigExit, poolVars, workVars, Free
<1>15. ASSUME NEW w \in Slots, Worker(w) \/ SpuriousWakeup(w) PROVE FreeCountExact'
    <2> USE DEF Goto, mainVars, poolVars
    <2>1. CASE AfterSignal(w) /\ ~stop_req[w]
        <3>1. Free' = Free \ {w} /\ w \in Free
            BY <2>1 DEF AfterSignal, Free
        <3>2. Cardinality(Free') = Cardinality(Free) - 1
            BY <3>1, SizeOfOneLess
        <3> QED
            BY <2>1, <3>2 DEF AfterSignal, FreeCountExact
    <2>2. CASE FinishWork(w)
        <3>1. Free' = Free \cup {w} /\ w \notin Free
            BY <2>2 DEF FinishWork, Free
        <3>2. Cardinality(Free') = Cardinality(Free) + 1
            BY <3>1, SizeOfOneMore
        <3> QED
            BY <2>2, <3>2 DEF FinishWork, FreeCountExact
    <2>3. CASE Leave(w)
        <3>1. Free' = Free \ {w} /\ w \in Free
            BY <2>3 DEF Leave, Free
        <3>2. Cardinality(Free') = Cardinality(Free) - 1
            BY <3>1, SizeOfOneLess
        <3> QED
            BY <2>3, <3>2 DEF Leave, FreeCountExact
    <2>4. CASE AfterSignal(w) /\ stop_req[w]
        BY <2>4, FreeSame DEF AfterSignal, Free
    <2>5. CASE Test(w) \/ EnterWait(w) \/ WaitTimeout(w) \/ SpuriousWakeup(w)
        BY <2>5, FreeSame DEF Test, EnterWait, WaitTimeout, SpuriousWakeup, Free
    <2>6. CASE AfterTimeout(w) \/ CheckIdle(w) \/ Reduce(w)
        BY <2>6, FreeSame DEF AfterTimeout, CheckIdle, Reduce, Free
    <2>7. CASE TakeRequest(w) \/ QueueEmpty(w) \/ CommandDone(w)
        BY <2>7, FreeSame DEF TakeRequest, QueueEmpty, CommandDone, Free
    <2>8. CASE Unmap(w) \/ SetExited(w) \/ SetNotice(w)
        BY <2>8, FreeSame DEF Unmap, SetExited, SetNotice, Free
    <2> QED
        BY <1>15, <2>1, <2>2, <2>3, <2>4, <2>5, <2>6, <2>7, <2>8 DEF Worker
<1>16. CASE UNCHANGED vars
    BY <1>16, FreeSame DEF vars, mainVars, poolVars, workVars, Free
<1> QED
    BY <1>1, <1>2, <1>3, <1>4, <1>5, <1>6, <1>7, <1>8, <1>9, <1>10, <1>11, <1>12, <1>13,
       <1>14, <1>15, <1>16 DEF Next, MainThread, Startup, MainLoop, Shutdown, Ended

\* The count WakeupThreads reads without a lock is the number of threads that
\* are not at work, but for the one CreateThreads is just adding.
THEOREM FreeCountIsExact == Spec => []FreeCountExact
<1>1. Init => FreshInv /\ FreeCountExact
    <2> SUFFICES ASSUME Init PROVE FreshInv /\ FreeCountExact
        OBVIOUS
    <2>1. Free = {}
        BY DEF Init, Free, Asleep
    <2>2. Cardinality(Free) = 0
        BY <2>1, FS_EmptySet
    <2>3. fresh = None /\ free_thread_count = 0 /\ mpc = "start"
        BY DEF Init
    <2> QED
        BY <2>2, <2>3 DEF FreshInv, FreeCountExact
<1>2. (TypeInv /\ Shape /\ (FreshInv /\ FreeCountExact)) /\ [Next]_vars
        => (FreshInv /\ FreeCountExact)'
    BY NextFreshInv, NextFreeCount
<1> QED
    BY <1>1, <1>2, ShapeHolds, PTL DEF Spec
-----------------------------------------------------------------------------
(* Every request is in exactly one place.                                  *)

NoRepeat(q) == \A i, j \in 1..Len(q) : q[i] = q[j] => i = j

\* What the queue holds after a request is appended or taken off.
LEMMA QueueAppend ==
    ASSUME NEW q \in Seq(Requests), NEW r \in Requests
    PROVE  /\ ToSet(Append(q, r)) = ToSet(q) \cup {r}
           /\ NoRepeat(q) /\ r \notin ToSet(q) => NoRepeat(Append(q, r))
<1>1. /\ Len(Append(q, r)) = Len(q) + 1 /\ Len(q) \in Nat
      /\ DOMAIN q = 1..Len(q) /\ DOMAIN Append(q, r) = 1..(Len(q) + 1)
      /\ \A i \in 1..Len(q) : Append(q, r)[i] = q[i]
      /\ Append(q, r)[Len(q) + 1] = r
    OBVIOUS
<1>2. ToSet(Append(q, r)) = ToSet(q) \cup {r}
    BY <1>1 DEF ToSet
<1>3. ASSUME NoRepeat(q), r \notin ToSet(q) PROVE NoRepeat(Append(q, r))
    BY <1>1, <1>3 DEF NoRepeat, ToSet
<1> QED
    BY <1>2, <1>3

LEMMA QueueTake ==
    ASSUME NEW q \in Seq(Requests), q # <<>>, NoRepeat(q)
    PROVE  /\ ToSet(Tail(q)) = ToSet(q) \ {Head(q)}
           /\ Head(q) \in ToSet(q)
           /\ NoRepeat(Tail(q))
<1>1. /\ Len(Tail(q)) = Len(q) - 1 /\ Len(q) \in Nat \ {0} /\ Head(q) = q[1]
      /\ DOMAIN q = 1..Len(q) /\ DOMAIN Tail(q) = 1..(Len(q) - 1)
      /\ \A i \in 1..(Len(q) - 1) : Tail(q)[i] = q[i + 1]
    OBVIOUS
<1>2. ASSUME NEW x PROVE x \in ToSet(Tail(q)) <=> x \in ToSet(q) \ {Head(q)}
    <2>1. ASSUME x \in ToSet(Tail(q)) PROVE x \in ToSet(q) \ {Head(q)}
        BY <1>1, <2>1 DEF ToSet, NoRepeat
    <2>2. ASSUME x \in ToSet(q) \ {Head(q)} PROVE x \in ToSet(Tail(q))
        <3>1. PICK i \in 2..Len(q) : x = q[i]
            BY <1>1, <2>2 DEF ToSet
        <3>2. i - 1 \in 1..(Len(q) - 1) /\ Tail(q)[i - 1] = x
            BY <1>1, <3>1
        <3> QED
            BY <1>1, <3>2 DEF ToSet
    <2> QED
        BY <2>1, <2>2
<1>3. NoRepeat(Tail(q))
    <2> SUFFICES ASSUME NEW i \in 1..(Len(q) - 1), NEW j \in 1..(Len(q) - 1),
                        Tail(q)[i] = Tail(q)[j]
                 PROVE  i = j
        BY <1>1 DEF NoRepeat
    <2>1. i + 1 \in 1..Len(q) /\ j + 1 \in 1..Len(q) /\ q[i + 1] = q[j + 1]
        BY <1>1
    <2> QED
        BY <2>1, <1>1 DEF NoRepeat
<1>4. Head(q) \in ToSet(q)
    BY <1>1 DEF ToSet
<1>5. ToSet(Tail(q)) = ToSet(q) \ {Head(q)}
    BY <1>2
<1> QED
    BY <1>3, <1>4, <1>5

\* The places a request passes through are disjoint, and nobody has it twice.
PlacesInv ==
    /\ NoRepeat(rcvprocdatas)
    /\ \A w \in Slots : job[w] # None <=> pc[w] = "run"
    /\ \A v, w \in Slots : job[v] = job[w] /\ job[v] # None => v = w
    /\ \A r \in unsent : r \notin InHand \cup ToSet(rcvprocdatas) \cup Jobs \cup processed
    /\ \A r \in InHand : r \notin ToSet(rcvprocdatas) \cup Jobs \cup processed
    /\ \A r \in ToSet(rcvprocdatas) : r \notin Jobs \cup processed
    /\ \A r \in Jobs : r \notin processed
    /\ mpc # "stopped" => Requests \ Bad \subseteq
           unsent \cup InHand \cup ToSet(rcvprocdatas) \cup Jobs \cup processed

\* Steps that move no request.
Unmoved ==
    /\ UNCHANGED <<unsent, rcvprocdatas, processed, job>>
    /\ InHand' = InHand
    /\ \A w \in Slots : (pc'[w] = "run") <=> (pc[w] = "run")
    /\ mpc = "stopped" => mpc' = "stopped"

LEMMA UnmovedKeepsPlaces == PlacesInv /\ Unmoved => PlacesInv'
<1> SUFFICES ASSUME PlacesInv, Unmoved PROVE PlacesInv'
    OBVIOUS
<1>1. Jobs' = Jobs /\ InHand' = InHand
    BY DEF Unmoved, Jobs
<1> QED
    BY <1>1 DEF PlacesInv, Unmoved

LEMMA NextPlaces == TypeInv /\ PlacesInv /\ [Next]_vars => PlacesInv'
<1> SUFFICES ASSUME TypeInv, PlacesInv, [Next]_vars PROVE PlacesInv'
    OBVIOUS
<1>0. /\ pc \in [Slots -> WorkerPcs] /\ job \in [Slots -> Requests \cup {None}]
      /\ rcvprocdatas \in Seq(Requests) /\ None \notin Requests
      /\ unsent \subseteq Requests /\ processed \subseteq Requests
    BY PoolAssumption DEF TypeInv, TypeOK
<1> USE <1>0
<1>1. CASE Startup
    <2>1. Unmoved
        BY <1>1 DEF Startup, CreateThreads, CountFresh, CreateEnd, PthreadCreate, workVars,
                    Unmoved, InHand
    <2> QED
        BY <2>1, UnmovedKeepsPlaces
<1>2. CASE TestLoop \/ ReceiveOther \/ ReceiveNothing \/ WakeupThreads \/ JoinEnd
    <2>1. Unmoved
        BY <1>2 DEF TestLoop, ReceiveOther, ReceiveNothing, WakeupThreads, JoinEnd,
                    mainVars, poolVars, workVars, Unmoved, InHand
    <2> QED
        BY <2>1, UnmovedKeepsPlaces
<1>3. CASE Broadcast \/ CheckExitThreads \/ ExitAllThreads \/ ExitRound \/ ExitBroadcast \/ SigExit
    <2>1. Unmoved
        BY <1>3 DEF Broadcast, CheckExitThreads, ExitAllThreads, ExitRound, ExitBroadcast,
                    SigExit, Woken, mainVars, poolVars, workVars, Unmoved, InHand
    <2> QED
        BY <2>1, UnmovedKeepsPlaces
<1>4. ASSUME NEW w \in Slots, JoinThread(w) PROVE PlacesInv'
    <2>1. Unmoved
        BY <1>4 DEF JoinThread, Unmoved, InHand
    <2> QED
        BY <2>1, UnmovedKeepsPlaces
<1>5. ASSUME NEW r \in Requests, ReceiveRequest(r) PROVE PlacesInv'
    <2>1. /\ r \in unsent /\ unsent' = unsent \ {r} /\ InHand = {} /\ InHand' = {r}
          /\ UNCHANGED <<rcvprocdatas, processed, job, pc>> /\ mpc # "stopped"
        BY <1>5 DEF ReceiveRequest, poolVars, workVars, InHand
    <2>2. Jobs' = Jobs
        BY <2>1 DEF Jobs
    <2> QED
        BY <2>1, <2>2 DEF PlacesInv
<1>6. CASE Processing
    <2>1. /\ InHand = {req} /\ InHand' = {} /\ req \in Requests /\ mpc # "stopped"
          /\ rcvprocdatas' = Append(rcvprocdatas, req)
          /\ UNCHANGED <<unsent, processed, job, pc>>
        BY <1>6 DEF Processing, mainVars, poolVars, workVars, InHand, TypeInv
    <2>2. Jobs' = Jobs
        BY <2>1 DEF Jobs
    <2>3. req \notin ToSet(rcvprocdatas) \cup Jobs \cup processed \cup unsent
        BY <2>1 DEF PlacesInv
    <2>4. ToSet(rcvprocdatas') = ToSet(rcvprocdatas) \cup {req} /\ NoRepeat(rcvprocdatas')
        BY <2>1, <2>3, QueueAppend DEF PlacesInv
    <2> QED
        BY <2>1, <2>2, <2>3, <2>4 DEF PlacesInv
<1>7. CASE Clean
    <2>1. /\ rcvprocdatas' = <<>> /\ InHand = {} /\ InHand' = {} /\ mpc' = "stopped"
          /\ UNCHANGED <<unsent, processed, job, pc>>
        BY <1>7 DEF Clean, mainVars, poolVars, workVars, InHand
    <2>2. Jobs' = Jobs /\ ToSet(rcvprocdatas') = {} /\ NoRepeat(rcvprocdatas')
        BY <2>1 DEF Jobs, ToSet, NoRepeat
    <2> QED
        BY <2>1, <2>2 DEF PlacesInv
<1>8. ASSUME NEW w \in Slots, Worker(w) \/ SpuriousWakeup(w) PROVE PlacesInv'
    <2> USE DEF Goto, mainVars, poolVars
    <2>1. CASE Test(w) \/ EnterWait(w) \/ WaitTimeout(w) \/ SpuriousWakeup(w)
        <3>1. Unmoved
            BY <2>1 DEF Test, EnterWait, WaitTimeout, SpuriousWakeup, Unmoved, InHand
        <3> QED
            BY <3>1, UnmovedKeepsPlaces
    <2>2. CASE AfterTimeout(w) \/ AfterSignal(w) \/ QueueEmpty(w) \/ FinishWork(w) \/ CheckIdle(w)
        <3>1. Unmoved
            BY <2>2 DEF AfterTimeout, AfterSignal, QueueEmpty, FinishWork, CheckIdle,
                        Unmoved, InHand
        <3> QED
            BY <3>1, UnmovedKeepsPlaces
    <2>3. CASE Reduce(w) \/ Leave(w) \/ Unmap(w) \/ SetExited(w) \/ SetNotice(w)
        <3>1. Unmoved
            BY <2>3 DEF Reduce, Leave, Unmap, SetExited, SetNotice, Unmoved, InHand
        <3> QED
            BY <3>1, UnmovedKeepsPlaces
    <2>4. CASE TakeRequest(w)
        <3> DEFINE h == Head(rcvprocdatas)
        <3>1. /\ rcvprocdatas' = Tail(rcvprocdatas) /\ rcvprocdatas # <<>> /\ h \in Requests
              /\ UNCHANGED <<unsent, processed, mpc, req>>
            BY <2>4 DEF TakeRequest
        <3>2. /\ ToSet(rcvprocdatas') = ToSet(rcvprocdatas) \ {h} /\ h \in ToSet(rcvprocdatas)
              /\ NoRepeat(rcvprocdatas') /\ InHand' = InHand
            BY <3>1, QueueTake DEF PlacesInv, InHand
        <3>3. pc[w] = "take" /\ job[w] = None
            BY <2>4 DEF TakeRequest, PlacesInv
        <3>4. CASE h \in Bad
            <4>1. job' = job /\ Jobs' = Jobs /\ pc' = [pc EXCEPT ![w] = "finish"]
                BY <2>4, <3>4 DEF TakeRequest, Jobs
            <4> QED
                BY <3>1, <3>2, <3>3, <3>4, <4>1 DEF PlacesInv
        <3>5. CASE h \notin Bad
            <4>1. job' = [job EXCEPT ![w] = h] /\ pc' = [pc EXCEPT ![w] = "run"]
                BY <2>4, <3>5 DEF TakeRequest
            <4>2. Jobs' = Jobs \cup {h} /\ h \notin Jobs
                BY <3>1, <3>2, <3>3, <4>1 DEF Jobs, PlacesInv
            <4>3. \A u, v \in Slots : job'[u] = job'[v] /\ job'[u] # None => u = v
                <5>1. \A v \in Slots : job[v] # h
                    BY <4>2, <3>1 DEF Jobs
                <5> QED
                    BY <5>1, <4>1 DEF PlacesInv
            <4>4. \A v \in Slots : job'[v] # None <=> pc'[v] = "run"
                BY <3>1, <4>1 DEF PlacesInv
            <4> QED
                BY <3>1, <3>2, <4>2, <4>3, <4>4 DEF PlacesInv
        <3> QED
            BY <3>4, <3>5
    <2>5. CASE CommandDone(w)
        <3>1. /\ job' = [job EXCEPT ![w] = None] /\ pc' = [pc EXCEPT ![w] = "take"]
              /\ processed' = processed \cup {job[w]} /\ pc[w] = "run"
              /\ UNCHANGED <<unsent, rcvprocdatas, mpc, req>>
            BY <2>5 DEF CommandDone
        <3>2. job[w] \in Jobs /\ job[w] # None /\ InHand' = InHand
            BY <3>1 DEF PlacesInv, Jobs, InHand
        <3>3. Jobs' = Jobs \ {job[w]}
            BY <3>1, <3>2 DEF Jobs, PlacesInv
        <3>4. \A u, v \in Slots : job'[u] = job'[v] /\ job'[u] # None => u = v
            BY <3>1 DEF PlacesInv
        <3>5. \A v \in Slots : job'[v] # None <=> pc'[v] = "run"
            BY <3>1 DEF PlacesInv
        <3> QED
            BY <3>1, <3>2, <3>3, <3>4, <3>5 DEF PlacesInv
    <2> QED
        BY <1>8, <2>1, <2>2, <2>3, <2>4, <2>5 DEF Worker
<1>9. CASE UNCHANGED vars
    <2>1. Unmoved
        BY <1>9 DEF vars, mainVars, workVars, Unmoved, InHand
    <2> QED
        BY <2>1, UnmovedKeepsPlaces
<1> QED
    BY <1>1, <1>2, <1>3, <1>4, <1>5, <1>6, <1>7, <1>8, <1>9
    DEF Next, MainThread, MainLoop, Shutdown, Ended

\* Until the queue is freed by Clean no request with a command is lost, and
\* none is processed twice or by two threads at once.
THEOREM NoRequestIsLost == Spec => []NoRequestLost
<1>1. Init => PlacesInv
    <2> SUFFICES ASSUME Init PROVE PlacesInv
        OBVIOUS
    <2>1. InHand = {} /\ Jobs = {} /\ ToSet(rcvprocdatas) = {} /\ NoRepeat(rcvprocdatas)
        BY DEF Init, InHand, Jobs, ToSet, NoRepeat
    <2>2. \A w \in Slots : job[w] = None /\ pc[w] = "none"
        BY DEF Init
    <2>3. unsent = Requests /\ processed = {}
        BY DEF Init
    <2> QED
        BY <2>1, <2>2, <2>3 DEF PlacesInv
<1>2. (TypeInv /\ Shape /\ PlacesInv) /\ [Next]_vars => PlacesInv'
    BY NextPlaces
<1>3. TypeInv /\ PlacesInv => NoRequestLost
    <2> SUFFICES ASSUME TypeInv, PlacesInv PROVE NoRequestLost
        OBVIOUS
    <2>1. ASSUME NEW r \in Jobs, NEW v \in Slots, NEW w \in Slots, job[v] = r, job[w] = r
          PROVE  v = w
        BY <2>1 DEF PlacesInv, Jobs
    <2> QED
        BY <2>1 DEF PlacesInv, NoRequestLost
<1> QED
    BY <1>1, <1>2, <1>3, ShapeHolds, PTL DEF Spec
=============================================================================
