----------------------------- MODULE WorkerPool -----------------------------
(***************************************************************************)
(* The request dispatcher of the k2hdkc server: the main loop of           *)
(* K2hdkcCntrl (src/src/k2hdkccntrl.cc) and the pool of K2hdkcThread       *)
(* (src/lib/k2hdkcthread.cc) it feeds.  The main thread receives requests, *)
(* appends them to rcvprocdatas and broadcasts a condition variable;       *)
(* workers that wait on it drain the queue.  The pool grows when no worker *)
(* is free, shrinks when workers stay idle, and is torn down when a signal *)
(* ends the main loop.                                                     *)
(*                                                                         *)
(* A slot of Slots is one DKCTH_PARAM together with the thread that runs   *)
(* on it; it is reused once the thread has been joined.  What a command    *)
(* does to the data is left to the modules of the commands: here a request *)
(* is a value that is processed or, if it is in Bad, thrown away.          *)
(***************************************************************************)
EXTENDS Integers, FiniteSets, SequencesExt

CONSTANTS
    Slots,       \* thread parameter objects that may exist at once
    Requests,    \* the messages that will arrive and match no waiting command
    Bad,         \* those GetCommandReceiveObject makes no command of
    MinThreads,  \* min_thread_cnt
    MaxThreads,  \* max_thread_cnt
    ReduceIdle,  \* reduce_idlecnt
    ExitTries,   \* WAITEXIT_THREAD_TRYCNT
    Main,        \* the main thread, as an owner of list_lockval
    None         \* no request, no thread, lock not held

ASSUME PoolAssumption ==
    /\ IsFiniteSet(Slots)
    /\ Bad \subseteq Requests
    /\ MinThreads \in Nat \ {0} /\ MaxThreads \in Nat /\ MinThreads <= MaxThreads
    /\ ReduceIdle \in Nat /\ ExitTries \in Nat
    /\ Main \notin Slots /\ None \notin Slots \cup Requests \cup {Main}

VARIABLES
    mpc,                \* where the main thread is
    req,                \* the request the main thread has received
    todo,               \* threads CreateThreads has still to create
    fresh,              \* the thread it created and has not counted yet
    scan,               \* entries of thread_list JoinThreads has still to visit
    tries,              \* rounds of ExitAllThreads done
    is_loop,
    sigterm,            \* a terminating signal has been delivered
    unsent,             \* requests still to arrive
    rcvprocdatas,
    processed,          \* requests whose command ran to its end
    thread_list,
    run_thread_map,
    list_lock,          \* owner of list_lockval
    free_thread_count,
    exit_notice,
    pc,                 \* where each worker is
    stop_req,
    exited,
    idle_count,         \* counted up to ReduceIdle + 1, the bound that matters
    is_work,
    job                 \* the request a worker is processing

mainVars == <<req, todo, fresh, scan, tries, is_loop, sigterm, unsent>>
poolVars == <<thread_list, run_thread_map, list_lock, free_thread_count, exit_notice>>
workVars == <<pc, stop_req, exited, idle_count, is_work, job>>
vars == <<mpc, mainVars, rcvprocdatas, processed, poolVars, workVars>>

MainPcs == {"start", "create", "count", "loop", "receive", "push", "wake", "grow",
            "broadcast", "check", "join", "exit", "stopreq", "stopcast", "clean",
            "failed", "stopped"}
Asleep  == {"loop", "enter", "waiting", "signalled", "timedout", "idle", "reduce", "leave"}
Working == {"take", "run", "finish"}
Leaving == {"unmap", "exited", "notify", "dead"}
WorkerPcs == {"none"} \cup Asleep \cup Working \cup Leaving

\* Between the test of is_loop that fails and the end of Clean.
Stopping == mpc \in {"exit", "stopreq", "stopcast", "clean", "stopped"} \/ tries > 0

Init ==
    /\ mpc = "start"
    /\ req = None /\ todo = 0 /\ fresh = None /\ scan = {} /\ tries = 0
    /\ is_loop = FALSE /\ sigterm = FALSE
    /\ unsent = Requests /\ rcvprocdatas = <<>> /\ processed = {}
    /\ thread_list = {} /\ run_thread_map = {} /\ list_lock = None
    /\ free_thread_count = 0 /\ exit_notice = FALSE
    /\ pc = [w \in Slots |-> "none"]
    /\ stop_req = [w \in Slots |-> FALSE]
    /\ exited = [w \in Slots |-> FALSE]
    /\ idle_count = [w \in Slots |-> 0]
    /\ is_work = [w \in Slots |-> FALSE]
    /\ job = [w \in Slots |-> None]

-----------------------------------------------------------------------------
(* The main thread: Run, Processing, WakeupThreads, CreateThreads.         *)

\* CreateThreads takes list_lockval and sees how many threads it may add: as
\* many as max_thread_cnt allows when Run starts up, one when the pool grows.
CreateThreads ==
    /\ mpc \in {"start", "grow"}
    /\ list_lock = None
    /\ LET room == MaxThreads - Cardinality(run_thread_map)
       IN  todo' = IF room <= 0 THEN 0 ELSE IF mpc = "start" THEN room ELSE 1
    /\ list_lock' = Main
    /\ mpc' = "create"
    /\ UNCHANGED <<req, fresh, scan, tries, is_loop, sigterm, unsent, rcvprocdatas, processed,
                   thread_list, run_thread_map, free_thread_count, exit_notice, workVars>>

\* pthread_create and the two insertions.  The new thread runs from here on,
\* but cannot touch run_thread_map before the lock is released.
PthreadCreate(w) ==
    /\ mpc = "create" /\ todo > 0 /\ pc[w] = "none"
    /\ pc' = [pc EXCEPT ![w] = "loop"]
    /\ stop_req' = [stop_req EXCEPT ![w] = FALSE]
    /\ exited' = [exited EXCEPT ![w] = FALSE]
    /\ idle_count' = [idle_count EXCEPT ![w] = 0]
    /\ thread_list' = thread_list \cup {w}
    /\ run_thread_map' = run_thread_map \cup {w}
    /\ fresh' = w
    /\ mpc' = "count"
    /\ UNCHANGED <<req, todo, scan, tries, is_loop, sigterm, unsent, rcvprocdatas, processed,
                   list_lock, free_thread_count, exit_notice, is_work, job>>

\* increment_counter, after the thread has started: until then the thread may
\* already have taken itself off the count.
CountFresh ==
    /\ mpc = "count"
    /\ free_thread_count' = free_thread_count + 1
    /\ todo' = todo - 1
    /\ fresh' = None
    /\ mpc' = "create"
    /\ UNCHANGED <<req, scan, tries, is_loop, sigterm, unsent, rcvprocdatas, processed,
                   thread_list, run_thread_map, list_lock, exit_notice, workVars>>

\* Mutant: starts the main loop anew whenever threads were created.
CreateEndRestarts ==
    /\ mpc = "create"
    /\ todo' = 0 /\ list_lock' = None /\ is_loop' = TRUE
    /\ mpc' = IF req # None THEN "broadcast" ELSE IF thread_list = {} THEN "failed" ELSE "loop"
    /\ UNCHANGED <<req, fresh, scan, tries, sigterm, unsent, rcvprocdatas, processed,
                   thread_list, run_thread_map, free_thread_count, exit_notice, workVars>>

\* The loop of CreateThreads ends, because all threads are there or because
\* pthread_create failed.  Run gives up only when it got no thread at all.
CreateEnd ==
    /\ mpc = "create"
    /\ todo' = 0 /\ list_lock' = None
    /\ \/ req # None /\ mpc' = "broadcast" /\ UNCHANGED is_loop
       \/ req = None /\ thread_list = {} /\ mpc' = "failed" /\ UNCHANGED is_loop
       \/ req = None /\ thread_list # {} /\ mpc' = "loop" /\ is_loop' = TRUE
    /\ UNCHANGED <<req, fresh, scan, tries, sigterm, unsent, rcvprocdatas, processed,
                   thread_list, run_thread_map, free_thread_count, exit_notice, workVars>>

\* for(is_loop = true; is_loop; )
TestLoop ==
    /\ mpc = "loop"
    /\ mpc' = IF is_loop THEN "receive" ELSE "exit"
    /\ UNCHANGED <<mainVars, rcvprocdatas, processed, poolVars, workVars>>

\* Receive delivers a request that no waiting command claims.
ReceiveRequest(r) ==
    /\ mpc = "receive" /\ r \in unsent
    /\ unsent' = unsent \ {r}
    /\ req' = r
    /\ mpc' = "push"
    /\ UNCHANGED <<todo, fresh, scan, tries, is_loop, sigterm, rcvprocdatas, processed,
                   poolVars, workVars>>

\* Receive delivers a response some command waits for, or an empty body:
\* nothing is queued, but exited threads are looked for.
ReceiveOther ==
    /\ mpc = "receive"
    /\ mpc' = "check"
    /\ UNCHANGED <<mainVars, rcvprocdatas, processed, poolVars, workVars>>

\* Receive times out after RECEIVE_WAIT_MS, or the body is not safe: continue.
ReceiveNothing ==
    /\ mpc = "receive"
    /\ mpc' = "loop"
    /\ UNCHANGED <<mainVars, rcvprocdatas, processed, poolVars, workVars>>

\* Processing: the push is done under procdatas_lockval, a critical section of
\* its own, before the threads are woken.
Processing ==
    /\ mpc = "push"
    /\ rcvprocdatas' = Append(rcvprocdatas, req)
    /\ mpc' = "wake"
    /\ UNCHANGED <<mainVars, processed, poolVars, workVars>>

\* Mutant: grows without looking at the length of thread_list.
WakeupUnbounded ==
    /\ mpc = "wake"
    /\ mpc' = IF free_thread_count <= 0 THEN "grow" ELSE "broadcast"
    /\ UNCHANGED <<mainVars, rcvprocdatas, processed, poolVars, workVars>>

\* WakeupThreads reads free_thread_count without a lock.
WakeupThreads ==
    /\ mpc = "wake"
    /\ mpc' = IF free_thread_count <= 0 /\ Cardinality(thread_list) < MaxThreads
              THEN "grow" ELSE "broadcast"
    /\ UNCHANGED <<mainVars, rcvprocdatas, processed, poolVars, workVars>>

\* pthread_cond_broadcast wakes the threads that wait at this moment.
Woken == [w \in Slots |-> IF pc[w] = "waiting" THEN "signalled" ELSE pc[w]]

Broadcast ==
    /\ mpc = "broadcast"
    /\ pc' = Woken
    /\ req' = None
    /\ mpc' = "check"
    /\ UNCHANGED <<todo, fresh, scan, tries, is_loop, sigterm, unsent, rcvprocdatas, processed,
                   poolVars, stop_req, exited, idle_count, is_work, job>>

\* CheckExitThreads resets the notice first and visits the list afterwards.
CheckExitThreads ==
    /\ mpc = "check"
    /\ exit_notice' = FALSE
    /\ IF exit_notice THEN mpc' = "join" /\ scan' = thread_list
                      ELSE mpc' = "loop" /\ UNCHANGED scan
    /\ UNCHANGED <<req, todo, fresh, tries, is_loop, sigterm, unsent, rcvprocdatas, processed,
                   thread_list, run_thread_map, list_lock, free_thread_count, workVars>>

\* Mutant: drops an entry without asking whether its thread has exited.
JoinUnasked(w) ==
    /\ mpc = "join" /\ w \in scan
    /\ scan' = scan \ {w}
    /\ thread_list' = thread_list \ {w}
    /\ UNCHANGED <<mpc, req, todo, fresh, tries, is_loop, sigterm, unsent, rcvprocdatas, processed,
                   run_thread_map, list_lock, free_thread_count, exit_notice, workVars>>

\* JoinThreads at one entry.  pthread_join returns when the thread has ended.
JoinThread(w) ==
    /\ mpc = "join" /\ w \in scan
    /\ scan' = scan \ {w}
    /\ IF exited[w]
       THEN /\ pc[w] = "dead"
            /\ thread_list' = thread_list \ {w}
            /\ pc' = [pc EXCEPT ![w] = "none"]
       ELSE UNCHANGED <<thread_list, pc>>
    /\ UNCHANGED <<mpc, req, todo, fresh, tries, is_loop, sigterm, unsent, rcvprocdatas, processed,
                   run_thread_map, list_lock, free_thread_count, exit_notice,
                   stop_req, exited, idle_count, is_work, job>>

\* Mutant: takes the notice down after the visit instead of before.
JoinEndResets ==
    /\ mpc = "join" /\ scan = {}
    /\ IF tries > 0 THEN mpc' = "stopreq" ELSE mpc' = "loop"
    /\ exit_notice' = FALSE
    /\ UNCHANGED <<mainVars, rcvprocdatas, processed, thread_list, run_thread_map, list_lock,
                   free_thread_count, workVars>>

JoinEnd ==
    /\ mpc = "join" /\ scan = {}
    /\ IF tries > 0 THEN mpc' = "stopreq" ELSE mpc' = "loop"
    /\ UNCHANGED <<mainVars, rcvprocdatas, processed, poolVars, workVars>>

-----------------------------------------------------------------------------
(* The end of the main loop: ExitAllThreads and K2hdkcCntrl::Clean.        *)

ExitAllThreads ==
    /\ mpc = "exit"
    /\ mpc' = IF thread_list = {} THEN "clean" ELSE "stopreq"
    /\ UNCHANGED <<mainVars, rcvprocdatas, processed, poolVars, workVars>>

\* Mutant: no limit on the rounds.
ExitRoundUnlimited ==
    /\ mpc = "stopreq"
    /\ IF thread_list # {}
       THEN /\ stop_req' = [w \in Slots |-> stop_req[w] \/ w \in thread_list]
            /\ tries' = tries + 1
            /\ mpc' = "stopcast"
       ELSE mpc' = "clean" /\ UNCHANGED <<stop_req, tries>>
    /\ UNCHANGED <<req, todo, fresh, scan, is_loop, sigterm, unsent, rcvprocdatas, processed,
                   poolVars, pc, exited, idle_count, is_work, job>>

\* One round, of which there are at most ExitTries: ask every thread to stop,
ExitRound ==
    /\ mpc = "stopreq"
    /\ IF tries < ExitTries /\ thread_list # {}
       THEN /\ stop_req' = [w \in Slots |-> stop_req[w] \/ w \in thread_list]
            /\ tries' = tries + 1
            /\ mpc' = "stopcast"
       ELSE mpc' = "clean" /\ UNCHANGED <<stop_req, tries>>
    /\ UNCHANGED <<req, todo, fresh, scan, is_loop, sigterm, unsent, rcvprocdatas, processed,
                   poolVars, pc, exited, idle_count, is_work, job>>

\* wake all that wait, sleep 50 ms, and join those that have exited.
ExitBroadcast ==
    /\ mpc = "stopcast"
    /\ pc' = Woken
    /\ scan' = thread_list
    /\ mpc' = "join"
    /\ UNCHANGED <<req, todo, fresh, tries, is_loop, sigterm, unsent, rcvprocdatas, processed,
                   poolVars, stop_req, exited, idle_count, is_work, job>>

\* The rest of Clean: detach the storage and the bus, free what is queued.
Clean ==
    /\ mpc = "clean"
    /\ rcvprocdatas' = <<>>
    /\ mpc' = "stopped"
    /\ UNCHANGED <<mainVars, processed, poolVars, workVars>>

\* SigHupHandler and SigExitHandler run at any time once they are installed,
\* which Initialize does before Run.
SigExit ==
    /\ mpc # "stopped" /\ ~sigterm
    /\ is_loop' = FALSE /\ sigterm' = TRUE
    /\ UNCHANGED <<mpc, req, todo, fresh, scan, tries, unsent, rcvprocdatas, processed,
                   poolVars, workVars>>

-----------------------------------------------------------------------------
(* A worker: K2hdkcThread::WorkerProc, which calls K2hdkcCntrl::WorkerProc. *)

Goto(w, l) == pc' = [pc EXCEPT ![w] = l]

\* The head of the loop reads stop_req ...
Test(w) ==
    /\ pc[w] = "loop"
    /\ Goto(w, IF stop_req[w] THEN "leave" ELSE "enter")
    /\ UNCHANGED <<mpc, mainVars, rcvprocdatas, processed, poolVars,
                   stop_req, exited, idle_count, is_work, job>>

\* ... and the wait is entered later, without a look at rcvprocdatas.
EnterWait(w) ==
    /\ pc[w] = "enter"
    /\ Goto(w, "waiting")
    /\ UNCHANGED <<mpc, mainVars, rcvprocdatas, processed, poolVars,
                   stop_req, exited, idle_count, is_work, job>>

\* pthread_cond_timedwait returns ETIMEDOUT,
WaitTimeout(w) ==
    /\ pc[w] = "waiting"
    /\ Goto(w, "timedout")
    /\ UNCHANGED <<mpc, mainVars, rcvprocdatas, processed, poolVars,
                   stop_req, exited, idle_count, is_work, job>>

\* or 0 without a broadcast, which POSIX allows it to.
SpuriousWakeup(w) ==
    /\ pc[w] = "waiting"
    /\ Goto(w, "signalled")
    /\ UNCHANGED <<mpc, mainVars, rcvprocdatas, processed, poolVars,
                   stop_req, exited, idle_count, is_work, job>>

Idler(w) == [idle_count EXCEPT ![w] = IF @ > ReduceIdle THEN @ ELSE @ + 1]

\* Mutant: a timeout is not counted as an idle turn.
AfterTimeoutUncounted(w) ==
    /\ pc[w] = "timedout"
    /\ Goto(w, IF stop_req[w] THEN "leave" ELSE "idle")
    /\ UNCHANGED <<mpc, mainVars, rcvprocdatas, processed, poolVars,
                   stop_req, exited, idle_count, is_work, job>>

\* After a timeout the thread counts one more idle turn and does not look for
\* work.
AfterTimeout(w) ==
    /\ pc[w] = "timedout"
    /\ IF stop_req[w] THEN Goto(w, "leave") /\ UNCHANGED idle_count
                      ELSE Goto(w, "idle") /\ idle_count' = Idler(w)
    /\ UNCHANGED <<mpc, mainVars, rcvprocdatas, processed, poolVars,
                   stop_req, exited, is_work, job>>

AfterSignal(w) ==
    /\ pc[w] = "signalled"
    /\ IF stop_req[w]
       THEN Goto(w, "leave") /\ UNCHANGED <<free_thread_count, is_work>>
       ELSE /\ Goto(w, "take")
            /\ free_thread_count' = free_thread_count - 1
            /\ is_work' = [is_work EXCEPT ![w] = FALSE]
    /\ UNCHANGED <<mpc, mainVars, rcvprocdatas, processed, thread_list, run_thread_map,
                   list_lock, exit_notice, stop_req, exited, idle_count, job>>

\* Mutant: reads the front of the queue and does not erase it.
TakeNoErase(w) ==
    /\ pc[w] = "take" /\ rcvprocdatas # <<>>
    /\ IF Head(rcvprocdatas) \in Bad
       THEN Goto(w, "finish") /\ UNCHANGED job
       ELSE Goto(w, "run") /\ job' = [job EXCEPT ![w] = Head(rcvprocdatas)]
    /\ UNCHANGED <<mpc, mainVars, rcvprocdatas, processed, poolVars,
                   stop_req, exited, idle_count, is_work>>

\* The loop of K2hdkcCntrl::WorkerProc takes the oldest request under
\* procdatas_lockval.  It ends at an empty queue, and also after a request it
\* can make no command of.
TakeRequest(w) ==
    /\ pc[w] = "take" /\ rcvprocdatas # <<>>
    /\ rcvprocdatas' = Tail(rcvprocdatas)
    /\ IF Head(rcvprocdatas) \in Bad
       THEN Goto(w, "finish") /\ UNCHANGED job
       ELSE Goto(w, "run") /\ job' = [job EXCEPT ![w] = Head(rcvprocdatas)]
    /\ UNCHANGED <<mpc, mainVars, processed, poolVars, stop_req, exited, idle_count, is_work>>

\* Mutant: ends the loop without having looked at the queue.
QueueUnseen(w) ==
    /\ pc[w] = "take"
    /\ Goto(w, "finish")
    /\ UNCHANGED <<mpc, mainVars, rcvprocdatas, processed, poolVars,
                   stop_req, exited, idle_count, is_work, job>>

QueueEmpty(w) ==
    /\ pc[w] = "take" /\ rcvprocdatas = <<>>
    /\ Goto(w, "finish")
    /\ UNCHANGED <<mpc, mainVars, rcvprocdatas, processed, poolVars,
                   stop_req, exited, idle_count, is_work, job>>

\* CommandProcess returns, whatever its result, and the command is deleted.
CommandDone(w) ==
    /\ pc[w] = "run"
    /\ processed' = processed \cup {job[w]}
    /\ job' = [job EXCEPT ![w] = None]
    /\ is_work' = [is_work EXCEPT ![w] = TRUE]
    /\ Goto(w, "take")
    /\ UNCHANGED <<mpc, mainVars, rcvprocdatas, poolVars, stop_req, exited, idle_count>>

\* Mutant: does not count itself free again.
FinishUncounted(w) ==
    /\ pc[w] = "finish"
    /\ idle_count' = IF is_work[w] THEN [idle_count EXCEPT ![w] = 0] ELSE Idler(w)
    /\ Goto(w, "idle")
    /\ UNCHANGED <<mpc, mainVars, rcvprocdatas, processed, poolVars,
                   stop_req, exited, is_work, job>>

FinishWork(w) ==
    /\ pc[w] = "finish"
    /\ free_thread_count' = free_thread_count + 1
    /\ idle_count' = IF is_work[w] THEN [idle_count EXCEPT ![w] = 0] ELSE Idler(w)
    /\ Goto(w, "idle")
    /\ UNCHANGED <<mpc, mainVars, rcvprocdatas, processed, thread_list, run_thread_map,
                   list_lock, exit_notice, stop_req, exited, is_work, job>>

\* Mutant: off by one in both comparisons.
CanReduceOffByOne ==
    MinThreads <= Cardinality(run_thread_map) /\ 1 <= Cardinality(run_thread_map)

\* A thread idle for too long tries the lock once, and asks under it whether
\* the pool can do without it.
CanReduce == MinThreads < Cardinality(run_thread_map) /\ 1 < Cardinality(run_thread_map)

\* Mutant: goes on although the lock is held.
CheckIdleUnlocked(w) ==
    /\ pc[w] = "idle"
    /\ IF ReduceIdle < idle_count[w] /\ CanReduce
       THEN Goto(w, "reduce") /\ list_lock' = w
       ELSE Goto(w, "loop") /\ UNCHANGED list_lock
    /\ UNCHANGED <<mpc, mainVars, rcvprocdatas, processed, thread_list, run_thread_map,
                   free_thread_count, exit_notice, stop_req, exited, idle_count, is_work, job>>

CheckIdle(w) ==
    /\ pc[w] = "idle"
    /\ IF ReduceIdle < idle_count[w] /\ list_lock = None /\ CanReduce
       THEN Goto(w, "reduce") /\ list_lock' = w
       ELSE Goto(w, "loop") /\ UNCHANGED list_lock
    /\ UNCHANGED <<mpc, mainVars, rcvprocdatas, processed, thread_list, run_thread_map,
                   free_thread_count, exit_notice, stop_req, exited, idle_count, is_work, job>>

Reduce(w) ==
    /\ pc[w] = "reduce"
    /\ run_thread_map' = run_thread_map \ {w}
    /\ list_lock' = None
    /\ Goto(w, "leave")
    /\ UNCHANGED <<mpc, mainVars, rcvprocdatas, processed, thread_list,
                   free_thread_count, exit_notice, stop_req, exited, idle_count, is_work, job>>

\* After the loop: off the count, off the map, and only then exited and noticed.
Leave(w) ==
    /\ pc[w] = "leave"
    /\ free_thread_count' = free_thread_count - 1
    /\ Goto(w, "unmap")
    /\ UNCHANGED <<mpc, mainVars, rcvprocdatas, processed, thread_list, run_thread_map,
                   list_lock, exit_notice, stop_req, exited, idle_count, is_work, job>>

Unmap(w) ==
    /\ pc[w] = "unmap" /\ list_lock = None
    /\ run_thread_map' = run_thread_map \ {w}
    /\ Goto(w, "exited")
    /\ UNCHANGED <<mpc, mainVars, rcvprocdatas, processed, thread_list, list_lock,
                   free_thread_count, exit_notice, stop_req, exited, idle_count, is_work, job>>

SetExited(w) ==
    /\ pc[w] = "exited"
    /\ exited' = [exited EXCEPT ![w] = TRUE]
    /\ Goto(w, "notify")
    /\ UNCHANGED <<mpc, mainVars, rcvprocdatas, processed, poolVars,
                   stop_req, idle_count, is_work, job>>

SetNotice(w) ==
    /\ pc[w] = "notify"
    /\ exit_notice' = TRUE
    /\ Goto(w, "dead")
    /\ UNCHANGED <<mpc, mainVars, rcvprocdatas, processed, thread_list, run_thread_map,
                   list_lock, free_thread_count, stop_req, exited, idle_count, is_work, job>>
-----------------------------------------------------------------------------
Startup == CreateThreads \/ CountFresh \/ CreateEnd \/ \E w \in Slots : PthreadCreate(w)

MainLoop ==
    \/ TestLoop \/ ReceiveOther \/ ReceiveNothing
    \/ \E r \in Requests : ReceiveRequest(r)
    \/ Processing \/ WakeupThreads \/ Broadcast \/ CheckExitThreads
    \/ \E w \in Slots : JoinThread(w)
    \/ JoinEnd

Shutdown == ExitAllThreads \/ ExitRound \/ ExitBroadcast \/ Clean

MainThread == Startup \/ MainLoop \/ Shutdown

\* What a worker does on its own; a spurious wakeup is nobody's duty.
Worker(w) ==
    \/ Test(w) \/ EnterWait(w) \/ WaitTimeout(w)
    \/ AfterTimeout(w) \/ AfterSignal(w)
    \/ TakeRequest(w) \/ QueueEmpty(w) \/ CommandDone(w) \/ FinishWork(w)
    \/ CheckIdle(w) \/ Reduce(w)
    \/ Leave(w) \/ Unmap(w) \/ SetExited(w) \/ SetNotice(w)

\* The process has ended, or Run has failed and nothing was started.
Ended ==
    /\ mpc \in {"stopped", "failed"}
    /\ \A w \in Slots : pc[w] \in {"none", "dead"}
    /\ UNCHANGED vars

Next ==
    \/ MainThread \/ SigExit \/ Ended
    \/ \E w \in Slots : Worker(w) \/ SpuriousWakeup(w)

Spec == Init /\ [][Next]_vars

\* Every thread that can run keeps running: a timed wait returns, a command
\* ends (its own waits have timeouts) and Receive returns after its timeout.
\* Messages and signals need not come.
Fairness == WF_vars(MainThread) /\ \A w \in Slots : WF_vars(Worker(w))

FairSpec == Spec /\ Fairness

-----------------------------------------------------------------------------
(* Properties.                                                             *)

\* The type invariant.
TypeOK ==
    /\ mpc \in MainPcs
    /\ req \in Requests \cup {None}
    /\ todo \in Nat
    /\ fresh \in Slots \cup {None}
    /\ scan \subseteq Slots
    /\ tries \in 0..ExitTries
    /\ is_loop \in BOOLEAN /\ sigterm \in BOOLEAN
    /\ unsent \subseteq Requests /\ rcvprocdatas \in Seq(Requests) /\ processed \subseteq Requests
    /\ thread_list \subseteq Slots /\ run_thread_map \subseteq Slots
    /\ list_lock \in Slots \cup {Main, None}
    /\ free_thread_count \in Int
    /\ exit_notice \in BOOLEAN
    /\ pc \in [Slots -> WorkerPcs]
    /\ stop_req \in [Slots -> BOOLEAN] /\ exited \in [Slots -> BOOLEAN]
    /\ idle_count \in [Slots -> 0..ReduceIdle + 1]
    /\ is_work \in [Slots -> BOOLEAN]
    /\ job \in [Slots -> Requests \cup {None}]

\* However growing (checked against thread_list by WakeupThreads and against
\* run_thread_map by CreateThreads) and joining interleave with threads that
\* leave, there are never more than max_thread_cnt parameter objects.
ThreadBound ==
    /\ run_thread_map \subseteq thread_list
    /\ Cardinality(thread_list) <= MaxThreads

\* free_thread_count, changed by three parties without any lock, is the number
\* of threads in the pool that are not at work.  The one exception is a thread
\* that CreateThreads has started and not yet counted: it may already have
\* taken itself off, which is how the count can drop to -1.
Free == {w \in Slots : pc[w] \in Asleep}
FreeCountExact ==
    free_thread_count = Cardinality(Free) - (IF fresh = None THEN 0 ELSE 1)

\* A thread that has set its exited flag is never forgotten: the notice is (or
\* is about to be) up, or JoinThreads has still to visit the thread.
ExitNotMissed ==
    \A w \in thread_list :
        exited[w] => \/ exit_notice
                     \/ pc[w] = "notify"
                     \/ mpc = "join" /\ w \in scan
                     \/ Stopping

\* Idle threads never reduce the pool to nothing while the server runs, so
\* that there is always a thread a broadcast can reach.
WorkerRemains ==
    mpc \notin {"start", "create", "count", "failed"} /\ ~Stopping
        => run_thread_map # {}

\* A thread that goes without having been asked leaves at least min_thread_cnt
\* behind, even when several find themselves superfluous at once.
ReduceKeepsMinimum ==
    [][\A w \in run_thread_map \ run_thread_map' :
            ~stop_req[w] /\ pc[w] = "reduce" => Cardinality(run_thread_map') >= MinThreads]_vars

\* Until Clean frees the queue no request that has a command is lost, and none
\* is in two hands or processed twice, whoever takes it from the queue.
InHand == IF mpc = "push" THEN {req} ELSE {}
Jobs   == {job[w] : w \in Slots} \ {None}
NoRequestLost ==
    /\ mpc # "stopped" => Requests \ Bad \subseteq
           unsent \cup InHand \cup ToSet(rcvprocdatas) \cup Jobs \cup processed
    /\ \A r \in Jobs : /\ r \notin unsent \cup InHand \cup ToSet(rcvprocdatas) \cup processed
                       /\ \A v, w \in Slots : job[v] = r /\ job[w] = r => v = w

\* When ExitAllThreads ends with an empty list no thread is left that could
\* use the storage and the bus Clean then detaches: the list misses nobody.
\* (After ExitTries rounds it may end with threads still at work.)
StopComplete ==
    mpc \in {"clean", "stopped"} /\ thread_list = {} => \A w \in Slots : pc[w] = "none"

\* A request at the head of the queue is taken once a worker has been woken,
\* unless the server is told to stop first.
HeadIsTaken ==
    \A r \in Requests :
        (/\ rcvprocdatas # <<>> /\ Head(rcvprocdatas) = r
         /\ \E w \in Slots : pc[w] = "signalled" /\ ~stop_req[w])
            ~> (r \notin ToSet(rcvprocdatas))

\* With nothing left to do the pool shrinks to min_thread_cnt (docs/k2hdkc.1,
\* line 213: the time "for reducing processing thread to minimum thread count").
PoolShrinks ==
    (mpc = "receive") ~> (Cardinality(run_thread_map) <= MinThreads \/ Stopping)

\* Once the main loop runs, a signal that ends it stops the process, whatever
\* the threads are doing.
LoopEndStops == (mpc = "receive" /\ ~is_loop) ~> (mpc = "stopped")

-----------------------------------------------------------------------------
(* What comments of the code say and its behaviour does not keep.          *)

\* "dispatch thread" (src/src/k2hdkccntrl.cc:548) and "wakeup one thread"
\* (src/lib/k2hdkcthread.cc:476): what Processing has queued gets to a thread.
Dispatched == \A r \in Requests : (r \in ToSet(rcvprocdatas)) ~> (r \notin ToSet(rcvprocdatas))
=============================================================================
