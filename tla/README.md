# k2hdkc in TLA+

k2hdkc is a distributed key value store: server processes, each with a part of the data in a
K2HASH storage, joined into one cluster by the bus CHMPX.  A client sends a command to the server
that the hash of its key selects; that server executes it and passes the result on to the other
servers that hold a copy of the key.  This directory specifies the parts of the program where
several actors (threads of one server, servers, clients) meet, model-checks them with TLC on small
instances, and proves safety properties of every one of these parts, and two refinements, for any
size with TLAPS.

Contents: [inventory](#inventory-of-the-system), [the modules and the
code](#the-modules-and-the-code), [runs](#runs), [fairness](#fairness), [where the code differs from
what it says](#where-the-code-differs-from-what-it-says), [proofs](#proofs), [what is
assumed](#what-is-assumed-of-the-outside), [what is not modelled](#what-is-not-modelled-and-why),
[plan](#plan).

## Inventory of the system

Paths are relative to `src/` (so `src/k2hdkccntrl.cc` is `src/src/k2hdkccntrl.cc` from the root).

| Component | Code | State | Operations |
|---|---|---|---|
| Main loop | `src/k2hdkccntrl.cc` (`Run`, `Processing`, `WorkerProc`, `Clean`, signal handlers) | `is_loop`, `rcvprocdatas` | receive a message, hand it to a waiting command or queue it, wake the pool, join exited threads, stop |
| Thread pool | `lib/k2hdkcthread.cc` | `thread_list`, `run_thread_map`, `list_lockval`, `free_thread_count`, `exit_notice`; of each thread `stop_req`, `exited`, `idle_count`, `is_work` | create, wake, work, shrink, join, stop all |
| Waiting on the server | `src/k2hdkccntrl.cc` (wait map), `lib/k2hdkccombase.cc` (`CommandSending`, `SetReceiveData`) | `waitmap`; of a command `TriggerResponse`, its received data, mutex and condition | enter, send, wait with timeout, hand over a response, remove |
| Commands on one key | `lib/k2hdkccom{get,set,setall,del,setsubkeys,addsubkeys,delsubkeys,casinit,casset,casincdec}.cc` | the element of a key: value, subkeys, attributes with mtime; lock of the key | one `CommandProcessing` each: lock, read, check, write, unlock, answer |
| Replication | `lib/k2hdkccombase.cc` (`CommandReplicate`), `lib/k2hdkccomdel.cc`, `k2hdkccomreplkey.cc`, `k2hdkccomrepldel.cc` | none of its own | read the key, send REPL_KEY or REPL_DEL; apply it |
| Queues | `lib/k2hdkccomqpush.cc`, `k2hdkccomqpop.cc` | marker key, keys of the elements and their links, keys of the values | push, pop, in eight or so nested steps |
| Deletion from a queue | `lib/k2hdkccomqdel.cc` | a counter on the client | QPOP until the count is reached or one fails |
| Rename | `lib/k2hdkccomren.cc` | two keys and a parent list | copy to the new key, remove the old one, change the parent list |
| Composite commands | `lib/k2hdkccomaddsubkey.cc`, `k2hdkccomdelsubkey.cc`, sending side of `k2hdkccomdel.cc` | none | sequences of the commands above sent by the client |
| Other reads, SET_DIRECT | `lib/k2hdkccomget{attr,attrs,subkeys,direct}.cc`, `k2hdkccomcasget.cc`, `k2hdkccomsetdirect.cc` | the element of a key | read or write a part of it |
| State commands | `lib/k2hdkccomstate.cc`, `k2hdkccomk2hstate.cc` | none | report |
| Factory and messages | `lib/k2hdkccombase.cc`, `lib/k2hdkccomstructure.h` | none | build objects and messages |
| Communication number | `lib/k2hdkccomnum.cc` | a counter | next number, 0 unless debugging is on |
| Slave session | `lib/k2hdkcslave.cc` | of a handle: message id, last response code | open, close, make a command, keep the code |
| Client interface | `lib/k2hdkc.cc`, `lib/k2hdkc.h`, client part of `CommandSending` | the handle, or a message id for one call; responses that wait on it | one function per command, permanent and one-time |
| Start-up, configuration, debugging, tools and tests | `src/k2hdkcmain.cc`, `src/k2hdkcopts.cc`, `src/k2hdkcconfparser.cc`, `lib/k2hdkcutil.cc`, `lib/k2hdkcdbg.cc`, `tests/` | options | - |

How they interact.  The main thread is the only one that receives.  A response whose number and
type are in the wait map goes straight to the waiting command object, under that object's mutex;
everything else is appended to `rcvprocdatas`, and a worker of the pool makes a command of it.
A worker that executes a queue command or a rename sends nested commands to other servers (often
to its own), and sleeps on the wait map until the main thread hands it the response.  After a
change the worker answers the client and then sends the key to the other servers; there a worker
applies it, compared by mtime with what is there.

What is hard in it, and what makes each part correct:

- *Pool.*  Three parties change the counts and the two containers, under different locks or none.
  The pool must stay within its bounds, its lock-free count must be right, an exited thread must
  be joined, the reduction must stop at the minimum, requests must be neither lost nor processed
  twice, and nothing may use the storage after it is detached.
- *Waiting.*  Flag, condition and map are three pieces of state with three protections; responses
  come late, twice or never, and the wait itself may fail.  A success must have a fitting response, an
  object must leave the map before it is deleted, and every sender must return.
- *One key.*  K2HDALock protects the CAS commands from each other and from every other access; SET,
  ADD_SUBKEYS and replication take no lock or release it early.  The value should be an atomic
  register, no early return, after a refusal or a failing call of the storage, may leave the key
  locked, and the copies must agree in the end as far as the replications get there, of which none
  is repeated.
- *Client.*  A call is one request or several, each answered by the first response that comes on
  the message id, whatever it answers.  A success must mean that what the call needs was served,
  the response code must be that of the last call, and message ids must be closed.
- *Several keys.*  ADD_SUBKEY, DEL_SUBKEY, DEL and REN change keys of different servers with
  nothing to hold the requests together.  A value must not get lost on its way to a new name, a
  reported success must be complete, and lists must not name what is not there, or one must know
  from which failures they may.
- *Queues.*  One push or pop is a sequence of changes on several servers without a lock, and any
  step may fail.  Together the steps must still be a queue.

`PROJECT.json` lists every component with its state of modelling, and under `hazards` the places
of the code where these things bite, each with the property that watches it.

## The modules and the code

Names of actions and variables are those of the code where it has one.  `PROJECT.json` maps each
definition to its lines.  A definition whose comment begins with "Mutant" is a plausible bug in
the definition after it; no specification uses it, and it shows that a property would notice.

| Module | What it is |
|---|---|
| `WorkerPool` | main loop and pool |
| `WorkerPoolProofs` | theorems about it |
| `WaitResponse` | commands that wait on a server for a response |
| `WaitResponseProofs` | theorems about it |
| `KeyRegister` | abstract: the value of a key is an atomic register |
| `KeyCommands` | commands on one key and their replication; implements `KeyRegister` |
| `KeyCommandsProofs` | theorems about the commands at the primary, with the refinement, and about the copies |
| `LossyQueue` | abstract: a queue, which failures may shorten |
| `DkcQueue` | QPUSH and QPOP; implements `LossyQueue` |
| `DkcQueueProofs` | theorems about it |
| `DkcQueueOrderProofs` | the refinement, and what the storage holds |
| `Commands` | the messages of all commands, the factories, the requests composite commands consist of |
| `ClientSession` | the C interface, handles, one client's half of the exchange of messages; extends `Commands` |
| `ClientSessionProofs` | theorems about it, and about the messages of `Commands` |
| `CompositeCommands` | commands over several keys, client and server side; extends `Commands` |
| `CompositeCommandsProofs` | theorems about it: types, and that renaming keeps the value |
| `CompositeCallsProofs` | what whole calls leave behind: success is complete, lists and values match |
| `MC*` | constants and symmetry for the runs |

### WorkerPool

`mpc` is the place of the main thread in `Run` and what it calls, `pc[w]` that of a worker in
`K2hdkcThread::WorkerProc`.  A member of `Slots` is a `DKCTH_PARAM` and its thread; it can be
used again when it has been joined.  Each access to a shared variable is a step of its own where
no lock makes several into one: `free_thread_count` is read in `WakeupThreads` and changed in
`CountFresh`, `AfterSignal`, `FinishWork` and `Leave`.  `CheckIdle` is `trylock`: it goes back to
the loop when the lock is held.  `list_lock` is held by `Main` from `CreateThreads` to
`CreateEnd`, by a worker at "reduce", and for the single step `Unmap`.  The queue's
lock always covers one access, so `Processing` and `TakeRequest` are single steps.
`pthread_cond_broadcast` moves the workers that wait at that moment (`Woken`), and
`SpuriousWakeup` any of them at any moment.  A message in `Bad` is one for which the factory
returns no command: it ends the drain loop.  `ReceiveOther` is a response that
a waiting command claims.  `idle_count` is counted up to `ReduceIdle + 1`, above which the code's
comparison cannot tell values apart.

### WaitResponse

A member of `Commands` is one command object from `new` to `delete`, whichever thread owns it.
`KeyOf` gives its pair of communication number and type; as the number is 0 unless debugging is on,
commands of one type share their entry, and the runs have two commands that do. The main thread
finds an object under the lock of the map and erases the entry (`FindWaitCommandObject`), then
touches the object three times (`StoreResponse`, `RaiseTrigger`, `Notify`); the sender may return
and delete it between any two of them, which is `TouchDeleted`. `TestTrigger` and `EnterWait` are
two steps because the code tests the flag without the mutex. A wait ends in one of five ways:
`Notify` or `SpuriousWakeup` (return code 0 or `EINTR`, which test the flag again), `WaitTimeout`,
`LockFails` (the mutex cannot be locked, line 1074) and `WaitFails` (any other error of
`pthread_cond_timedwait`, line 1101, which the code takes for a success).  The last three raise the
flag and return without removing the entry.  `MaxErrors` bounds the last two.  `NotifyFails` is the
main thread that cannot lock the mutex or broadcast; the waiting thread then runs into its timeout,
unless a spurious wakeup comes first. Identity of an object is never reused, unlike an address: the
case in which a new object at the old address counts as already entered is left out.

### KeyCommands and KeyRegister

`store[s]` is the element at server `s`; the commands run at `Primary`, replications at the
others.  Every call of K2HASH is a step, which waits while another command holds the lock
(`Access`).  Ten commands share the steps: `Lock`, the check under it (`CasRefused`, `CasAccepted`,
`AddSubkey`, `DelSubkeyEarly`, `DelSubkey`), the write, `Unlock` (before the write for subkeys,
after it for CAS, as in the code), `Stamp`, `ReplyResponse` or `ReplyFails`, the reads of
`CommandReplicate` one by one, and the sending.  `net` is a set: replications are delayed, reordered
and lost (`Lose`), and no server gets one twice, as the bus does not repeat. Any call may fail,
`MaxFaults` of them in all.  A write that fails (`WriteFails`), and a list that cannot be extended or
serialized (`EditFails`), end the command with an error, under the lock or not.  A read that fails is
taken for an absent value or list: `ReadFails` where the command ends with that answer,
`ReadSubkeysFails` where it goes on (SET writes no list back, ADD_SUBKEYS one with nothing but the
new subkey), `CopyFails` in `CommandReplicate`, and `ReplDelMisreads` in REPL_DEL.  `ReplicateFails`
is the sending after which the code says "but continue...", `ReplKeyFails` and `ReplDelFails` are
replications that arrive and are not written.  `missed` and `misread` keep of these what the
properties need: which server has missed which replication, and who has copied what could not be
read.  Numbers have the width `Modulus`, so that counting wraps, and `Text` is a value of another
length. `Coarse` lets two readings of the clock be equal, as `CLOCK_REALTIME_COARSE` may; no run
sets it, because equal times defeat the comparison of mtime and no text promises otherwise.

`KeyRegister` has one step per command that changes value and outcome together, or fails (`Fail`)
and leaves the value.  The refinement maps `value` to the value at `Primary`, `asked` to `request`,
`outcome` to `outcome`.

### DkcQueue and LossyQueue

An element is named by the command that pushes it, as `GetUniqKey` makes its name.  `marker` names
first and last element, `subs[e]` is the link, `stored` holds the elements with a value, `held` the
values of a key queue.  The bracketed numbers in the comments are those of the comments in the
code.  `StepFails` is any nested command or storage call that fails where the code returns early;
`Unanswered` one that was executed and whose response did not come; `GetExKeyFails` (a marker that
cannot be read is taken for an empty queue, and the new element is linked to nothing), `ChainFails`,
`GetNextKeyFails`, `ReplicateFails` and `ReplyFails` are the failures the code treats otherwise. A
nested command is executed before its caller goes on or not at all: one that is executed after the
caller has given up waiting is left out.  Such an ADD_SUBKEYS would link elements the model takes for
lost, such a DEL erase one the model leaves behind. `MaxFaults` bounds all of these.  With
`Concurrent` FALSE a command begins when the others have ended.

`LossyQueue` is a sequence.  Push appends or prepends, Pop takes the head; after a failure (`lossy`)
elements may be lost from the far end, and a lifo push may find itself alone.  The mapping follows
the links from `marker.top`, and counts a link that `Chain` is about to add as there.

### Commands

No state: for each command what its sender puts into the message (`GetRequest` ...: offsets of the
parts, fields, the part whose hash selects the server, what it refuses to send without) and what its
server does with it (`GetServer` ...: parts and fields it reads, what it answers INVAL without,
kinds of answer it may give).  The two halves come from different functions of the code, and nothing
in the module makes them agree; `RequestUnderstood` checks that they do.  The two factories are
`SendObject` and `ReceiveObject`.  `AddSubkeySteps`, `DelSubkeySteps`, `DelSteps`, `RenSteps`,
`QDelSteps` and `StateSteps` are the composite commands as sequences of requests, with what becomes
of the command when one of them fails or is answered by an error.

### ClientSession

`Functions` gives each family of functions the requests of its command, the way its response code is
made, and two peculiarities of the code: whether the object is compared with NULL, and whether it is
released after a failure.  `BeginPermanent` uses the message id of the handle, `BeginOneTime` a new
one.  `Send`, `SendFails`, `TimeOut` and `Receive` are the client's part of `CommandSending`, once
for every request of the call; `Return` is the rest of the function with the destructor of the
command.  `Serve` is any server: it serves the request at some time, with any answer its handler has,
and the response arrives or not.  A lost request is one never served.

### CompositeCommands

`client[c]` is a call with the requests it has still to make (`todo`); `Following` and `DeletedThen`
extend this list as K2hdkcComDel goes down the lists, and `Proceed` ends the call or goes on by the
rules in `Commands`.  `Serve` is a whole request at the server of its key, atomic here because
`KeyCommands` has its steps.  REN is not: `RenRead` is the part under the lock, `ServeSetAll` the
request at the other server, in time or not, `RenFails` the ways in which it ends without,
`RenRemove` and `RenKeepsBoth` the removal.  `work` are the renamings between the two.  `overlap`,
`flaws`, `written` and `excused` are history for the properties.

## Runs

| Run | Question | States (distinct) | Bounds |
|---|---|---|---|
| `pool_safety` | do counts, list, map and queue stay consistent in every interleaving? | 1.1 million | 4 slots, 1 request, threads 1 to 3, one shutdown round, symmetric slots |
| `pool_liveness` | is a request taken once a worker is woken, does the pool shrink, does it stop? | 294 thousand | 2 slots, 2 requests of which one is bad, threads 1 to 2 |
| `pool_stranded` | (counterexample) is every queued request taken? | - | 2 slots, 1 request |
| `wait_response` | can a sender be given the wrong answer, or none? what is left in the map? | 258 thousand | 3 commands, two of one key, 2 answers each, 1 wait that fails |
| `wait_dangling` | (counterexample) | - | 3 commands, 1 answer |
| `kv_commands` | is the value a register, is every command answered, do copies agree? | 305 thousand | 2 servers, 2 commands out of 11 kinds, numbers modulo 3, 1 failure |
| `kv_lost_subkey` | (counterexample) | - | 2 ADD_SUBKEYS |
| `queue_serial` | do the steps make a queue, whichever one fails? | 189 thousand | 5 commands, 1 failure, symmetric commands |
| `queue_collision` | (counterexample) | - | 3 overlapping commands, no failure |
| `session` | is what a call returns true, are codes its own, message ids closed, requests understood? | 142 thousand | 1 thread, 2 calls (any function, then one of four), 2 message ids |
| `session_stale` | (counterexample) is a success that of the call? | - | the same |
| `composite` | do renamings keep the value, is a success complete, what may be wrong with lists? | 291 thousand | 3 keys, 2 clients with one call each, out of five and of three, 1 failure, two initial lists |

Why the bounds are enough to be interesting.  Four slots with three threads at most leave room for an
exited, not yet joined thread while the pool grows, which is where the two different bound tests (on
the list, and on the map) matter; `ReduceIdle = 0` lets any idle turn reduce; one shutdown round
reaches both the end with an empty list and the end with threads still at work.  The single request
of `pool_safety` meets a growing, shrinking and stopping pool (a request appended to a queue that
holds others is reached in `pool_liveness`, which does not check `NoRequestLost`; the theorem
`NoRequestIsLost` covers it for any number of requests); the two of `pool_liveness` are a queue with a bad one in it.  Two commands of one key and one
of another are the least that can be mixed up in the wait map, and a second answer is the least that
comes late for one and early for the next; one wait that fails leaves an entry for a response to
find and a number and type that refuses the next command.  Two overlapping commands suffice for a
violated atomicity of one key, since each has at most one read and one write under the lock; one
failure can hit any of their calls, with the other command, waiting for the lock or replicating, to
suffer from it or make good for it (with two failures, 682 thousand states, the same properties
hold).  Five queue commands push two elements, pop one, and go on after
a failure; with two failures (1.1 million states) the same properties hold.  In `session` one thread
suffices: handles and message ids are not shared, so threads meet only in `Last_Response_Code`.  Two
calls are the least in which a response can come late, and with two message ids they are made on one
handle, on a handle and a one-time message id, or on two.  In `composite` P lists K, K lists P or
nothing, and N is free: the two calls rename in the same and in opposite directions and to the same
name, set and delete what is being renamed, add the new name, and delete along lists that name each
other; one failure can hit any of up to eight requests.

The properties, in the words of the code's reader:

- `ThreadBound`: `thread_list` never exceeds `max_thread_cnt`.  `FreeCountExact`: the unlocked
  counter is the number of threads not at work (and may be one too low, down to -1, while a new
  thread is not yet counted).  `ExitNotMissed`: lowering `exit_notice` before the walk over the list
  loses no thread.  `WorkerRemains`, `ReduceKeepsMinimum`: idle threads never reduce the pool below
  its minimum.  `NoRequestLost`: each request is in one place.  `StopComplete`: an empty list means no
  thread; of an end with threads left over, which the code warns of, it says nothing.  `HeadIsTaken`,
  `PoolShrinks`, `LoopEndStops`: liveness.
- `SuccessHasResponse`, `WrittenOnce`: what a sender reads is a response of its own kind, written to
  it once.  The first has one exception, the success that is made of an unknown error of the wait:
  there need be no response, and `GetResponseData` finds nothing to
  read.  `LeftBehindOnlyByFailedWait`: of the six ways out of `CommandSending` only the three of a
  wait that failed (timeout, mutex, other error) leave an entry.  `SendingReturns`: it returns.
- `ValueIsRegister`: the refinement.  `ReplicasAgree`, `ReplicaNeverGoesBack`: the copies converge
  and never go back, since the time is taken before the data is read.  Replications may be unsent,
  lost or refused: a server that differs has missed one that was stamped since the primary was last
  written, because any later one carries the whole key.  Both except keys that were deleted or copied
  with a read that failed. `Answered`: no early return, whatever call of K2HASH fails, leaves the
  key locked.
- `AlienOnlyAfterTimeout`: a response is taken for another's only after a timeout on the same
  message id.  `TrueMeansServed`: without one, true and a success mean that every request the call
  depends on was served, of composite commands too.  `CodeIsOwn`: the code of a handle is that of its
  last call (`get_state` excepted, `lib/k2hdkccomstate.cc:213`).  `MsgidsAccounted`: only
  `k2hdkc_get_subkeys` leaves message ids open (`lib/k2hdkc.cc:1109`).  `RequestUnderstood`: the
  server finds what the client has put in (`check_attr` of QPOP excepted).  `EveryCallReturns`:
  liveness.
- `RenKeepsValue`: whatever fails, a stored value is at some key until it is replaced or deleted;
  one excuse is named: it was stored at the old key after REN had read it (which is also what two
  opposite renamings do to each other).  `SuccessIsComplete`: without overlap and timeouts, success
  means that all keys and lists are as asked.  `ListsMatch`: which failures may leave a name without
  a value (never ADD_SUBKEY, whose value goes first) or a value without a name.  It is a property of
  lists like those of the instance: where a key may be in two lists, or a key with a list of its own
  is deleted as a subkey, calls without a failure leave such names and values too.  `CallsEnd`: also
  over lists that name each other.
- `IsQueue`: the refinement.  `NoOrphans`: marker, links and values belong together.
  `MarkerReplicated`: the other server ends up with the marker.

Deadlock is checked in the runs of the server's modules, which have a step for the state in which
everything has been done.  `session` and `composite` do not check it: a client that has made its
calls stops, and with bounded calls and message ids so does the system.

## Fairness

- `WorkerPool`: weak fairness of the main thread and of each worker.  The operating system schedules
  threads; `Receive` returns after `RECEIVE_WAIT_MS`, a timed wait after its timeout, `pthread_join`
  waits for a thread that has set its exited flag and has three statements left, and commands end
  because their own waits have timeouts.  Arrival of messages, signals and spurious wakeups are not
  fair.
- `WaitResponse`: weak fairness of each sender and of `SetReceiveData`, and strong fairness of
  `WaitTimeout`: spurious wakeups may interrupt the wait again and again, each of which starts a
  full timeout anew, but not forever at every single one.  Responses need not come.
- `KeyCommands`: weak fairness of every begun command; none of failures, and none of replications,
  which may be late or lost.  Weak fairness suffices for `Lock` only because two commands compete;
  with more a thread could be passed over, which the spin lock of the code permits too.
- `DkcQueue`: none, its properties are safety.
- `ClientSession`: weak fairness of each thread within a call: `Receive` of CHMPX ends after
  `RcvTimeout`.  Nothing of servers and network.
- `CompositeCommands`: the same for the clients (so that a call with lost requests ends by its
  timeouts), and of the servers that they serve what has reached them.

## Where the code differs from what it says

Five runs end in a counterexample, each against a comment or a message of the code.  They were
met while modelling; the traces are TLC's.

1. `pool_stranded`: a worker waits without looking at the queue and does no work after a timeout,
   so a broadcast between two of its waits is lost and the request stays until another one comes
   (`lib/k2hdkcthread.cc:105`).
2. `wait_dangling`: after a timeout the entry stays in the wait map while the object is deleted;
   a late response finds it (`lib/k2hdkccombase.cc:1089`).
3. `kv_lost_subkey`: the lock is released before the list read under it is written back, so one
   of two ADD_SUBKEYS is lost (`lib/k2hdkccomaddsubkeys.cc:136`).
4. `queue_collision`: nothing is checked when a pop changes the marker, so two pops return one
   element (`lib/k2hdkccomqpop.cc:227`).
5. `session_stale`: after a timeout on a handle the late response is taken for the answer to the next
   call, which reports a success of its own (`lib/k2hdkccombase.cc:1040`).

The models show more, which no run states because no property holds there: a response handed over
between the test of the flag and the wait ends in a timeout (`TestTrigger`, `EnterWait`,
`lib/k2hdkccombase.cc:1069`); REPL_DEL compares and removes in two calls and may remove something
newer (`lib/k2hdkccomrepldel.cc:142`); an error of `pthread_cond_timedwait` other than a timeout is
made a success without a response, marked `// success` (`WaitFails`, `lib/k2hdkccombase.cc:1101`); a
change whose answer cannot be sent is not replicated (`lib/k2hdkccomset.cc:151`), and a replication
that fails is not repeated (`lib/k2hdkccomset.cc:163`); a read that fails in `CommandReplicate`
replicates a key without a value (`CopyFails`, `lib/k2hdkccombase.cc:1126`), and one in ADD_SUBKEYS
replaces the list by the new subkey alone (`ReadSubkeysFails`, `lib/k2hdkccomaddsubkeys.cc:109`); a
marker that cannot be read is taken for an empty queue, whose elements a push then cuts off
(`GetExKeyFails`, `lib/k2hdkccomqpush.cc:132`); two opposite renamings under way together lose the
value (`lib/k2hdkccomren.cc:230`); a DEL that is answered by an error deletes the keys of the list
(`lib/k2hdkccomdel.cc:222`); a one-time CAS call uses a null pointer when CHMPX cannot be reached
(`lib/k2hdkc.cc:3523`).

## Proofs

Each `...Proofs` module proves, for every value of the constants that satisfies the assumption its
model states, that an inductive invariant holds, and reads the properties off it.  The invariants
were checked by TLC on the instances of the runs before they were proved.  Assumptions on
constants are types, finite sets where something is counted, distinct names for "none", and what
an unsigned number of the code gives.  `PROJECT.json` lists the theorems.

**The pool** (`WorkerPoolProofs`): type and all seven safety properties of `pool_safety`.  None of
them is inductive alone.

- `TypeInv` adds to `TypeOK` what the place of a thread says of its data (a request is in the
  main thread's hand from "push" to "broadcast"; a running worker has a job).
- `Shape` is the core.  `LockInv`: the list lock is held exactly at the places where the code
  holds it.  `ListInv`: `thread_list` is the set of threads not yet joined, and `run_thread_map`
  lies between the seated threads and those about to leave.  `ExitedInv`: `exited` says where a
  thread is.  `StopInv`: `stop_req` is only raised once shutdown has begun, and a leaving thread
  is in the map only when asked to stop.  `StopCompletes` and, with one more case analysis,
  `ExitIsNotMissed` follow.
- `ReduceInv`: a thread at "reduce" holds the lock, so the comparison it made under it still
  holds.  `ReduceKeepsMinimumHolds` follows from it.
- `BoundInv`: what is left to create and what is there never exceed the maximum.  It needs
  `Shape`, because a slot is free only if it is not in the list, and the fact that the map is part
  of the list, because one test uses the one and the other the other.
- `RemainsInv`: after start-up the map is not empty.  It needs `ReduceInv` (the last thread does
  not go) and `StopInv` (the others that go were asked to).
- `FreshInv` and `NextFreeCount`: every step changes counter and set of free threads alike;
  the proof computes the cardinality of the set action by action.
- `PlacesInv`: no request is twice in the queue, and each is in one place.  `QueueAppend` and
  `QueueTake` say what the two operations do to a queue without repetition.

`WorkerMoves` gathers the many steps of a worker that change nothing of this but its place, so
that each proof treats them once.

**Waiting** (`WaitResponseProofs`): type, `SuccessHasResponse`, `LeftBehindOnlyByFailedWait`,
`WrittenOnce`, with any number of waits that fail. `WaitInv` says that the main thread knows nothing
of an object before it is entered (`FreshInv`), that what it has in hand fits the object, though it
may be of another command with the same number and type (`FitInv`), and that the flag a sender
trusts is raised after the response is stored (`TriggerInv`).

**One key** (`KeyCommandsProofs`): type, mutual exclusion of the lock with its release on every
return, also those after a failing read, write, insertion or serialization (`LockExcludes`), and the
refinement of `KeyRegister` (`KeyIsRegister`): of each action one step shows that it is a step of
the register or changes nothing of it.  `KeyInv` says where the lock is held (`LockInv`) and, for the
step in which a CAS command writes, that what it checked under the lock still holds and that it
writes the value computed from what is there (`CasInv`); that is where replication, SET and the
others must be kept out.

**Copies** (also `KeyCommandsProofs`): `NeverBack` and `Agreement`.  Both properties speak of
executions in which the key is not deleted, and so does `ReplicaInv`.  `OrderInv`: no server is newer
than the primary, and if an element is not refused because of its time it is no older than what it
replaces, be that at a server or in another message.  `CopyInv`: what is sent with a time after the
last change is what the primary has. `ArriveInv`: each server has it, or it is on its way, or a
command is still to send it, or the server has missed such a replication (`Excused`): every later
change makes the older failures immaterial.  The invariant speaks of executions in which what was
copied could be read (`Faithful`), since a failing read sends other servers an empty
key.  `NeverBack` supposes `~Coarse`, that is, a clock that tells two changes apart.  This is needed:
TLC refutes the property with `Coarse` TRUE.

**Client** (`ClientSessionProofs`): type, `AlienOnlyAfterTimeout`, `TrueMeansServed`, `CodeIsOwn`,
`MsgidsAccounted`, `RequestUnderstood`.  `SessionInv`: message ids of calls and handles are apart and
open (`MsgidInv`); on one without a timeout there is at most one request or response, and it is the
one awaited (`WireInv`), which gives the first property; what a call has passed was served, or its
code tells of it (`ServedInv`), which gives the second.  The last uses of the table `Functions` that
an error stops a call wherever a failure does, unless the response code tells of it (`Sound`).

**Messages** (also there): `RequestUnderstood` follows from what the prover checks of each of the 22
commands, in `KeyCommandsFit` and `OtherCommandsFit`: its two halves fit (`Fitting`).  As the lengths
of the parts are variables there, the result holds for parts of any length
(`RequestsFitAtAnyLength`), where the run tries lengths up to 1, and for the requests among servers,
which no client sends.

**Queues** (`DkcQueueProofs`, `DkcQueueOrderProofs`): type, for overlapping commands too; with one
command at a time `MarkerReplicated`, single delivery (`NothingIsPoppedTwice`), `NoOrphans`, and the
refinement of `LossyQueue` (`QueueIsQueue`), whichever steps fail.

- That commands do not overlap is necessary, not a convenience: with `Concurrent` TRUE the run
  `queue_collision` refutes the single delivery.
- `QueueInv`: the links form chains (`LinkInv`), also with the one a push is about to add
  (`ChainInv`); what a command has read still holds (`ReadInv`); who has no taker is stored
  (`StoredInv`); an element has one taker, and the answer is what was taken (`TakenInv`); the
  marker is at the other server or on its way (`CopyInv`).
- `From`, which follows the links, is a recursive function, and the sequence it computes is not
  known by evaluation.  The induction it needs is done on sets instead of by the
  induction theorems of the library: a set of counterexamples would have a least member (`Least`).  In
  this way `FromDef` shows that the function exists, and `ElementsAre` that it computes any
  sequence that is `Chained`: that begins at the marker, follows the links and ends where there is none.
- The refinement then asks of each step what it does to such a sequence.  `WaySteps` sorts all
  actions into four kinds and two single ones: those that do not touch it, the link that was counted
  already (`LinkingWay`), the link that is lost with what is behind it (`DroppingWay`), the erasure
  of a taken element (`ErasingWay`), `PushWay` and `PopWay`.  `OrderInv` adds that without a fault
  every element is on the way (`WayInv`), and what each pop will answer (`AnswerInv`).

**Renaming** (`CompositeCommandsProofs`): type, with never more responses than requests sent, and
`RenKeepsValue`.  `RenInv`: for a renaming there is one thing at a time, the request, or the renaming
under way with or without its SET_ALL, or SET_ALL alone; and SET_ALL carries the value that was read
to the new key.  It needs `IdInv` (requests belong to calls that were made) and of `InCall` that the
renaming is the first request of its call.  `CountInv` counts what may still be answered.  `SafeInv`
is the argument: a value that counts is at a key that no renaming is about to remove.  SET_ALL lets
its renaming remove the old key, and in the same step puts the value at the new one, which no
renaming that still counts has as its old key.

**Calls of several requests** (`CompositeCallsProofs`): `SuccessIsComplete`, and what ADD_SUBKEY leaves.

- `CleanInv` speaks of a call that has met no other, has seen no timeout and goes on well (`Clean`).
  Such a call is alone, and as long as nothing of it is under way, `OnTrack` reads off the requests
  left to do what the keys hold by now.  While it waits, the request is still to be served (`Asked`),
  is a renaming under way (`RenamingAt`), is answered (`Answered`), in which case either the answer
  ends the call or the keys are as they are to be after it (`StaysOnTrack`), or is lost (`Lost`),
  and then only a timeout can follow. For a deletion, `AlongDel` says that of the keys of the list
  as they were before the call each is deleted, or is still to be (`Swept`), in however many lists
  they are.  The property is what `OnTrack` says when nothing is left to do (`EndIsComplete`).
- `NamesHaveValuesHolds` and `ListsMatchAdding` suppose that clients only store values and add
  subkeys (`OnlyAdds`), and nothing of overlaps, failures, losses and timeouts.  `AddInv`: a request
  that names a key in a list is sent when the value is there (`Brings`), because a good answer in
  the part of a call that waits for the value can only be that to its SET (`Stores`).  `OwedInv`: a
  value in no list, or under way, belongs to a call not yet over, unless one had a flaw; that a call
  without one has named its key when it returns is `SuccessIsComplete` again.

What the proofs have changed in the models.  The arms of `Refusal` in `KeyCommands` overlapped, so
that what it chose for a key without data was not determined (TLC takes the first that holds, as the
code does); they are disjoint now, in the order of the code's tests.  `TypeOK` of `KeyCommands` says
what an outcome may be.  `QueueAssumption` says that names of commands are not those of
answers.  `From` takes its arguments one after the other, which the prover needs for a recursive
function.  `CompositeAssumption` says what calls are made of.  `RenRead` in `CompositeCommands`
excused the values of two opposite renamings; the proof did not need it, so the excuse is gone and
`RenKeepsValue` is stronger.  `Complete` in `CompositeCommands` asked of a renaming to the same name
that the name be gone; it says now what the code does, which takes such a call for done and lists
the name, and the run has such a call.  `Together` in `Commands` puts two tables together, in place
of an operator of the module `TLC` that the prover does not know.

Only model-checked:

- Liveness and fairness everywhere, out of the prover's reach.
- `ListsMatch` where clients delete or rename: it depends on the shape of the lists (see Runs), and
  so is no theorem for every value of the constants.

## What is assumed of the outside

- K2HASH: each call is atomic; one that fails leaves the storage as it was; `K2HDALock` keeps every
  other call on the key out until it is deleted; `SetElementByBinArray` keeps an element whose mtime
  is later than the given time and replaces it otherwise; `K2HLowOpsQueue` changes a marker
  atomically as `MarkerPush` and `MarkerPop` say.  Whether `ReplaceSubkeys` stamps an mtime is left
  open in the model.
- CHMPX: routes all commands of a key to one server, may lose or delay a message, does not repeat
  one (responses to the server are repeated in `WaitResponse`, one from each server the command
  reached).  Fail-over to another server is left out, except that `MarkerReplicated` and
  `ReplicasAgree` say what such a server would find.
- For a client CHMPX gives message ids that were not in use before (so that nothing of a closed one
  arrives on another), keeps the order of responses as they arrive, and drops what comes for
  a closed one.
- A handle is used by one thread at a time.
- POSIX threads: a broadcast wakes who waits, wakeups may be spurious, a timed wait ends.
- Clock: never goes back and is the same on all servers.

## What is not modelled, and why

Encryption, and the expiry of elements.  The encoding of numbers in messages, and the conversion of
strings and lists in the client interface (an empty list is converted to one of length 1,
`lib/k2hdkc.cc:1022`).  `Last_Response_Code`, one variable for all threads, which `lib/k2hdkc.h:99`
calls unsafe.  Writing a part of a value (SET_DIRECT) is done by K2HASH. What `K2HSTATE` reports.  The
replication of REN's emptied old key. Start-up, options and configuration: parsing without
concurrency, whose values are constants here.  Debugging output and communication numbers change
nothing else. A server's death and its re-joining are the bus's business. Errors of the pthread
calls in a worker of the pool, at which it ends (`lib/k2hdkcthread.cc:100-111`, `127-131`). A nested
command of a queue that is executed when its caller has already given up (see DkcQueue). A command
whose message cannot be read (INVAL) changes nothing and is left to `Commands`.  The line tool and
tests drive the library. Not modelled yet: see the plan.

## Plan

Modelled first was what the other parts stand on: the pool, the wait map, one key, the queue; then
the client: messages, sessions, and the commands over several keys; then the proofs.  What is left:

1. Proofs: `ListsMatch` with deletions and renamings, for initial lists of which no two share a key.
2. `NestedCommands`: the pool and the wait map together; workers that all wait for commands the
   same server has to execute.
3. `DkcQueue`: expiry and `check_attr`; `KeyCommands`: SET_DIRECT.
