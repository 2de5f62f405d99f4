---------------------------- MODULE WaitResponse ----------------------------
(***************************************************************************)
(* How a worker of the server waits for the answer to a command it sends   *)
(* to the other servers while it processes one: the wait map of            *)
(* K2hdkcCntrl (src/src/k2hdkccntrl.cc), the sending side of K2hdkcCommand *)
(* on a server node (CommandSending in src/lib/k2hdkccombase.cc) and the   *)
(* main loop that hands responses to waiting command objects               *)
(* (SetReceiveData).                                                       *)
(*                                                                         *)
(* A member of Commands is one command object from new to delete.  The     *)
(* objects belong to different worker threads or follow each other in one; *)
(* the model lets any of them overlap.  Memory of a deleted object is not  *)
(* reused.  An access to it goes unnoticed, or it ends the process: then   *)
(* the behaviour ends where it is, which the model need not say.           *)
(***************************************************************************)
EXTENDS Naturals, FiniteSets

CONSTANTS
    Commands,    \* command objects created with is_wait_on_server
    Keys,        \* pairs of communication number and command type
    KeyOf,       \* the pair of each command; the number is 0 for all commands
                 \* unless communication debugging is on
    MaxErrors,   \* bound on the waits that end with an error
    MaxAnswers,  \* bound on the responses to one command: each server the
                 \* routing reaches answers, or none does
    None

ASSUME WaitAssumption ==
    /\ KeyOf \in [Commands -> Keys]
    /\ MaxAnswers \in Nat /\ MaxErrors \in Nat
    /\ None \notin Commands

VARIABLES
    pc,          \* where the thread that owns the command is
    trigger,     \* TriggerResponse
    rcv,         \* pRcvComAll: the command whose response it is
    outcome,     \* how CommandSending ended
    waitmap,
    answers,     \* responses received, of commands that were sent
    sent,
    mpc, mobj, mrsp    \* the main thread: where, at which object, with which response

objVars  == <<pc, trigger, rcv, outcome>>
mainVars == <<mpc, mobj, mrsp>>
vars == <<objVars, waitmap, answers, sent, mainVars>>

Alive(c) == pc[c] \notin {"none", "deleted"}

Init ==
    /\ pc = [c \in Commands |-> "none"]
    /\ trigger = [c \in Commands |-> TRUE]
    /\ rcv = [c \in Commands |-> None]
    /\ outcome = [c \in Commands |-> "none"]
    /\ waitmap = [k \in Keys |-> None]
    /\ answers = [c \in Commands |-> 0]
    /\ sent = {}
    /\ mpc = "receive" /\ mobj = None /\ mrsp = None
-----------------------------------------------------------------------------
(* The worker: CommandSending with IsServerNode and IsWaitResOnServer.     *)

Goto(c, l) == pc' = [pc EXCEPT ![c] = l]
Ends(c, o) == Goto(c, "returned") /\ outcome' = [outcome EXCEPT ![c] = o]

New(c) ==
    /\ pc[c] = "none"
    /\ Goto(c, "wait")
    /\ UNCHANGED <<trigger, rcv, outcome, waitmap, answers, sent, mainVars>>

\* TriggerResponse is lowered before the object is entered under its number
\* and type.  There is room for one object: if another one is there, even one
\* that has been deleted, the command fails.
SetWaitCommandObject(c) ==
    /\ pc[c] = "wait"
    /\ IF waitmap[KeyOf[c]] = None
       THEN /\ waitmap' = [waitmap EXCEPT ![KeyOf[c]] = c]
            /\ trigger' = [trigger EXCEPT ![c] = FALSE]
            /\ Goto(c, "send") /\ UNCHANGED outcome
       ELSE Ends(c, "refused") /\ UNCHANGED <<waitmap, trigger>>
    /\ UNCHANGED <<rcv, answers, sent, mainVars>>

Send(c) ==
    /\ pc[c] = "send"
    /\ sent' = sent \cup {c}
    /\ Goto(c, "test")
    /\ UNCHANGED <<trigger, rcv, outcome, waitmap, answers, mainVars>>

\* Mutant: leaves without removing the entry.
SendFailsKeepsEntry(c) ==
    /\ pc[c] = "send"
    /\ trigger' = [trigger EXCEPT ![c] = TRUE]
    /\ Ends(c, "unsent")
    /\ UNCHANGED <<rcv, waitmap, answers, sent, mainVars>>

SendFails(c) ==
    /\ pc[c] = "send"
    /\ trigger' = [trigger EXCEPT ![c] = TRUE]
    /\ Goto(c, "unwait")
    /\ UNCHANGED <<rcv, outcome, waitmap, answers, sent, mainVars>>

\* The entry is removed by its number and type, whichever object it holds.
UnsetWaitCommandObject(c) ==
    /\ pc[c] = "unwait"
    /\ waitmap' = [waitmap EXCEPT ![KeyOf[c]] = None]
    /\ Ends(c, "unsent")
    /\ UNCHANGED <<trigger, rcv, answers, sent, mainVars>>

\* while(!TriggerResponse), read without cond_mutex ...
TestTrigger(c) ==
    /\ pc[c] = "test"
    /\ IF trigger[c] THEN Ends(c, "answered")
                     ELSE Goto(c, "enter") /\ UNCHANGED outcome
    /\ UNCHANGED <<trigger, rcv, waitmap, answers, sent, mainVars>>

\* ... and not read again under it before the wait.
EnterWait(c) ==
    /\ pc[c] = "enter"
    /\ Goto(c, "waiting")
    /\ UNCHANGED <<trigger, rcv, outcome, waitmap, answers, sent, mainVars>>

\* An error of the wait itself, at most MaxErrors in all: CommandSending returns
\* and does not call UnWaitFp, so that the entry stays in the map.
WaitError(c, o) ==
    /\ Cardinality({d \in Commands : outcome[d] \in {"unlocked", "broken"}}) < MaxErrors
    /\ trigger' = [trigger EXCEPT ![c] = TRUE]
    /\ Ends(c, o)
    /\ UNCHANGED <<rcv, waitmap, answers, sent, mainVars>>

\* The mutex cannot be locked: the command fails.
LockFails(c) ==
    /\ pc[c] = "enter"
    /\ WaitError(c, "unlocked")

\* Mutant: takes a timeout for a signal and waits again.
TimeoutRetries(c) ==
    /\ pc[c] = "waiting"
    /\ Goto(c, "test")
    /\ UNCHANGED <<trigger, rcv, outcome, waitmap, answers, sent, mainVars>>

\* ETIMEDOUT after RcvTimeout: the command fails; its entry stays in the map.
WaitTimeout(c) ==
    /\ pc[c] = "waiting"
    /\ trigger' = [trigger EXCEPT ![c] = TRUE]
    /\ Ends(c, "timeout")
    /\ UNCHANGED <<rcv, waitmap, answers, sent, mainVars>>

\* Any other error than a timeout or an interrupt is taken for a success, though
\* no response need have come.
WaitFails(c) ==
    /\ pc[c] = "waiting"
    /\ WaitError(c, "broken")

\* A wakeup without a broadcast, or by a signal: test again, wait anew.
SpuriousWakeup(c) ==
    /\ pc[c] = "waiting"
    /\ Goto(c, "test")
    /\ UNCHANGED <<trigger, rcv, outcome, waitmap, answers, sent, mainVars>>

\* The handler that created the command reads its response and deletes it.
Delete(c) ==
    /\ pc[c] = "returned"
    /\ Goto(c, "deleted")
    /\ UNCHANGED <<trigger, rcv, outcome, waitmap, answers, sent, mainVars>>
-----------------------------------------------------------------------------
(* The main thread: Run and SetReceiveData.                                *)

\* Mutants of the search: the type is not compared (the number is 0 for all),
FindByNumber(c) ==
    /\ mpc = "receive" /\ c \in sent /\ answers[c] < MaxAnswers
    /\ answers' = [answers EXCEPT ![c] = @ + 1]
    /\ \E k \in Keys :
          /\ waitmap[k] # None
          /\ mobj' = waitmap[k] /\ mrsp' = c /\ mpc' = "store"
          /\ waitmap' = [waitmap EXCEPT ![k] = None]
    /\ UNCHANGED <<objVars, sent>>

\* the entry is not removed,
FindNoErase(c) ==
    /\ mpc = "receive" /\ c \in sent /\ answers[c] < MaxAnswers
    /\ answers' = [answers EXCEPT ![c] = @ + 1]
    /\ IF waitmap[KeyOf[c]] = None
       THEN UNCHANGED mainVars
       ELSE mobj' = waitmap[KeyOf[c]] /\ mrsp' = c /\ mpc' = "store"
    /\ UNCHANGED <<objVars, waitmap, sent>>

\* a search that finds nothing is taken for a success.
FindUnchecked(c) ==
    /\ mpc = "receive" /\ c \in sent /\ answers[c] < MaxAnswers
    /\ answers' = [answers EXCEPT ![c] = @ + 1]
    /\ mobj' = waitmap[KeyOf[c]] /\ mrsp' = c /\ mpc' = "store"
    /\ waitmap' = [waitmap EXCEPT ![KeyOf[c]] = None]
    /\ UNCHANGED <<objVars, sent>>

\* A response to c arrives: at any time after the sending, late, repeated, or
\* never.  It is matched by number and type alone, and the entry is removed.
\* A response that matches nothing goes to the workers, who ignore it.
FindWaitCommandObject(c) ==
    /\ mpc = "receive" /\ c \in sent /\ answers[c] < MaxAnswers
    /\ answers' = [answers EXCEPT ![c] = @ + 1]
    /\ IF waitmap[KeyOf[c]] = None
       THEN UNCHANGED <<waitmap, mainVars>>
       ELSE /\ mobj' = waitmap[KeyOf[c]]
            /\ mrsp' = c
            /\ waitmap' = [waitmap EXCEPT ![KeyOf[c]] = None]
            /\ mpc' = "store"
    /\ UNCHANGED <<objVars, sent>>

\* The main thread lets go of the object and receives again.
Release == mpc' = "receive" /\ mobj' = None /\ mrsp' = None

\* The three accesses of SetReceiveData to the object.  The first replaces the
\* received data and tests TriggerResponse,
StoreResponse ==
    /\ mpc = "store" /\ Alive(mobj)
    /\ rcv' = [rcv EXCEPT ![mobj] = mrsp]
    /\ IF trigger[mobj] THEN Release ELSE mpc' = "trigger" /\ UNCHANGED <<mobj, mrsp>>
    /\ UNCHANGED <<pc, trigger, outcome, waitmap, answers, sent>>

\* the second raises the flag, without the mutex,
RaiseTrigger ==
    /\ mpc = "trigger" /\ Alive(mobj)
    /\ trigger' = [trigger EXCEPT ![mobj] = TRUE]
    /\ mpc' = "notify"
    /\ UNCHANGED <<pc, rcv, outcome, waitmap, answers, sent, mobj, mrsp>>

\* the third locks the object's mutex and broadcasts its condition.
Notify ==
    /\ mpc = "notify" /\ Alive(mobj)
    /\ pc' = [pc EXCEPT ![mobj] = IF @ = "waiting" THEN "test" ELSE @]
    /\ Release
    /\ UNCHANGED <<trigger, rcv, outcome, waitmap, answers, sent>>

\* That fails, and nobody is woken up.
NotifyFails ==
    /\ mpc = "notify" /\ Alive(mobj)
    /\ Release
    /\ UNCHANGED <<objVars, waitmap, answers, sent>>

\* Any of them may find the object deleted.
TouchDeleted ==
    /\ mpc # "receive" /\ ~Alive(mobj)
    /\ Release
    /\ UNCHANGED <<objVars, waitmap, answers, sent>>
-----------------------------------------------------------------------------
Worker(c) ==
    \/ SetWaitCommandObject(c) \/ Send(c) \/ SendFails(c) \/ UnsetWaitCommandObject(c)
    \/ TestTrigger(c) \/ EnterWait(c) \/ WaitTimeout(c) \/ Delete(c)

SetReceiveData == StoreResponse \/ RaiseTrigger \/ Notify \/ TouchDeleted

\* What the system may do to them at any time, and need not do.
Disturbance(c) == SpuriousWakeup(c) \/ LockFails(c) \/ WaitFails(c)

\* All commands have come and gone.
Done ==
    /\ mpc = "receive" /\ \A c \in Commands : pc[c] = "deleted"
    /\ UNCHANGED vars

Next ==
    \/ \E c \in Commands : New(c) \/ Worker(c) \/ Disturbance(c) \/ FindWaitCommandObject(c)
    \/ SetReceiveData \/ NotifyFails
    \/ Done

Spec == Init /\ [][Next]_vars

\* Threads that can run do run, and a timed wait that is entered again and
\* again (it starts over at every spurious wakeup) ends by its timeout in the
\* end.  Responses need not come.
Fairness ==
    /\ WF_vars(SetReceiveData)
    /\ \A c \in Commands : WF_vars(Worker(c)) /\ SF_vars(WaitTimeout(c))

FairSpec == Spec /\ Fairness
-----------------------------------------------------------------------------
(* Properties.                                                             *)

\* The type invariant.
TypeOK ==
    /\ pc \in [Commands -> {"none", "wait", "send", "unwait", "test", "enter", "waiting",
                            "returned", "deleted"}]
    /\ trigger \in [Commands -> BOOLEAN]
    /\ rcv \in [Commands -> Commands \cup {None}]
    /\ outcome \in [Commands -> {"none", "answered", "timeout", "unlocked", "broken", "refused",
                                 "unsent"}]
    /\ waitmap \in [Keys -> Commands \cup {None}]
    /\ answers \in [Commands -> Nat]
    /\ sent \subseteq Commands
    /\ mpc \in {"receive", "store", "trigger", "notify"}
    /\ mobj \in Commands \cup {None} /\ mrsp \in Commands \cup {None}
    /\ mpc # "receive" => mobj \in Commands

\* CommandSending reports success.
Succeeded(c) == outcome[c] \in {"answered", "broken"}

\* A command that reports success has received a response, and one of its own
\* number and type: the handler never reads a foreign message, and misses one
\* only if the wait itself ended with an error (k2hdkccombase.cc:1101), which
\* GetResponseData has to find out.
SuccessHasResponse ==
    \A c \in Commands : Succeeded(c)
        => IF rcv[c] = None THEN outcome[c] = "broken" ELSE KeyOf[rcv[c]] = KeyOf[c]

\* The ways out of the wait that do not call UnWaitFp.
FailedWaits == {"timeout", "unlocked", "broken"}

\* An entry of the map holds an object that was entered under that key, and
\* one that has left CommandSending only by a wait that failed: a response, a
\* refusal or a failed sending never leaves an object behind that responses
\* could still be written to.
LeftBehindOnlyByFailedWait ==
    \A k \in Keys : waitmap[k] # None =>
        /\ KeyOf[waitmap[k]] = k
        /\ \/ pc[waitmap[k]] \in {"send", "unwait", "test", "enter", "waiting"}
           \/ outcome[waitmap[k]] \in FailedWaits

\* The object a response is being written to is in no entry of the map, so that
\* no second response is ever written to it at the same time or later.
WrittenOnce ==
    \A c \in Commands : (mpc # "receive" /\ mobj = c) \/ rcv[c] # None
        => \A k \in Keys : waitmap[k] # c

\* A worker that starts to send gets out of CommandSending, answered or not.
SendingReturns ==
    \A c \in Commands : (pc[c] = "wait") ~> (pc[c] = "deleted")
-----------------------------------------------------------------------------
(* What the code says and does not keep.                                   *)

\* "found command object which is waiting response"
\* (src/src/k2hdkccntrl.cc:483): the object the main loop has found belongs to
\* a thread that is still in CommandSending.
FoundIsWaiting ==
    mpc = "store" => pc[mobj] \in {"send", "unwait", "test", "enter", "waiting"}
=============================================================================
