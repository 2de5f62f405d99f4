-------------------------- MODULE CompositeCommands --------------------------
(***************************************************************************)
(* Commands that change several keys: those the client carries out as      *)
(* several requests (src/lib/k2hdkccom{addsubkey,delsubkey,del}.cc) and    *)
(* the renaming of a key (k2hdkccomren.cc), for which the server of the    *)
(* old key sends a request to the server of the new one.                   *)
(*                                                                         *)
(* The keys are on different servers and nothing holds the requests of a   *)
(* command together: each may be refused, lost or served late, after its   *)
(* sender has given up, and the requests of other clients come in between. *)
(* A single request on one key is atomic here (its steps and its           *)
(* replication are in KeyCommands), except REN.                            *)
(*                                                                         *)
(* Each call has a message id of its own, as the one-time functions have:  *)
(* within the call the first response is taken for the answer, and what    *)
(* arrives after the call is dropped.                                      *)
(***************************************************************************)
EXTENDS Commands, SequencesExt

CONSTANTS
    Clients,
    Keys,
    None,           \* no value
    InitStores,     \* what the keys may hold at first: val and subs
    Roots,          \* keys that are not meant to be in a list
    Offers(_),      \* calls a client may make
    CallsOf(_),     \* bound: how many calls it makes
    AllSafe,        \* what IsAllNodesSafe may say
    MaxFaults       \* bound: refusals, losses and early timeouts

Absent == [val |-> None, subs |-> {}]

ASSUME CompositeAssumption ==
    /\ IsFiniteSet(Keys)
    /\ InitStores \subseteq [Keys -> [val : Keys \cup {None}, subs : SUBSET Keys]]
    /\ Roots \subseteq Keys
    /\ None \notin Keys \cup Clients
    /\ AllSafe \subseteq BOOLEAN /\ AllSafe # {}
    /\ MaxFaults \in Nat
    /\ \A c \in Clients : CallsOf(c) \in Nat
    /\ \A c \in Clients : \A q \in Offers(c) :
          /\ q.op \in {"set", "addsub", "delsub", "del", "ren"} /\ q.key \in Keys
          /\ q.op \in {"addsub", "delsub", "ren"} => q.sub \in Keys
          /\ q.op = "ren" => q.parent \in Keys

-----------------------------------------------------------------------------
(* Calls and the requests they begin with.                                 *)

\* key is the key of the list (ADD_SUBKEY, DEL_SUBKEY), the key itself, or the
\* old name; sub the subkey or the new name; parent as for REN.
Call(op, key, sub, parent) == [op |-> op, key |-> key, sub |-> sub, parent |-> parent]

\* What a request carries besides the key it goes to.
Nothing == [val |-> None, key |-> None, subs |-> {}, nested |-> FALSE]
Value(v) == [Nothing EXCEPT !.val = v]
Name(k)  == [Nothing EXCEPT !.key = k]

\* A request to be sent, with the rules of Step; to is the key it goes to.
Task(step, to, arg) == [step |-> step, to |-> to, arg |-> arg]

SetTasks(c, q) == <<Task(One("SET")[1], q.key, Value(c))>>
\* Mutant: the list first.
AddSubkeyTasksSwapped(c, q) ==
    <<Task(AddSubkeySteps[2], q.key, Name(q.sub)), Task(AddSubkeySteps[1], q.sub, Value(c))>>

\* The value of the subkey, then the list.
AddSubkeyTasks(c, q) ==
    <<Task(AddSubkeySteps[1], q.sub, Value(c)), Task(AddSubkeySteps[2], q.key, Name(q.sub))>>
DelSubkeyTasks(c, q) ==
    <<Task(DelSubkeySteps[1], q.sub, Nothing), Task(DelSubkeySteps[2], q.key, Name(q.sub))>>
RenTasks(c, q) ==
    <<Task(RenSteps(TRUE)[1], q.key, Name(q.sub)), Task(RenSteps(TRUE)[2], q.parent, Name(q.key)),
      Task(RenSteps(TRUE)[3], q.parent, Name(q.sub))>>

\* The list of a key that is to be deleted is read first.  The deletion of a key
\* of a list (nested) may fail.
ReadList(key, nested) == Task(DelSteps(TRUE, TRUE)[1], key, [Nothing EXCEPT !.nested = nested])
DeleteKey(key, nested, list) ==
    Task(IF nested THEN Step("DEL", "ignore", "ignore", FALSE) ELSE DelSteps(TRUE, TRUE)[2],
         key, [Nothing EXCEPT !.subs = list])
DelTasks(c, q) == <<ReadList(q.key, FALSE)>>

TasksOf(c, q) ==
    CASE q.op = "set" -> SetTasks(c, q)
      [] q.op = "addsub" -> AddSubkeyTasks(c, q)
      [] q.op = "delsub" -> DelSubkeyTasks(c, q)
      [] q.op = "del" -> DelTasks(c, q)
      [] q.op = "ren" -> RenTasks(c, q)

-----------------------------------------------------------------------------
VARIABLES
    store,      \* what the keys hold
    client,     \* the call a client is in
    left,       \* calls it has still to make
    net,        \* requests not yet served
    inbox,      \* responses a client has not taken
    work,       \* renamings that servers are at
    faults,     \* faults so far
    overlap,    \* clients in whose last call others were at work (history)
    flaws,      \* reasons why lists and values may differ (history)
    written,    \* values that were ever stored (history)
    excused     \* values that were replaced, deleted or stored too late (history)

vars == <<store, client, left, net, inbox, work, faults, overlap, flaws, written, excused>>
history == <<overlap, flaws, written, excused>>

Rest == [at |-> "rest"]

Init ==
    /\ store \in InitStores
    /\ client = [c \in Clients |-> Rest]
    /\ left = [c \in Clients |-> CallsOf(c)]
    /\ net = {}
    /\ inbox = [c \in Clients |-> <<>>]
    /\ work = {}
    /\ faults = 0
    /\ overlap = {}
    /\ flaws = IF \E p \in Roots, k \in Keys : p \in store[k].subs THEN {"root listed"} ELSE {}
    /\ written = {store[k].val : k \in Keys} \ {None}
    /\ excused = {}

Busy(c) == client[c].at # "rest"
Fault == faults < MaxFaults /\ faults' = faults + 1

\* The call a request was sent for is still going on.
Current(r) == Busy(r.from) /\ left[r.from] = r.id

\* The server answers; the client must be in the same call to get it.
Answer(r, good, list) ==
    inbox' = IF Current(r) THEN [inbox EXCEPT ![r.from] = Append(@, [com |-> r.com, good |-> good, list |-> list])]
                           ELSE inbox

-----------------------------------------------------------------------------
(* The client.                                                             *)

Begin(c, q) ==
    /\ ~Busy(c) /\ left[c] > 0
    /\ client' = [client EXCEPT ![c] = [at |-> "send", call |-> q, todo |-> TasksOf(c, q), sent |-> 0,
                                        main |-> TRUE, ok |-> TRUE, late |-> FALSE, skipped |-> FALSE,
                                        before |-> store]]
    /\ overlap' = IF (\E d \in Clients : Busy(d)) \/ net # {} \/ work # {}
                  THEN overlap \cup {c} \cup {d \in Clients : Busy(d)} ELSE overlap \ {c}
    /\ UNCHANGED <<store, left, net, inbox, work, faults, flaws, written, excused>>

Now(c) == Head(client[c].todo)

\* Mutant: the keys of the list are left.
DeletedThenNothing(t, safe) ==
    IF safe THEN <<>> ELSE <<Task(DelSteps(TRUE, FALSE)[3], t.to, Nothing)>>

\* K2hdkcComDel::CommandSend after the key is deleted: the keys of the list in
\* the same way, whatever comes of it, and the placeholder.
DeletedThen(t, safe) ==
    LET subkeys == SetToSeq(t.arg.subs)
    IN  [i \in DOMAIN subkeys |-> ReadList(subkeys[i], TRUE)]
        \o (IF safe THEN <<>> ELSE <<Task(DelSteps(TRUE, FALSE)[3], t.to, Nothing)>>)

\* What is to be done after a request; list is what GET_SUBKEYS has brought.
\* The deletion of a key goes on unless its own request failed.
Following(t, failed, list, safe) ==
    CASE t.step.com = "GET_SUBKEYS" -> <<DeleteKey(t.to, t.arg.nested, list)>>
      [] t.step.com = "DEL" /\ ~failed -> DeletedThen(t, safe)
      [] OTHER -> <<>>

\* Mutant: the task is left on the list when the last one ends the call.
ProceedKeeps(c, d, failed, good, list, safe) ==
    LET t == Head(d.todo)
        todo == Following(t, failed, list, safe) \o Tail(d.todo)
        e == [d EXCEPT !.skipped = @ \/ (~good /\ ~t.step.main), !.main = IF t.step.main THEN good ELSE @]
    IN  client' = [client EXCEPT ![c] =
            IF failed /\ t.step.onFail = "stop" THEN [e EXCEPT !.at = "end", !.ok = FALSE]
            ELSE [e EXCEPT !.at = "send", !.todo = todo]]

\* The request has failed or was answered (well or not): the call ends, or goes
\* on with the next one.
Proceed(c, d, failed, good, list, safe) ==
    LET t == Head(d.todo)
        todo == Following(t, failed, list, safe) \o Tail(d.todo)
        e == [d EXCEPT !.skipped = @ \/ (~good /\ ~t.step.main), !.main = IF t.step.main THEN good ELSE @]
        stops == \/ failed /\ t.step.onFail = "stop"
                 \/ ~failed /\ ~good /\ t.step.onError = "stop"
    IN  client' = [client EXCEPT ![c] =
            IF stops THEN [e EXCEPT !.at = "end", !.ok = FALSE]
            ELSE [e EXCEPT !.at = IF todo = <<>> THEN "end" ELSE "send", !.todo = todo]]

Send(c) ==
    /\ client[c].at = "send"
    /\ client' = [client EXCEPT ![c].at = "wait", ![c].sent = @ + 1]
    /\ net' = net \cup {[com |-> Now(c).step.com, to |-> Now(c).to, arg |-> Now(c).arg,
                         from |-> c, id |-> left[c], n |-> client[c].sent]}
    /\ UNCHANGED <<store, left, inbox, work, faults, history>>

SendFails(c) ==
    /\ client[c].at = "send" /\ Fault
    /\ \E safe \in AllSafe : Proceed(c, client[c], TRUE, FALSE, {}, safe)
    /\ UNCHANGED <<store, left, net, inbox, work, history>>

\* Mutant: nothing is received while the request is lost, and no time is kept.
TimeOutNotWhenLost(c) ==
    /\ client[c].at = "wait" /\ inbox[c] = <<>>
    /\ \E r \in net \cup work : r.from = c /\ Current(r)
    /\ Fault
    /\ \E safe \in AllSafe : Proceed(c, [client[c] EXCEPT !.late = TRUE], TRUE, FALSE, {}, safe)
    /\ UNCHANGED <<store, left, net, inbox, work, history>>

\* Nothing within RcvTimeout.  Early, while the request or its answer is under
\* way, it is one of the faults counted.
TimeOut(c) ==
    /\ client[c].at = "wait" /\ inbox[c] = <<>>
    /\ IF \E r \in net \cup work : r.from = c /\ Current(r) THEN Fault ELSE UNCHANGED faults
    /\ \E safe \in AllSafe : Proceed(c, [client[c] EXCEPT !.late = TRUE], TRUE, FALSE, {}, safe)
    /\ UNCHANGED <<store, left, net, inbox, work, history>>

\* The first response, of whatever request: only GET_SUBKEYS insists on its own.
Receive(c) ==
    LET a == Head(inbox[c])
        wrong == Now(c).step.com = "GET_SUBKEYS" /\ a.com # "GET_SUBKEYS"
    IN  /\ client[c].at = "wait" /\ inbox[c] # <<>>
        /\ inbox' = [inbox EXCEPT ![c] = Tail(@)]
        /\ \E safe \in AllSafe :
              Proceed(c, client[c], wrong, ~wrong /\ a.good, IF wrong THEN {} ELSE a.list, safe)
        /\ UNCHANGED <<store, left, net, work, faults, history>>

\* Whether the caller sees no error: true is returned and the code is success.
Succeeded(d) == d.ok /\ d.main

\* Whether nothing has failed, not even what is ignored.  (Setting a value alone
\* does not care for lists.)
Flawless(d) == Succeeded(d) /\ ~d.late /\ ~d.skipped /\ d.call.op # "set"

\* The call returns; its message id is closed.
Return(c) ==
    /\ client[c].at = "end"
    /\ client' = [client EXCEPT ![c] = Rest]
    /\ left' = [left EXCEPT ![c] = @ - 1]
    /\ inbox' = [inbox EXCEPT ![c] = <<>>]
    /\ flaws' = flaws \cup (IF Flawless(client[c]) THEN {} ELSE {client[c].call.op})
                      \cup (IF c \in overlap THEN {"overlap"} ELSE {})
    /\ UNCHANGED <<store, net, work, faults, overlap, written, excused>>

-----------------------------------------------------------------------------
(* The servers: one request, on one key.                                   *)

Put(k, v) == [store EXCEPT ![k].val = v]

\* What a request makes of the store, and whether it is a success.
After(r) ==
    CASE r.com = "SET" -> Put(r.to, r.arg.val)
      [] r.com = "SET_ALL" -> [store EXCEPT ![r.to] = [val |-> r.arg.val, subs |-> r.arg.subs]]
      [] r.com = "DEL" -> [store EXCEPT ![r.to] = Absent]
      [] r.com = "ADD_SUBKEYS" -> [store EXCEPT ![r.to].subs = @ \cup {r.arg.key}]
      [] r.com = "DEL_SUBKEYS" -> [store EXCEPT ![r.to].subs = @ \ {r.arg.key}]
      [] r.com = "GET_SUBKEYS" -> store

\* A subkey is not in the list: an error, unless there is no list.
Accepted(r) == r.com = "DEL_SUBKEYS" => r.arg.key \in store[r.to].subs \/ store[r.to].subs = {}

\* Values a request replaces or deletes, or that a renaming under way will
\* delete because it has read the key before.
Disturbed(r) ==
    (IF r.com \in {"SET", "DEL"} \/ (r.com = "SET_ALL" /\ r.arg.val # store[r.to].val)
     THEN {store[r.to].val} ELSE {})
    \cup (IF r.com \in {"SET", "SET_ALL"} /\ \E w \in work : w.old = r.to THEN {After(r)[r.to].val} ELSE {})

Serve(r) ==
    /\ r \in net /\ r.com \notin {"REN", "SET_ALL"}
    /\ net' = net \ {r}
    /\ store' = After(r)
    /\ written' = written \cup ({After(r)[r.to].val} \ {None})
    /\ excused' = excused \cup Disturbed(r)
    /\ \/ Answer(r, Accepted(r), IF r.com = "GET_SUBKEYS" THEN store[r.to].subs ELSE {}) /\ UNCHANGED faults
       \/ Fault /\ UNCHANGED inbox
    /\ UNCHANGED <<client, left, work, overlap, flaws>>

\* The storage refuses, or the request is lost.
Refuse(r) ==
    /\ r \in net /\ r.com # "SET_ALL" /\ Fault
    /\ net' = net \ {r}
    /\ Answer(r, FALSE, {}) \/ UNCHANGED inbox
    /\ UNCHANGED <<store, client, left, work, history>>

-----------------------------------------------------------------------------
(* REN at the server of the old key.                                       *)

\* To the same name: a success.
RenSame(r) ==
    /\ r \in net /\ r.com = "REN" /\ r.to = r.arg.key
    /\ net' = net \ {r}
    /\ Answer(r, TRUE, {})
    /\ UNCHANGED <<store, client, left, work, faults, history>>

\* There is nothing to rename.
RenNothing(r) ==
    /\ r \in net /\ r.com = "REN" /\ r.to # r.arg.key /\ store[r.to].val = None
    /\ net' = net \ {r}
    /\ Answer(r, FALSE, {})
    /\ UNCHANGED <<store, client, left, work, faults, history>>

\* The element is read under the lock; without it SET_ALL is sent and waited for.
RenRead(r) ==
    LET w == [old |-> r.to, new |-> r.arg.key, val |-> store[r.to].val, from |-> r.from, id |-> r.id,
              com |-> "REN", at |-> "wait"]
    IN  /\ r \in net /\ r.com = "REN" /\ r.to # r.arg.key /\ store[r.to].val # None
        /\ work' = work \cup {w}
        /\ net' = (net \ {r}) \cup {[com |-> "SET_ALL", to |-> r.arg.key,
                                     arg |-> [Nothing EXCEPT !.val = store[r.to].val, !.subs = store[r.to].subs],
                                     from |-> r.from, id |-> r.id, n |-> r.n]}
        /\ UNCHANGED <<store, client, left, inbox, faults, history>>

Waiting(r) == {w \in work : w.from = r.from /\ w.id = r.id /\ w.at = "wait"}

\* The server of the new key serves SET_ALL, in time or not.
ServeSetAll(r) ==
    /\ r \in net /\ r.com = "SET_ALL"
    /\ net' = net \ {r}
    /\ store' = After(r)
    /\ excused' = excused \cup Disturbed(r)
    /\ work' = (work \ Waiting(r)) \cup {[w EXCEPT !.at = "remove"] : w \in Waiting(r)}
    /\ UNCHANGED <<client, left, inbox, faults, overlap, flaws, written>>

\* Mutant: no answer to SET_ALL is taken for a success.
RenFailsUnnoticed(w) ==
    /\ w \in work /\ w.at = "wait" /\ Fault
    /\ work' = (work \ {w}) \cup {[w EXCEPT !.at = "remove"]}
    /\ net' = {r \in net : r.com # "SET_ALL" \/ r.from # w.from \/ r.id # w.id}
    /\ UNCHANGED <<store, client, left, inbox, history>>

\* SET_ALL cannot be sent, is refused, or is not answered in time (then it may
\* be served all the same).
RenFails(w) ==
    /\ w \in work /\ w.at = "wait" /\ Fault
    /\ work' = work \ {w}
    /\ Answer(w, FALSE, {})
    /\ net' \in {net, {r \in net : r.com # "SET_ALL" \/ r.from # w.from \/ r.id # w.id}}
    /\ UNCHANGED <<store, client, left, history>>

\* The old key is removed, whatever it holds by now.
RenRemove(w) ==
    /\ w \in work /\ w.at = "remove"
    /\ store' = [store EXCEPT ![w.old] = Absent]
    /\ work' = work \ {w}
    /\ Answer(w, TRUE, {})
    /\ UNCHANGED <<client, left, net, faults, history>>

\* It cannot be removed: both keys exist.
RenKeepsBoth(w) ==
    /\ w \in work /\ w.at = "remove" /\ Fault
    /\ work' = work \ {w}
    /\ Answer(w, FALSE, {})
    /\ UNCHANGED <<store, client, left, net, history>>

-----------------------------------------------------------------------------
ClientStep(c) == Send(c) \/ SendFails(c) \/ TimeOut(c) \/ Receive(c) \/ Return(c)
ServerStep(r) ==
    Serve(r) \/ Refuse(r) \/ RenSame(r) \/ RenNothing(r) \/ RenRead(r) \/ ServeSetAll(r)
WorkerStep(w) == RenFails(w) \/ RenRemove(w) \/ RenKeepsBoth(w)

Next ==
    \/ \E c \in Clients : ClientStep(c) \/ \E q \in Offers(c) : Begin(c, q)
    \/ \E r \in net : ServerStep(r)
    \/ \E w \in work : WorkerStep(w)

\* Clients go on, and the requests that are not lost are served.
Fairness ==
    /\ \A c \in Clients : WF_vars(ClientStep(c))
    /\ WF_vars(\E r \in net : ServerStep(r))
    /\ WF_vars(\E w \in work : WorkerStep(w))

Spec == Init /\ [][Next]_vars /\ Fairness

-----------------------------------------------------------------------------
(* Properties.                                                             *)

Elements == [val : Keys \cup Clients \cup {None}, subs : SUBSET Keys]

\* Types; in particular a client has a request to send or to wait for unless its
\* call is over, and never more responses than it has sent requests.
TypeOK ==
    /\ store \in [Keys -> Elements]
    /\ faults \in 0 .. MaxFaults
    /\ written \cup excused \subseteq Keys \cup Clients \cup {None}
    /\ \A r \in net : r.to \in Keys /\ r.from \in Clients
    /\ \A w \in work : w.at \in {"wait", "remove"} /\ w.val # None
    /\ \A c \in Clients :
          Busy(c) => /\ client[c].at \in {"send", "wait", "end"}
                     /\ client[c].at # "end" => client[c].todo # <<>>
                     /\ Len(inbox[c]) <= client[c].sent

\* A renaming never loses the value, whatever fails in between: a value that was
\* stored is at some key, unless a request has replaced or deleted it, or has
\* stored it at the old key of a renaming after REN had read that key (as two
\* opposite renamings under way together do to each other).
RenKeepsValue == \A v \in written \ excused : \E k \in Keys : store[k].val = v

\* What a call means to do, compared with what there was before it.
Complete(c, d) ==
    LET q == d.call
    IN  CASE q.op = "set" -> store[q.key].val = c
          [] q.op = "addsub" -> store[q.sub].val = c /\ q.sub \in store[q.key].subs
          [] q.op = "delsub" -> /\ q.sub \notin store[q.key].subs
                                /\ d.skipped \/ store[q.sub].val = None
          [] q.op = "del" -> /\ store[q.key] = Absent
                             /\ d.skipped \/ \A s \in d.before[q.key].subs : store[s].val = None
          [] q.op = "ren" -> /\ store[q.sub].val = d.before[q.key].val /\ q.sub \in store[q.parent].subs
                             /\ q.key # q.sub => store[q.key].val = None /\ q.key \notin store[q.parent].subs

\* A call that sees no error and no timeout, with nobody else at work, has done
\* all it means to do: the value and the list, or the old name, the new name and
\* the parent's list.  Of a deletion only the subkeys may be left, if one of the
\* requests whose failure is ignored has failed.
SuccessIsComplete ==
    [][\A c \in Clients :
          Return(c) /\ Succeeded(client[c]) /\ ~client[c].late /\ c \notin overlap => Complete(c, client[c])]_vars

Quiet == net = {} /\ work = {} /\ \A c \in Clients : ~Busy(c)

\* When nobody is at work, a list names a key without a value only if a DEL, a
\* DEL_SUBKEY or a REN has failed between its requests (a DEL that is answered by
\* an error deletes the keys of the list all the same), or calls have met: a
\* failed ADD_SUBKEY leaves at most a value that is in no list.  (Or a root was
\* in a list.)  And such values there are only if some call has failed, or has
\* ignored a failure.  With deletions and renamings this depends on the lists: it
\* fails when a key is in two of them, or when DEL_SUBKEY deletes a key that has a
\* list of its own.
ListsMatch ==
    Quiet =>
       /\ (\E k \in Keys : \E s \in store[k].subs : store[s].val = None)
             => flaws \cap {"del", "delsub", "ren", "overlap", "root listed"} # {}
       /\ (\E s \in Keys \ Roots : store[s].val # None /\ \A k \in Keys : s \notin store[k].subs)
             => flaws # {}

\* Every call ends, also with lists that name each other, as long as not every
\* request is refused.
CallsEnd == \A c \in Clients : Busy(c) ~> ~Busy(c)
=============================================================================
