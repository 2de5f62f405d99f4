---------------------------- MODULE ClientSession ----------------------------
(***************************************************************************)
(* The C interface of a client (src/lib/k2hdkc.cc), with the slave object  *)
(* behind a handle (src/lib/k2hdkcslave.cc) and the part of                *)
(* K2hdkcCommand::CommandSending a client runs (src/lib/k2hdkccombase.cc). *)
(*                                                                         *)
(* A thread opens a handle and calls the functions k2hdkc_pm_... with it,  *)
(* or it calls the others, each of which opens a message id of chmpx for   *)
(* itself.  A call sends the requests of its command one after the other   *)
(* and takes, for each, the first response that arrives on its message id: *)
(* nothing is compared but, for the commands that bring data, the command. *)
(* A response that comes after the timeout stays for whoever asks next.    *)
(*                                                                         *)
(* What the servers do is left open: a request is served at some time with *)
(* one of the answers its handler has (Commands), and it or its response   *)
(* may be lost.  Each thread has a handle of its own; chmpx gives message  *)
(* ids that were not in use before.                                        *)
(***************************************************************************)
EXTENDS Commands, FiniteSets

CONSTANTS
    Threads,        \* threads of the client
    Offers(_, _),   \* functions a thread may call, by the calls made before
    MaxCalls,       \* bound: calls in a behaviour
    MaxMsgids       \* bound: message ids opened in a behaviour

ASSUME BoundsAssumption == MaxCalls \in Nat /\ MaxMsgids \in Nat

-----------------------------------------------------------------------------
(* The functions of the interface, by family: the requests of the command  *)
(* behind it; how the code of the handle is set (by the command's own      *)
(* response, by one made up at the end, or only if it fails); whether the  *)
(* object of the command is compared with NULL before it is used; and      *)
(* whether it is released after a failure.                                 *)

Family(steps, code, tests, frees) == [steps |-> steps, code |-> code, tests |-> tests, frees |-> frees]
Simple(com) == Family(One(com), "response", TRUE, TRUE)

GetState    == Family(StateSteps(2), "made_up_on_failure", TRUE, TRUE)
GetValue    == Simple("GET")
GetDirect   == Simple("GET_DIRECT")

\* The one-time functions for packs return without releasing the object.
GetSubkeys  == Family(One("GET_SUBKEYS"), "response", TRUE, FALSE)

\* Mutant: leaves the object as GET_SUBKEYS does.
GetAttrsLeaks == Family(One("GET_ATTRS"), "response", TRUE, FALSE)

GetAttrs    == Simple("GET_ATTRS")
SetValue    == Simple("SET")
SetDirect   == Simple("SET_DIRECT")
SetSubkeys  == Simple("SET_SUBKEYS")
SetSubkey   == Family(AddSubkeySteps, "made_up", TRUE, TRUE)
SetAll      == Simple("SET_ALL")
Remove      == Family(DelSteps(TRUE, FALSE), "response", TRUE, TRUE)
RemoveSubkey == Family(DelSubkeySteps, "made_up", TRUE, TRUE)
Rename      == Family(RenSteps(TRUE), "response", TRUE, TRUE)
QPush       == Simple("QPUSH")
QPop        == Simple("QPOP")
QRemove     == Family(QDelSteps(2), "made_up", TRUE, TRUE)

\* The functions for compare and swap use the object without looking at it.
CasInit     == Family(One("CAS_INIT"), "response", FALSE, TRUE)
CasGet      == Family(One("CAS_GET"), "response", FALSE, TRUE)
CasSet      == Family(One("CAS_SET"), "response", FALSE, TRUE)
CasIncDec   == Family(One("CAS_INCDEC"), "response", FALSE, TRUE)

Functions ==
    [get_state |-> GetState, get_value |-> GetValue, da_get_value |-> GetDirect, get_subkeys |-> GetSubkeys,
     get_attrs |-> GetAttrs, set_value |-> SetValue, da_set_value |-> SetDirect, set_subkeys |-> SetSubkeys,
     set_subkey |-> SetSubkey, set_all |-> SetAll, remove |-> Remove, remove_subkey |-> RemoveSubkey,
     rename |-> Rename, q_push |-> QPush, q_pop |-> QPop, q_remove |-> QRemove, cas_init |-> CasInit,
     cas_get |-> CasGet, cas_set |-> CasSet, cas_incdec |-> CasIncDec]

ASSUME OffersAssumption ==
    \A t \in Threads, n \in 0 .. MaxCalls : Offers(t, n) \subseteq DOMAIN Functions

-----------------------------------------------------------------------------
VARIABLES
    handle,     \* the message id of a thread's handle; 0: no handle
    code,       \* the response code a handle keeps (lastrescode)
    call,       \* the call a thread is in
    result,     \* what a thread's last call returned
    count,      \* calls so far
    opened,     \* the message ids so far, with what they were opened for
    open,       \* those that have not been closed
    net,        \* requests under way
    inbox,      \* responses that wait on a message id
    late,       \* message ids on which a request has timed out (history)
    served,     \* requests served without an error, of the calls that run and of
                \* those whose results are looked at (history)
    alien,      \* those on which a response to another request was taken (history)
    crashed     \* the client has used a null pointer

vars == <<handle, code, call, result, count, opened, open, net, inbox, late, served, alien, crashed>>
wire == <<net, inbox, late, served, alien>>

NoCode == [call |-> 0, good |-> FALSE]
Idle   == [id |-> 0]
None   == [com |-> "none"]

Init ==
    /\ handle = [t \in Threads |-> 0]
    /\ code = [t \in Threads |-> NoCode]
    /\ call = [t \in Threads |-> Idle]
    /\ result = [t \in Threads |-> Idle]
    /\ count = 0
    /\ opened = <<>>
    /\ open = {}
    /\ net = {}
    /\ inbox = [m \in 1 .. MaxMsgids |-> <<>>]
    /\ late = {}
    /\ served = {}
    /\ alien = {}
    /\ crashed = FALSE

\* Alive and not in a call.
Free(t) == ~crashed /\ call[t] = Idle

\* The next message id, opened for a purpose.
Fresh == Len(opened) + 1
Opens(t, what) ==
    /\ Fresh <= MaxMsgids
    /\ opened' = Append(opened, what)
    /\ open' = open \cup {Fresh}

\* The result of the thread's last call is no longer looked at.
Forget(t) == {s \in served : s.call # result[t].id}

\* A message id is closed: what waits on it goes.  Requests still under way are
\* served all the same, but nothing of that can be seen here.
Closes(m) ==
    /\ open' = open \ {m}
    /\ inbox' = [inbox EXCEPT ![m] = <<>>]
    /\ net' = {r \in net : r.msgid # m}

\* k2hdkc_open_chmpx.  (When chmpx cannot be reached nothing changes.)
OpenHandle(t) ==
    /\ Free(t) /\ handle[t] = 0
    /\ Opens(t, "handle")
    /\ handle' = [handle EXCEPT ![t] = Fresh]
    /\ UNCHANGED <<code, call, result, count, wire, crashed>>

\* k2hdkc_close_chmpx.
CloseHandle(t) ==
    /\ Free(t) /\ handle[t] # 0
    /\ Closes(handle[t])
    /\ handle' = [handle EXCEPT ![t] = 0]
    /\ code' = [code EXCEPT ![t] = NoCode]
    /\ result' = [result EXCEPT ![t] = Idle]
    /\ served' = Forget(t)
    /\ UNCHANGED <<call, count, opened, late, alien, crashed>>

-----------------------------------------------------------------------------
(* A call begins.                                                          *)

NewCall(f, pm, m) ==
    [id |-> count + 1, f |-> f, pm |-> pm, msgid |-> m, step |-> 1, at |-> "send",
     main |-> None, some |-> FALSE, ok |-> TRUE]

Returned(id, f, pm, m, ok, good) == [id |-> id, f |-> f, pm |-> pm, msgid |-> m, ok |-> ok, good |-> good]

\* K2hdkcSlave::GetSlaveCommandSendObject: the command shares the message id
\* and the response code of the handle.
BeginPermanent(t, f) ==
    /\ Free(t) /\ handle[t] # 0 /\ count < MaxCalls
    /\ count' = count + 1
    /\ call' = [call EXCEPT ![t] = NewCall(f, TRUE, handle[t])]
    /\ result' = [result EXCEPT ![t] = Idle]
    /\ served' = Forget(t)
    /\ UNCHANGED <<handle, code, opened, open, net, inbox, late, alien, crashed>>

\* K2hdkcCommand::GetSlaveCommandSendObject: a slave object and a message id
\* for this command alone.
BeginOneTime(t, f) ==
    /\ Free(t) /\ count < MaxCalls
    /\ count' = count + 1
    /\ Opens(t, f)
    /\ call' = [call EXCEPT ![t] = NewCall(f, FALSE, Fresh)]
    /\ result' = [result EXCEPT ![t] = Idle]
    /\ served' = Forget(t)
    /\ UNCHANGED <<handle, code, net, inbox, late, alien, crashed>>

\* chmpx cannot be reached: no object is made.
OneTimeFails(t, f) ==
    /\ Free(t) /\ count < MaxCalls
    /\ count' = count + 1
    /\ crashed' = ~Functions[f].tests
    /\ result' = [result EXCEPT ![t] = Returned(count', f, FALSE, 0, FALSE, FALSE)]
    /\ served' = Forget(t)
    /\ UNCHANGED <<handle, code, call, opened, open, net, inbox, late, alien>>

-----------------------------------------------------------------------------
(* The requests of a call.                                                 *)

StepsOf(c) == Functions[c.f].steps
StepOf(c)  == StepsOf(c)[c.step]
Stop(c)    == [c EXCEPT !.at = "end", !.ok = FALSE]

\* Mutant: does not look for the end.
AdvancePast(c) == [c EXCEPT !.at = "send", !.step = @ + 1]

Advance(c) == IF c.step = Len(StepsOf(c)) THEN [c EXCEPT !.at = "end"]
                                          ELSE [c EXCEPT !.at = "send", !.step = @ + 1]
Go(c, rule) == IF rule = "ignore" THEN Advance(c) ELSE Stop(c)

Asking(t, phase) == ~crashed /\ call[t] # Idle /\ call[t].at = phase

RequestId(c) == [call |-> c.id, step |-> c.step, com |-> StepOf(c).com, msgid |-> c.msgid]

Send(t) ==
    /\ Asking(t, "send")
    /\ net' = net \cup {RequestId(call[t])}
    /\ call' = [call EXCEPT ![t].at = "wait"]
    /\ UNCHANGED <<handle, code, result, count, opened, open, inbox, late, served, alien, crashed>>

\* Mutant: the request is under way although the call fails.
SendFailsAfterSending(t) ==
    /\ Asking(t, "send")
    /\ net' = net \cup {RequestId(call[t])}
    /\ call' = [call EXCEPT ![t] = Go(@, StepOf(@).onFail)]
    /\ UNCHANGED <<handle, code, result, count, opened, open, inbox, late, served, alien, crashed>>

SendFails(t) ==
    /\ Asking(t, "send")
    /\ call' = [call EXCEPT ![t] = Go(@, StepOf(@).onFail)]
    /\ UNCHANGED <<handle, code, result, count, opened, open, wire, crashed>>

\* Mutant: the request is sent again.
TimeOutRetries(t) ==
    /\ Asking(t, "wait") /\ inbox[call[t].msgid] = <<>>
    /\ call' = [call EXCEPT ![t].at = "send"]
    /\ late' = late \cup {call[t].msgid}
    /\ UNCHANGED <<handle, code, result, count, opened, open, net, inbox, served, alien, crashed>>

\* No response within RcvTimeout.
TimeOut(t) ==
    /\ Asking(t, "wait") /\ inbox[call[t].msgid] = <<>>
    /\ call' = [call EXCEPT ![t] = Go(@, StepOf(@).onFail)]
    /\ late' = late \cup {call[t].msgid}
    /\ UNCHANGED <<handle, code, result, count, opened, open, net, inbox, served, alien, crashed>>

Good(a) == a.kind # "error"

\* Whether a response will do: any, unless the command insists on its own.
Zeros == [p \in PartNames |-> 0]
Insists == [com \in DOMAIN SendObject(Zeros) |-> SendObject(Zeros)[com].own]

\* The first response on the message id is taken for the answer.  A command of
\* one request with a permanent slave leaves its code in the handle.
Receive(t) ==
    LET c == call[t]
        s == StepOf(c)
        a == Head(inbox[c.msgid])
        d == [c EXCEPT !.main = IF s.main THEN a ELSE @, !.some = @ \/ Good(a)]
    IN  /\ Asking(t, "wait") /\ inbox[c.msgid] # <<>>
        /\ inbox' = [inbox EXCEPT ![c.msgid] = Tail(@)]
        /\ alien' = IF a.id = RequestId(c) THEN alien ELSE alien \cup {c.msgid}
        /\ call' = [call EXCEPT ![t] =
                        IF Insists[s.com] /\ a.com # s.com THEN Go([c EXCEPT !.main = d.main], s.onFail)
                        ELSE IF Good(a) THEN Advance(d) ELSE Go(d, s.onError)]
        /\ code' = IF s.main /\ c.pm THEN [code EXCEPT ![t] = [call |-> c.id, good |-> Good(a)]] ELSE code
        /\ UNCHANGED <<handle, result, count, opened, open, net, late, served, crashed>>

-----------------------------------------------------------------------------
(* A call returns.                                                         *)

\* What the function returns: for STATE, whether any node has answered; for
\* CAS_GET, only if the value has the length asked for.
Succeeds(c) ==
    /\ c.ok
    /\ c.f = "get_state" => c.some
    /\ c.f = "cas_get" => c.main.kind = "data"

\* Mutant: a command of several requests leaves the code as it is.
CodeAfterForgets(t, c) == code[t]

\* The code of the handle: of the command's own response, set already, or made
\* up from the result.
CodeAfter(t, c) ==
    IF \/ ~c.pm \/ Functions[c.f].code = "response"
       \/ Functions[c.f].code = "made_up_on_failure" /\ Succeeds(c)
    THEN code[t]
    ELSE [call |-> c.id, good |-> Succeeds(c) \/ c.f = "get_state"]

\* A one-time object is released, with its message id; not by get_subkeys after
\* a failure.
Return(t) ==
    LET c == call[t]
        f == Functions[c.f]
        keeps == c.pm \/ (~f.frees /\ ~Succeeds(c))
    IN  /\ Asking(t, "end")
        /\ call' = [call EXCEPT ![t] = Idle]
        /\ code' = [code EXCEPT ![t] = CodeAfter(t, c)]
        /\ result' = [result EXCEPT ![t] =
                          Returned(c.id, c.f, c.pm, c.msgid, Succeeds(c),
                                   IF f.code = "response" THEN c.main # None /\ Good(c.main) ELSE Succeeds(c))]
        /\ IF keeps THEN UNCHANGED <<open, inbox, net>> ELSE Closes(c.msgid)
        /\ UNCHANGED <<handle, count, opened, late, served, alien, crashed>>

-----------------------------------------------------------------------------
(* The servers and the network.                                            *)

\* A request is served; its response reaches the message id or is lost.  (One
\* that is lost itself is never served.)
Serve(r) ==
    /\ r \in net
    /\ net' = net \ {r}
    /\ \E kind \in ReceiveObject[r.com].answers, arrives \in BOOLEAN :
          /\ served' = IF kind \notin {"error", "none"} /\ \E t \in Threads : call[t].id = r.call
                       THEN served \cup {[call |-> r.call, step |-> r.step]} ELSE served
          /\ inbox' = IF kind # "none" /\ arrives
                      THEN [inbox EXCEPT ![r.msgid] = Append(@, [id |-> r, com |-> r.com, kind |-> kind])]
                      ELSE inbox
    /\ UNCHANGED <<handle, code, call, result, count, opened, open, late, alien, crashed>>

-----------------------------------------------------------------------------
ClientStep(t) == Send(t) \/ SendFails(t) \/ TimeOut(t) \/ Receive(t) \/ Return(t)

Begin(t) ==
    \E f \in Offers(t, count) : BeginPermanent(t, f) \/ BeginOneTime(t, f) \/ OneTimeFails(t, f)

Next ==
    \/ \E t \in Threads : OpenHandle(t) \/ CloseHandle(t) \/ Begin(t) \/ ClientStep(t)
    \/ \E r \in net : Serve(r)

\* A thread in a call goes on; chmpx's receive ends at the timeout.  Nothing is
\* assumed of the servers and of the network.
Fairness == \A t \in Threads : WF_vars(ClientStep(t))

Spec == Init /\ [][Next]_vars /\ Fairness

-----------------------------------------------------------------------------
(* Properties.                                                             *)

CallType(c) ==
    \/ c = Idle
    \/ /\ c.f \in DOMAIN Functions /\ c.step \in DOMAIN StepsOf(c) /\ c.at \in {"send", "wait", "end"}
       /\ c.msgid \in open

\* Types: in particular a call is at one of its requests, and on a message id
\* that is open.
TypeOK ==
    /\ handle \in [Threads -> 0 .. MaxMsgids]
    /\ count \in 0 .. MaxCalls
    /\ open \subseteq DOMAIN opened /\ late \subseteq DOMAIN opened /\ alien \subseteq DOMAIN opened
    /\ crashed \in BOOLEAN
    /\ \A t \in Threads :
          /\ CallType(call[t])
          /\ handle[t] # 0 => handle[t] \in open
          /\ code[t].call <= count /\ result[t].id <= count

\* A response is taken for the answer to another request only on a message id
\* on which a request has timed out before: without a timeout the responses
\* come as they were asked for, though CommandSending compares nothing.
AlienOnlyAfterTimeout == alien \subseteq late

\* A call that returns true with a code of success, on a message id on which
\* nothing ever timed out, has had all the requests served it depends on: of a
\* command of several requests none was left out or has failed.
TrueMeansServed ==
    \A t \in Threads :
       LET r == result[t]
       IN  (r # Idle /\ r.ok /\ r.good /\ r.msgid \notin late) =>
              /\ \A i \in DOMAIN Functions[r.f].steps :
                    Functions[r.f].steps[i].onFail = "stop" => [call |-> r.id, step |-> i] \in served
              /\ r.f = "get_state" => \E i \in 1 .. 2 : [call |-> r.id, step |-> i] \in served

\* What k2hdkc_is_res_success says is true of the last call with the handle.
\* Not so: a response that comes after the timeout is taken by the next call.
SuccessIsOwn ==
    \A t \in Threads :
       LET r == result[t]
       IN  (r # Idle /\ r.pm /\ r.ok /\ r.good) =>
              \A i \in DOMAIN Functions[r.f].steps :
                 Functions[r.f].steps[i].onFail = "stop" => [call |-> r.id, step |-> i] \in served

\* Every open message id belongs to a handle or to a call that is running, or
\* was opened for a k2hdkc_get_subkeys that failed: those are never closed.
MsgidsAccounted ==
    \A m \in open :
       \/ \E t \in Threads : handle[t] = m
       \/ \E t \in Threads : call[t] # Idle /\ call[t].msgid = m
       \/ opened[m] = "get_subkeys"

\* After a call with a handle that returned true the code of the handle is that
\* of this call, whatever went before and however many requests it took; only
\* get_state leaves the code of an earlier call.
CodeIsOwn ==
    \A t \in Threads :
       LET r == result[t]
       IN  (r # Idle /\ call[t] = Idle /\ r.pm /\ r.ok /\ r.f # "get_state") =>
              code[t] = [call |-> r.id, good |-> r.good]

\* The lengths of the parts of a request: zero or not.
Lengths(com) == [DOMAIN SendObject(Zeros)[com].at -> 0 .. 1]

\* Whether the server finds in a request of a client what the client put there:
\* a request with all its parts is not refused, the parts it reads are in the
\* request and do not lie over each other, the fields it uses are set, and it
\* works on the key that chose it.
Understood(com) ==
    \A l \in Lengths(com) :
       LET n == Together(l, Zeros)
           q == SendObject(n)[com]
           h == ReceiveObject[com]
           Part(p) == {x \in 0 .. q.size : q.at[p] <= x /\ x < q.at[p] + n[p]}
       IN  (\A p \in q.needs \cap DOMAIN q.at : n[p] > 0) =>
              /\ h.invalid \subseteq q.needs
              /\ h.reads \subseteq DOMAIN q.at
              /\ \A p \in h.reads : q.at[p] + n[p] <= q.size
              /\ \A p, r \in h.reads : p # r => Part(p) \cap Part(r) = {}
              /\ h.uses \subseteq q.sets \/ (com = "QPOP" /\ h.uses \ q.sets = {"check_attr"})
              /\ h.key = q.hash

UnderstoodCommands == {com \in DOMAIN SendObject(Zeros) : Understood(com)}

\* Every request on its way is understood by its server (see Understood), with
\* the exception of check_attr in QPOP, which the client does not set.
RequestUnderstood == \A r \in net : r.com \in UnderstoodCommands

\* A call returns whatever the servers do, unless the client has crashed.
EveryCallReturns == \A t \in Threads : call[t] # Idle ~> (call[t] = Idle \/ crashed)
=============================================================================
