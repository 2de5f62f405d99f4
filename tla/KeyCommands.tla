----------------------------- MODULE KeyCommands -----------------------------
(***************************************************************************)
(* The commands of the k2hdkc server that read and change one key, and the *)
(* replication of the key to the other servers that hold it: the           *)
(* CommandProcessing methods of src/lib/k2hdkccom{get,set,setall,del,      *)
(* setsubkeys,addsubkeys,delsubkeys,casinit,casset,casincdec,replkey,      *)
(* repldel}.cc and K2hdkcCommand::CommandReplicate.                        *)
(*                                                                         *)
(* The bus routes the commands of a key to one server, Primary, whose      *)
(* worker threads execute them concurrently.  After the change a command   *)
(* answers, reads what the key holds by then and sends it to the other     *)
(* servers; their workers apply what arrives in any order.                 *)
(*                                                                         *)
(* The storage (K2HASH) and the bus (CHMPX) are external.  Each call of    *)
(* K2HASH is atomic and waits while another thread holds a K2HDALock of    *)
(* the key.  A number stands for a value whose length is that of an        *)
(* integer, Text for one of any other length.                              *)
(***************************************************************************)
EXTENDS Integers, FiniteSets

CONSTANTS
    Servers,     \* the servers that hold the key
    Primary,     \* the one that executes its commands
    Calls,       \* commands executed
    Requests,    \* what they may ask for: records with op, val, old and subs
    Subkeys,
    Modulus,     \* numbers are 0..Modulus - 1
    Text,        \* a value that is no number
    None,        \* no value, no request, no outcome, lock not held
    Coarse,      \* whether two readings of the clock may be equal
    MaxFaults    \* bound on the calls of K2HASH, CHMPX and malloc that fail

Numbers == 0..Modulus - 1
Values  == Numbers \cup {Text}

ASSUME KeyAssumption ==
    /\ Primary \in Servers
    /\ Modulus \in Nat \ {0}
    /\ Text \notin Numbers
    /\ None \notin Values /\ None \notin Calls /\ None \notin Requests
    /\ Coarse \in BOOLEAN
    /\ MaxFaults \in Nat

Subkeying == {"setsubs", "addsub", "delsub"}
Locking   == {"casinit", "casset", "inc", "dec", "addsub", "delsub"}
Ops       == {"get", "set", "setall", "del", "setsubs"} \cup Locking

ASSUME RequestAssumption ==
    Requests \subseteq [op : Ops, val : Values, old : Values, subs : SUBSET Subkeys]

VARIABLES
    store,      \* the element of the key at each server
    lock,       \* who holds a K2HDALock of the key at Primary
    clock,      \* CLOCK_REALTIME_COARSE, the same at all servers
    pc,         \* where each command is
    request,
    buf,        \* the value and the subkeys a command has in hand
    ts,         \* the time it gives to its replication
    outcome,    \* its response
    net,        \* replication commands not yet begun
    removing,   \* REPL_DEL that have passed the test of mtime
    faults,     \* how many calls have failed
    missed,     \* the replications among them: to which server, with which time
    misread     \* the commands that have replicated what they could not read

faultVars == <<faults, missed, misread>>
vars == <<store, lock, clock, pc, request, buf, ts, outcome, net, removing, faultVars>>

Pcs == {"idle", "get", "read", "set", "setall", "remove", "lock", "init", "cas", "casset",
        "subs", "unlock", "replace", "stamp", "reply", "copyval", "copysubs", "send", "respond", "done", "failed"}

Outcome(code, val) == [code |-> code, val |-> val]
Success == Outcome("success", None)

\* Nothing under the key: no value, no subkeys, no attributes (and no mtime).
Absent == [val |-> None, subs |-> {}, mtime |-> 0]
Here   == store[Primary]

Init ==
    /\ \E v \in {None, Text} \cup (Numbers \cap {0}) :
           store = [s \in Servers |-> [Absent EXCEPT !.val = v]]
    /\ lock = None /\ clock = 0
    /\ pc = [c \in Calls |-> "idle"]
    /\ request = [c \in Calls |-> None]
    /\ buf = [c \in Calls |-> [val |-> None, subs |-> {}]]
    /\ ts = [c \in Calls |-> 0]
    /\ outcome = [c \in Calls |-> None]
    /\ net = {} /\ removing = {}
    /\ faults = 0 /\ missed = {} /\ misread = {}

-----------------------------------------------------------------------------
(* K2HASH and the clock.                                                   *)

Goto(c, l) == pc' = [pc EXCEPT ![c] = l]

\* A call of K2HASH by c at Primary gets through.
Access(c) == lock \in {None, c}

\* The clock is read; it may show what it showed before if it is coarse.
ReadClock == clock' \in IF Coarse THEN {clock, clock + 1} ELSE {clock + 1}

\* The element at Primary is written, which stamps its mtime attribute.
Write(v, s) == store' = [store EXCEPT ![Primary] = [val |-> v, subs |-> s, mtime |-> clock']]

\* SetElementByBinArray keeps an element whose mtime is later than the time of
\* the replication, and otherwise replaces it as a whole.
Later(s, m) == m.ts < store[s].mtime
SetElementByBinArray(s, m) ==
    store' = IF Later(s, m) THEN store ELSE [store EXCEPT ![s] = m.element]

\* A call fails.  What it should have written stays as it was.
Fault == faults < MaxFaults /\ faults' = faults + 1

-----------------------------------------------------------------------------
(* Commands at Primary.                                                    *)

\* A worker begins CommandProcessing.
Receive(c, rq) ==
    /\ pc[c] = "idle"
    /\ request' = [request EXCEPT ![c] = rq]
    /\ buf' = [buf EXCEPT ![c] = [val |-> rq.val, subs |-> rq.subs]]
    /\ Goto(c, CASE rq.op \in Locking -> "lock"
                 [] rq.op = "get"     -> "get"
                 [] rq.op = "set"     -> "read"
                 [] rq.op = "setall"  -> "setall"
                 [] rq.op = "del"     -> "remove"
                 [] rq.op = "setsubs" -> "replace")
    /\ UNCHANGED <<store, lock, clock, ts, outcome, net, removing, faultVars>>

\* GET: a missing value is an answer, not an error.
Get(c) ==
    /\ pc[c] = "get" /\ Access(c)
    /\ outcome' = [outcome EXCEPT ![c] =
                      Outcome(IF Here.val = None THEN "nodata" ELSE "success", Here.val)]
    /\ Goto(c, "respond")
    /\ UNCHANGED <<store, lock, clock, request, buf, ts, net, removing, faultVars>>

\* SET without rm_subkeylist reads the subkeys first, to write them back.
ReadSubkeys(c) ==
    /\ pc[c] = "read" /\ Access(c)
    /\ buf' = [buf EXCEPT ![c].subs = Here.subs]
    /\ Goto(c, "set")
    /\ UNCHANGED <<store, lock, clock, request, ts, outcome, net, removing, faultVars>>

\* The write of SET, which nobody has locked the key for,
Set(c) ==
    /\ pc[c] = "set" /\ Access(c)
    /\ ReadClock /\ Write(buf[c].val, buf[c].subs)
    /\ outcome' = [outcome EXCEPT ![c] = Success]
    /\ Goto(c, "stamp")
    /\ UNCHANGED <<lock, request, buf, ts, net, removing, faultVars>>

\* and the one of SET_ALL.
SetAll(c) ==
    /\ pc[c] = "setall" /\ Access(c)
    /\ ReadClock /\ Write(request[c].val, request[c].subs)
    /\ outcome' = [outcome EXCEPT ![c] = Success]
    /\ Goto(c, "stamp")
    /\ UNCHANGED <<lock, request, buf, ts, net, removing, faultVars>>

\* DEL; the keys its subkeys name have been deleted by the sender.
Remove(c) ==
    /\ pc[c] = "remove" /\ Access(c)
    /\ store' = [store EXCEPT ![Primary] = Absent]
    /\ outcome' = [outcome EXCEPT ![c] = Success]
    /\ Goto(c, "stamp")
    /\ UNCHANGED <<lock, clock, request, buf, ts, net, removing, faultVars>>

\* Mutant: the lock object is created for the wrong key, and locks nothing.
LockNothing(c) ==
    /\ pc[c] = "lock" /\ lock = None
    /\ Goto(c, CASE request[c].op = "casinit" -> "init"
                 [] request[c].op \in Subkeying -> "subs"
                 [] OTHER -> "cas")
    /\ UNCHANGED <<store, lock, clock, request, buf, ts, outcome, net, removing, faultVars>>

\* K2HDALock* pLock = new K2HDALock(...)
Lock(c) ==
    /\ pc[c] = "lock" /\ lock = None
    /\ lock' = c
    /\ Goto(c, CASE request[c].op = "casinit" -> "init"
                 [] request[c].op \in Subkeying -> "subs"
                 [] OTHER -> "cas")
    /\ UNCHANGED <<store, clock, request, buf, ts, outcome, net, removing, faultVars>>

\* Why a compare and swap, or a count, is refused.
Refusal(rq, v) ==
    CASE v = None -> "nodata"
      [] rq.op = "casset" /\ v \notin {None, rq.old} -> "notsameval"
      [] rq.op \in {"inc", "dec"} /\ v \notin Numbers \cup {None} -> "notsamedatatype"
      [] OTHER -> "none"

\* Mutant: counts beyond the width of the value.
CountedNoWrap(op, v) ==
    IF op = "inc" THEN v + 1 ELSE IF v = 0 THEN Modulus - 1 ELSE v - 1

\* Unsigned integers wrap around.
Counted(op, v) ==
    IF op = "inc" THEN IF v = Modulus - 1 THEN 0 ELSE v + 1
                  ELSE IF v = 0 THEN Modulus - 1 ELSE v - 1

\* CAS_SET, CAS_INC and CAS_DEC get the value under the lock and return early,
CasRefused(c) ==
    /\ pc[c] = "cas" /\ Refusal(request[c], Here.val) # "none"
    /\ outcome' = [outcome EXCEPT ![c] = Outcome(Refusal(request[c], Here.val), None)]
    /\ lock' = None
    /\ Goto(c, "respond")
    /\ UNCHANGED <<store, clock, request, buf, ts, net, removing, faultVars>>

\* or go on with the value to set.
CasAccepted(c) ==
    /\ pc[c] = "cas" /\ Refusal(request[c], Here.val) = "none"
    /\ buf' = [buf EXCEPT ![c].val = IF request[c].op = "casset" THEN request[c].val
                                     ELSE Counted(request[c].op, Here.val)]
    /\ Goto(c, "casset")
    /\ UNCHANGED <<store, lock, clock, request, ts, outcome, net, removing, faultVars>>

\* CAS_INIT sets without a look at what the key holds.
CasInit(c) ==
    /\ pc[c] = "init" /\ Access(c)
    /\ ReadClock /\ Write(request[c].val, Here.subs)
    /\ outcome' = [outcome EXCEPT ![c] = Success]
    /\ Goto(c, "unlock")
    /\ UNCHANGED <<lock, request, buf, ts, net, removing, faultVars>>

\* The CAS commands keep the subkeys.
CasSet(c) ==
    /\ pc[c] = "casset" /\ Access(c)
    /\ ReadClock /\ Write(buf[c].val, Here.subs)
    /\ outcome' = [outcome EXCEPT ![c] = Success]
    /\ Goto(c, "unlock")
    /\ UNCHANGED <<lock, request, buf, ts, net, removing, faultVars>>

\* ADD_SUBKEYS inserts into the list it gets under the lock.
AddSubkey(c) ==
    /\ pc[c] = "subs" /\ request[c].op = "addsub"
    /\ buf' = [buf EXCEPT ![c].subs = Here.subs \cup request[c].subs]
    /\ Goto(c, "unlock")
    /\ UNCHANGED <<store, lock, clock, request, ts, outcome, net, removing, faultVars>>

\* DEL_SUBKEYS: no list is a success, a list without the subkey an error, and
\* neither is replicated.
DelSubkeyEarly(c) ==
    /\ pc[c] = "subs" /\ request[c].op = "delsub"
    /\ Here.subs = {} \/ ~(request[c].subs \subseteq Here.subs)
    /\ outcome' = [outcome EXCEPT ![c] =
                      Outcome(IF Here.subs = {} THEN "success" ELSE "delskeylist", None)]
    /\ lock' = None
    /\ Goto(c, "respond")
    /\ UNCHANGED <<store, clock, request, buf, ts, net, removing, faultVars>>

DelSubkey(c) ==
    /\ pc[c] = "subs" /\ request[c].op = "delsub"
    /\ Here.subs # {} /\ request[c].subs \subseteq Here.subs
    /\ buf' = [buf EXCEPT ![c].subs = Here.subs \ request[c].subs]
    /\ Goto(c, "unlock")
    /\ UNCHANGED <<store, lock, clock, request, ts, outcome, net, removing, faultVars>>

\* The lock is deleted: after the write of a CAS command, but before that of a
\* command on subkeys.
Unlock(c) ==
    /\ pc[c] = "unlock"
    /\ lock' = None
    /\ Goto(c, IF request[c].op \in Subkeying THEN "replace" ELSE "stamp")
    /\ UNCHANGED <<store, clock, request, buf, ts, outcome, net, removing, faultVars>>

\* ReplaceSubkeys, also the one write of SET_SUBKEYS.  Whether K2HASH stamps
\* the element is not to be seen in this code: both are allowed.
ReplaceSubkeys(c) ==
    /\ pc[c] = "replace" /\ Access(c)
    /\ ReadClock
    /\ \/ Write(Here.val, buf[c].subs)
       \/ store' = [store EXCEPT ![Primary].subs = buf[c].subs]
    /\ outcome' = [outcome EXCEPT ![c] = Success]
    /\ Goto(c, "stamp")
    /\ UNCHANGED <<lock, request, buf, ts, net, removing, faultVars>>

\* What a write that fails is answered with.
WriteError(op) ==
    CASE op = "setall"  -> "setall"
      [] op = "del"     -> "delkey"
      [] op = "setsubs" -> "setskeylist"
      [] op = "addsub"  -> "addskeylist"
      [] op = "delsub"  -> "delskeylist"
      [] OTHER          -> "setval"

\* The command returns early, after it has deleted its lock object.
GiveUp(c, code) ==
    /\ outcome' = [outcome EXCEPT ![c] = Outcome(code, None)]
    /\ lock' = IF lock = c THEN None ELSE lock
    /\ Goto(c, "respond")

\* Mutant: the early return after a failing Set does not delete the lock object.
WriteFailsLocked(c) ==
    /\ pc[c] \in {"set", "setall", "remove", "init", "casset", "replace"} /\ Access(c) /\ Fault
    /\ outcome' = [outcome EXCEPT ![c] = Outcome(WriteError(request[c].op), None)]
    /\ Goto(c, "respond")
    /\ UNCHANGED <<store, lock, clock, request, buf, ts, net, removing, missed, misread>>

\* The write of a command fails, under the lock or not: it answers that and
\* replicates nothing.
WriteFails(c) ==
    /\ pc[c] \in {"set", "setall", "remove", "init", "casset", "replace"} /\ Access(c) /\ Fault
    /\ GiveUp(c, WriteError(request[c].op))
    /\ UNCHANGED <<store, clock, request, buf, ts, net, removing, missed, misread>>

\* A list of subkeys cannot be extended, or not be serialized, under the lock.
EditFails(c) ==
    /\ pc[c] = "subs" /\ Fault
    /\ request[c].op = "delsub" => Here.subs # {} /\ request[c].subs \subseteq Here.subs
    /\ \E code \in {"internal"} \cup IF request[c].op = "addsub" THEN {"addskeylist"} ELSE {} :
           GiveUp(c, code)
    /\ UNCHANGED <<store, clock, request, buf, ts, net, removing, missed, misread>>

\* A read that fails is taken for a key that has nothing: GET and the CAS
\* commands find no value, DEL_SUBKEYS no list to delete from,
ReadFails(c) ==
    /\ \/ pc[c] \in {"get", "cas"}
       \/ pc[c] = "subs" /\ request[c].op = "delsub"
    /\ Access(c) /\ Fault
    /\ GiveUp(c, IF pc[c] = "subs" THEN "success" ELSE "nodata")
    /\ UNCHANGED <<store, clock, request, buf, ts, net, removing, missed, misread>>

\* SET writes no list back, and ADD_SUBKEYS one that has nothing but the new ones.
ReadSubkeysFails(c) ==
    /\ \/ pc[c] = "read"
       \/ pc[c] = "subs" /\ request[c].op = "addsub"
    /\ Access(c) /\ Fault
    /\ buf' = [buf EXCEPT ![c].subs = IF pc[c] = "read" THEN {} ELSE request[c].subs]
    /\ Goto(c, IF pc[c] = "read" THEN "set" ELSE "unlock")
    /\ UNCHANGED <<store, lock, clock, request, ts, outcome, net, removing, missed, misread>>

-----------------------------------------------------------------------------
(* Answer and replication, the same for every command that has changed the *)
(* key.                                                                    *)

Others == Servers \ {Primary}

\* The replications of a command, as the ones that are missed.
Unsent(c) == {[to |-> s, ts |-> ts[c]] : s \in Others}

\* INIT_DKC_TIMESPEC(ts), after the change.
Stamp(c) ==
    /\ pc[c] = "stamp"
    /\ ReadClock
    /\ ts' = [ts EXCEPT ![c] = clock']
    /\ Goto(c, "reply")
    /\ UNCHANGED <<store, lock, request, buf, outcome, net, removing, faultVars>>

\* ReplyResponse, before replication ("reply assap").
ReplyResponse(c) ==
    /\ pc[c] = "reply"
    /\ Goto(c, IF request[c].op = "del" THEN "send" ELSE "copyval")
    /\ UNCHANGED <<store, lock, clock, request, buf, ts, outcome, net, removing, faultVars>>

\* The response cannot be sent: CommandProcessing returns false, and a change
\* that has been made is not replicated.
ReplyFails(c) ==
    /\ pc[c] \in {"reply", "respond"} /\ Fault
    /\ missed' = IF pc[c] = "reply" THEN missed \cup Unsent(c) ELSE missed
    /\ Goto(c, "failed")
    /\ UNCHANGED <<store, lock, clock, request, buf, ts, outcome, net, removing, misread>>

\* The response of a command that has changed nothing.
Respond(c) ==
    /\ pc[c] = "respond"
    /\ Goto(c, "done")
    /\ UNCHANGED <<store, lock, clock, request, buf, ts, outcome, net, removing, faultVars>>

\* Mutant: keeps the value the command itself has set.
CopyOwnValue(c) ==
    /\ pc[c] = "copyval" /\ Access(c)
    /\ Goto(c, "copysubs")
    /\ UNCHANGED <<store, lock, clock, request, buf, ts, outcome, net, removing, faultVars>>

\* CommandReplicate reads the value,
CopyValue(c) ==
    /\ pc[c] = "copyval" /\ Access(c)
    /\ buf' = [buf EXCEPT ![c].val = Here.val]
    /\ Goto(c, "copysubs")
    /\ UNCHANGED <<store, lock, clock, request, ts, outcome, net, removing, faultVars>>

\* then the subkeys,
CopySubkeys(c) ==
    /\ pc[c] = "copysubs" /\ Access(c)
    /\ buf' = [buf EXCEPT ![c].subs = Here.subs]
    /\ Goto(c, "send")
    /\ UNCHANGED <<store, lock, clock, request, ts, outcome, net, removing, faultVars>>

ReplKey(c, s) == [from |-> c, to |-> s, ts |-> ts[c],
                  element |-> [val |-> buf[c].val, subs |-> buf[c].subs, mtime |-> Here.mtime]]
ReplDel(c, s) == [from |-> c, to |-> s, ts |-> ts[c], element |-> Absent]
IsDel(m) == request[m.from].op = "del"

\* and the attributes, and sends REPL_KEY to all servers but itself.
CommandReplicate(c) ==
    /\ pc[c] = "send" /\ request[c].op # "del" /\ Access(c)
    /\ net' = net \cup {ReplKey(c, s) : s \in Others}
    /\ Goto(c, "done")
    /\ UNCHANGED <<store, lock, clock, request, buf, ts, outcome, removing, faultVars>>

\* K2hdkcComDel sends REPL_DEL instead, and reads nothing.
CommandReplicateDel(c) ==
    /\ pc[c] = "send" /\ request[c].op = "del"
    /\ net' = net \cup {ReplDel(c, s) : s \in Others}
    /\ Goto(c, "done")
    /\ UNCHANGED <<store, lock, clock, request, buf, ts, outcome, removing, faultVars>>

\* A read that fails is taken for a key that has nothing here, too: the other
\* servers are sent no value, no subkeys or no attributes.
CopyFails(c) ==
    /\ pc[c] \in {"copyval", "copysubs", "send"} /\ request[c].op # "del" /\ Access(c) /\ Fault
    /\ \/ /\ pc[c] = "copyval"
          /\ buf' = [buf EXCEPT ![c].val = None]
          /\ Goto(c, "copysubs") /\ UNCHANGED net
       \/ /\ pc[c] = "copysubs"
          /\ buf' = [buf EXCEPT ![c].subs = {}]
          /\ Goto(c, "send") /\ UNCHANGED net
       \/ /\ pc[c] = "send"
          /\ net' = net \cup {[ReplKey(c, s) EXCEPT !.element.mtime = 0] : s \in Others}
          /\ Goto(c, "done") /\ UNCHANGED buf
    /\ misread' = misread \cup {c}
    /\ UNCHANGED <<store, lock, clock, request, ts, outcome, removing, missed>>

\* Nothing can be sent: "but continue...", the command has been answered.
ReplicateFails(c) ==
    /\ pc[c] = "send" /\ Fault
    /\ missed' = missed \cup Unsent(c)
    /\ Goto(c, "done")
    /\ UNCHANGED <<store, lock, clock, request, buf, ts, outcome, net, removing, misread>>

\* Mutant: REPL_KEY replaces whatever the server has.
ReplKeyAlways(m) ==
    /\ m \in net /\ ~IsDel(m)
    /\ store' = [store EXCEPT ![m.to] = m.element]
    /\ net' = net \ {m}
    /\ UNCHANGED <<lock, clock, pc, request, buf, ts, outcome, removing, faultVars>>

\* REPL_KEY at another server.
ReplKeyProcessing(m) ==
    /\ m \in net /\ ~IsDel(m)
    /\ SetElementByBinArray(m.to, m)
    /\ net' = net \ {m}
    /\ UNCHANGED <<lock, clock, pc, request, buf, ts, outcome, removing, faultVars>>

\* REPL_DEL reads the attributes and compares the times,
ReplDelCheck(m) ==
    /\ m \in net /\ IsDel(m)
    /\ net' = net \ {m}
    /\ removing' = IF Later(m.to, m) THEN removing ELSE removing \cup {m}
    /\ UNCHANGED <<store, lock, clock, pc, request, buf, ts, outcome, faultVars>>

\* takes attributes that it cannot read for those of an older key,
ReplDelMisreads(m) ==
    /\ m \in net /\ IsDel(m) /\ Fault
    /\ net' = net \ {m}
    /\ removing' = removing \cup {m}
    /\ UNCHANGED <<store, lock, clock, pc, request, buf, ts, outcome, missed, misread>>

\* and removes the key with another call.
ReplDelRemove(m) ==
    /\ m \in removing
    /\ store' = [store EXCEPT ![m.to] = Absent]
    /\ removing' = removing \ {m}
    /\ UNCHANGED <<lock, clock, pc, request, buf, ts, outcome, net, faultVars>>

\* A replication does not arrive,
Lose(m) ==
    /\ m \in net /\ Fault
    /\ net' = net \ {m}
    /\ missed' = missed \cup {[to |-> m.to, ts |-> m.ts]}
    /\ UNCHANGED <<store, lock, clock, pc, request, buf, ts, outcome, removing, misread>>

\* or arrives, and cannot be written; nobody sends it again.
ReplKeyFails(m) ==
    /\ m \in net /\ ~IsDel(m) /\ Fault
    /\ net' = net \ {m}
    /\ missed' = missed \cup {[to |-> m.to, ts |-> m.ts]}
    /\ UNCHANGED <<store, lock, clock, pc, request, buf, ts, outcome, removing, misread>>

ReplDelFails(m) ==
    /\ m \in removing /\ Fault
    /\ removing' = removing \ {m}
    /\ missed' = missed \cup {[to |-> m.to, ts |-> m.ts]}
    /\ UNCHANGED <<store, lock, clock, pc, request, buf, ts, outcome, net, misread>>

-----------------------------------------------------------------------------
\* What a worker of Primary does with a command once it has begun.
CommandProcessing(c) ==
    \/ Get(c) \/ ReadSubkeys(c) \/ Set(c) \/ SetAll(c) \/ Remove(c)
    \/ Lock(c) \/ CasInit(c) \/ CasRefused(c) \/ CasAccepted(c) \/ CasSet(c)
    \/ AddSubkey(c) \/ DelSubkeyEarly(c) \/ DelSubkey(c) \/ Unlock(c) \/ ReplaceSubkeys(c)
    \/ Stamp(c) \/ ReplyResponse(c) \/ Respond(c)
    \/ CopyValue(c) \/ CopySubkeys(c) \/ CommandReplicate(c) \/ CommandReplicateDel(c)

\* What may go wrong in it.
CommandFails(c) ==
    \/ WriteFails(c) \/ EditFails(c) \/ ReadFails(c) \/ ReadSubkeysFails(c)
    \/ ReplyFails(c) \/ CopyFails(c) \/ ReplicateFails(c)

Replication ==
    \/ \E m \in net : \/ ReplKeyProcessing(m) \/ ReplDelCheck(m)
                       \/ ReplDelMisreads(m) \/ Lose(m) \/ ReplKeyFails(m)
    \/ \E m \in removing : ReplDelRemove(m) \/ ReplDelFails(m)

\* All commands have been executed and all replications applied.
Quiet ==
    /\ \A c \in Calls : pc[c] \in {"idle", "done", "failed"}
    /\ net = {} /\ removing = {}

Next ==
    \/ \E c \in Calls, rq \in Requests : Receive(c, rq)
    \/ \E c \in Calls : CommandProcessing(c) \/ CommandFails(c)
    \/ Replication
    \/ Quiet /\ UNCHANGED vars

Spec == Init /\ [][Next]_vars

\* The workers run.
Fairness == \A c \in Calls : WF_vars(CommandProcessing(c))

FairSpec == Spec /\ Fairness

-----------------------------------------------------------------------------
(* Properties.                                                             *)

\* The type invariant.
Codes == {"success", "nodata", "notsameval", "notsamedatatype", "setval", "setall", "delkey",
          "setskeylist", "addskeylist", "delskeylist", "internal"}
TypeOK ==
    /\ store \in [Servers -> [val : Values \cup {None}, subs : SUBSET Subkeys, mtime : Nat]]
    /\ lock \in Calls \cup {None}
    /\ clock \in Nat
    /\ pc \in [Calls -> Pcs]
    /\ request \in [Calls -> Requests \cup {None}]
    /\ buf \in [Calls -> [val : Values \cup {None}, subs : SUBSET Subkeys]]
    /\ ts \in [Calls -> Nat]
    /\ outcome \in [Calls -> [code : Codes, val : Values \cup {None}] \cup {None}]
    /\ net \cup removing \subseteq
           [from : Calls, to : Others, ts : Nat,
            element : [val : Values \cup {None}, subs : SUBSET Subkeys, mtime : Nat]]
    /\ faults \in Nat
    /\ missed \subseteq [to : Others, ts : Nat]
    /\ misread \subseteq Calls

Register == INSTANCE KeyRegister WITH value <- Here.val, asked <- request

\* The value of the key is an atomic register: every command, the ones that
\* lock the key and the ones that do not, takes effect at one moment on the
\* value of that moment (k2hdkccomcasset.cc, k2hdkccomcasincdec.cc).
ValueIsRegister == Register!Spec

\* A command that has begun is answered, or fails to be: no early return of
\* the handlers, after a refusal or a failing call of K2HASH, leaves the key
\* locked for the others.
Answered == \A c \in Calls : (pc[c] \notin {"idle", "done", "failed"}) ~> (pc[c] \in {"done", "failed"})

Deleted == \E c \in Calls : request[c] # None /\ request[c].op = "del"

\* Replications carry what the key held some time after the change and arrive
\* in any order; in the end a server has the value Primary has, unless it has
\* missed a replication that was stamped since Primary was last written: the
\* next one that arrives makes good for any that were not sent, were lost or
\* could not be written.  Nothing is said of a key that was deleted or copied
\* with a read that failed, or when the clock did not tell the changes apart.
ReplicasAgree ==
    Quiet /\ ~Deleted /\ misread = {} /\ ~Coarse =>
        \A s \in Others : \/ store[s].val = Here.val
                         \/ \E r \in missed : r.to = s /\ r.ts >= Here.mtime

\* A server never replaces what it has by something older: CommandReplicate
\* takes the time before it reads what it sends.
ReplicaNeverGoesBack ==
    [][~Deleted' /\ misread' = {} => \A s \in Others : store'[s].mtime >= store[s].mtime]_vars

-----------------------------------------------------------------------------
(* What comments and messages of the code say and its behaviour does not   *)
(* keep.                                                                   *)

\* "for locking data" (src/lib/k2hdkccomaddsubkeys.cc:104): when nothing but
\* ADD_SUBKEYS was executed, all the subkeys that were added are there.
AddedSubkeysKept ==
    Quiet /\ (\A c \in Calls : request[c] # None => request[c].op = "addsub")
        => \A c \in Calls : outcome[c] = Success => request[c].subs \subseteq Here.subs
=============================================================================
