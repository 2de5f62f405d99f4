------------------------ MODULE CompositeCommandsProofs ------------------------
(***************************************************************************)
(* Proofs about CompositeCommands, for any number of clients, keys, calls  *)
(* and faults.                                                             *)
(***************************************************************************)
EXTENDS CompositeCommands, FiniteSetTheorems, SequenceTheorems, TLAPS

\* Requests, responses and renamings.
Values == Keys \cup Clients \cup {None}
TaskComs == {"SET", "DEL", "ADD_SUBKEYS", "DEL_SUBKEYS", "GET_SUBKEYS", "REN"}
Steps == [com : TaskComs, onFail : {"stop", "ignore"}, onError : {"stop", "ignore"}, main : BOOLEAN]
Args == [val : Values, key : Keys \cup {None}, subs : SUBSET Keys, nested : BOOLEAN]
NamesKey(com) == com \in {"ADD_SUBKEYS", "DEL_SUBKEYS", "REN"}
Tasks == {t \in [step : Steps, to : Keys, arg : Args] : NamesKey(t.step.com) => t.arg.key \in Keys}
Requests ==
    {r \in [com : TaskComs \cup {"SET_ALL"}, to : Keys, arg : Args, from : Clients, id : Nat, n : Nat] :
        NamesKey(r.com) => r.arg.key \in Keys}
Responses == [com : TaskComs, good : BOOLEAN, list : SUBSET Keys]
Renamings ==
    {w \in [old : Keys, new : Keys, val : Values \ {None}, from : Clients, id : Nat, com : {"REN"},
            at : {"wait", "remove"}] : w.old # w.new}

\* A client in a call has a request to send or to wait for unless the call is
\* over; if a request left to do is a renaming it is the first of the call.
InCall(d) ==
    /\ {"at", "call", "todo", "sent", "main", "ok", "late", "skipped", "before"} \subseteq DOMAIN d
    /\ d.at \in {"send", "wait", "end"}
    /\ d.todo \in Seq(Tasks) /\ d.sent \in Nat
    /\ d.at # "end" => d.todo # <<>>
    /\ d.at = "wait" => d.sent > 0
    /\ \A i \in 1 .. Len(d.todo) : d.todo[i].step.com = "REN" => i = 1 /\ (d.at = "send" => d.sent = 0)

ClientInv ==
    /\ client = [c \in Clients |-> client[c]]
    /\ left \in [Clients -> Nat]
    /\ \A c \in Clients : IF client[c].at = "rest" THEN client[c] = Rest ELSE InCall(client[c]) /\ left[c] > 0

ServerInv ==
    /\ store \in [Keys -> Elements]
    /\ net \subseteq Requests /\ IsFiniteSet(net)
    /\ inbox \in [Clients -> Seq(Responses)]
    /\ work \subseteq Renamings /\ IsFiniteSet(work)
    /\ faults \in 0 .. MaxFaults
    /\ written \subseteq Values \ {None} /\ excused \subseteq Values

\* Whether a request or a renaming x is of the call a client is about to make,
\* or is in.
Own(x, c) == x.from = c /\ x.id = left[c]

\* No request is of a call that is not yet made; a client that is not in a call
\* has no responses, and one that has sent nothing no request.
IdInv ==
    /\ \A x \in net \cup work : x.id > left[x.from] \/ (x.id = left[x.from] /\ Busy(x.from))
    /\ \A c \in Clients : ~Busy(c) => inbox[c] = <<>>
    /\ \A c \in Clients : client[c].at = "send" /\ client[c].sent = 0 => \A x \in net \cup work : ~Own(x, c)

\* What a server may still answer in the call of a client.
Open(c) == {r \in net : r.com # "SET_ALL" /\ Own(r, c)} \cup {w \in work : Own(w, c)}
CountInv == \A c \in Clients : Busy(c) => Cardinality(Open(c)) + Len(inbox[c]) <= client[c].sent

\* There is one thing at a time for a renaming: the request, the renaming under
\* way with SET_ALL or without, or SET_ALL alone.
Same(x, y) == x.from = y.from /\ x.id = y.id
Renames(r) == r.com \in {"REN", "SET_ALL"}
RenInv ==
    /\ \A r, s \in net : Renames(r) /\ Renames(s) /\ Same(r, s) => r = s
    /\ \A w, x \in work : Same(w, x) => w = x
    /\ \A r \in net, w \in work : Renames(r) /\ Same(r, w) =>
          r.com = "SET_ALL" /\ w.at = "wait" /\ r.to = w.new /\ r.arg.val = w.val

\* Every value is on record, and the old key of a renaming holds the value that
\* was read, unless something has come between.
ValueInv ==
    /\ \A k \in Keys : store[k].val \in written \cup {None}
    /\ \A r \in net : r.com = "SET_ALL" => r.arg.val \in written
    /\ \A w \in work : store[w.old].val \in {w.val, None} \cup excused

\* A value that nothing has replaced is at a key that no renaming is about to
\* remove.
Kept(v, k) == store[k].val = v /\ \A w \in work : w.at = "remove" => w.old # k
SafeInv == \A v \in written \ excused : \E k \in Keys : Kept(v, k)

RenameInv == ClientInv /\ ServerInv /\ IdInv /\ CountInv /\ RenInv /\ ValueInv /\ SafeInv

-----------------------------------------------------------------------------
(* The tasks of a call.                                                    *)

\* No request of these is a renaming.
NoRen(s) == \A i \in 1 .. Len(s) : s[i].step.com # "REN"

\* The call is one a client may make.
Fits(q) ==
    /\ q.op \in {"set", "addsub", "delsub", "del", "ren"} /\ q.key \in Keys
    /\ q.op \in {"addsub", "delsub", "ren"} => q.sub \in Keys
    /\ q.op = "ren" => q.parent \in Keys

\* A step of a composite command, and the command it sends.
IsStep(s, com) == s \in Steps /\ s.com = com

LEMMA StepIs ==
    ASSUME NEW com \in TaskComs, NEW f \in {"stop", "ignore"}, NEW e \in {"stop", "ignore"}, NEW m \in BOOLEAN
    PROVE  IsStep(Step(com, f, e, m), com)
BY DEF IsStep, Step, Steps

LEMMA Joined ==
    ASSUME NEW T, NEW a \in T, NEW b \in T, NEW c \in Seq(T)
    PROVE  /\ ((<<a>> \o <<b>>) \o c)[1] = a /\ ((<<a>> \o <<b>>) \o c)[2] = b
           /\ c # <<>> => ((<<a>> \o <<b>>) \o c)[3] = c[1]
<1>1. <<a>> \in Seq(T) /\ <<b>> \in Seq(T) /\ Len(<<a>>) = 1 /\ Len(<<b>>) = 1 /\ <<a>>[1] = a /\ <<b>>[1] = b
    OBVIOUS
<1>2. PICK u : u = <<a>> \o <<b>>
    OBVIOUS
<1>3. u \in Seq(T) /\ Len(u) = 2 /\ u[1] = a /\ u[2] = b
    BY <1>1, <1>2, ConcatProperties
<1>4. PICK n \in Nat : n = Len(c)
    OBVIOUS
<1>5. c # <<>> => n >= 1
    BY <1>4
<1>6. PICK v : v = u \o c
    OBVIOUS
<1>7. \A i \in 1 .. 2 + n : v[i] = IF i <= 2 THEN u[i] ELSE c[i - 2]
    <2>1. PICK m \in Nat : m = Len(u)
        BY <1>3
    <2>2. \A i \in 1 .. m + n : v[i] = IF i <= m THEN u[i] ELSE c[i - m]
        BY <1>3, <1>4, <1>6, <2>1, ConcatProperties
    <2>3. m = 2
        BY <1>3, <2>1
    <2> QED
        BY <2>2, <2>3
<1>8. v[1] = a /\ v[2] = b /\ (c # <<>> => v[3] = c[1])
    BY <1>3, <1>5, <1>7
<1> QED
    BY <1>2, <1>6, <1>8

LEMMA StepsAre ==
    /\ IsStep(One("SET")[1], "SET")
    /\ IsStep(AddSubkeySteps[1], "SET") /\ IsStep(AddSubkeySteps[2], "ADD_SUBKEYS")
    /\ IsStep(DelSubkeySteps[1], "DEL") /\ IsStep(DelSubkeySteps[2], "DEL_SUBKEYS")
    /\ IsStep(DelSteps(TRUE, TRUE)[1], "GET_SUBKEYS") /\ IsStep(DelSteps(TRUE, TRUE)[2], "DEL")
    /\ IsStep(DelSteps(TRUE, FALSE)[3], "SET")
    /\ IsStep(RenSteps(TRUE)[1], "REN") /\ IsStep(RenSteps(TRUE)[2], "DEL_SUBKEYS")
    /\ IsStep(RenSteps(TRUE)[3], "ADD_SUBKEYS")
    /\ IsStep(Step("DEL", "ignore", "ignore", FALSE), "DEL")
<1>1. /\ IsStep(One("SET")[1], "SET")
      /\ IsStep(AddSubkeySteps[1], "SET") /\ IsStep(AddSubkeySteps[2], "ADD_SUBKEYS")
      /\ IsStep(DelSubkeySteps[1], "DEL") /\ IsStep(DelSubkeySteps[2], "DEL_SUBKEYS")
      /\ IsStep(Step("DEL", "ignore", "ignore", FALSE), "DEL")
    BY StepIs DEF One, AddSubkeySteps, DelSubkeySteps, TaskComs
<1>2. /\ IsStep(RenSteps(TRUE)[1], "REN") /\ IsStep(RenSteps(TRUE)[2], "DEL_SUBKEYS")
      /\ IsStep(RenSteps(TRUE)[3], "ADD_SUBKEYS")
    BY StepIs DEF RenSteps, TaskComs
<1>3. IsStep(DelSteps(TRUE, TRUE)[1], "GET_SUBKEYS") /\ IsStep(DelSteps(TRUE, TRUE)[2], "DEL")
    <2> DEFINE p == Step("GET_SUBKEYS", "ignore", "ignore", FALSE)
               d == Step("DEL", "stop", "ignore", TRUE)
    <2>1. IsStep(p, "GET_SUBKEYS") /\ IsStep(d, "DEL")
        BY StepIs DEF TaskComs
    <2>2. DelSteps(TRUE, TRUE) = (<<p>> \o <<d>>) \o <<>>
        BY DEF DelSteps
    <2> HIDE DEF p, d
    <2>3. p \in Steps /\ d \in Steps /\ <<>> \in Seq(Steps)
        BY <2>1 DEF IsStep
    <2>4. PICK e : e = <<>>
        OBVIOUS
    <2>5. ((<<p>> \o <<d>>) \o e)[1] = p /\ ((<<p>> \o <<d>>) \o e)[2] = d
        BY <2>3, <2>4, Joined
    <2> QED
        BY <2>1, <2>2, <2>4, <2>5
<1>4. IsStep(DelSteps(TRUE, FALSE)[3], "SET")
    <2> DEFINE p == Step("GET_SUBKEYS", "ignore", "ignore", FALSE)
               d == Step("DEL", "stop", "ignore", TRUE)
               e == Step("SET", "ignore", "ignore", FALSE)
    <2>1. IsStep(p, "GET_SUBKEYS") /\ IsStep(d, "DEL") /\ IsStep(e, "SET")
        BY StepIs DEF TaskComs
    <2>2. DelSteps(TRUE, FALSE) = (<<p>> \o <<d>>) \o <<e>>
        BY DEF DelSteps
    <2> HIDE DEF p, d, e
    <2>3. PICK f : f = <<e>>
        OBVIOUS
    <2>4. p \in Steps /\ d \in Steps /\ f \in Seq(Steps) /\ f # <<>> /\ f[1] = e
        BY <2>1, <2>3 DEF IsStep
    <2>5. ((<<p>> \o <<d>>) \o f)[3] = e
        BY <2>4, Joined
    <2> QED
        BY <2>1, <2>2, <2>3, <2>5
<1> QED
    BY <1>1, <1>2, <1>3, <1>4

\* A task that sends com.
IsTask(t, com) == t \in Tasks /\ t.step.com = com

LEMMA TaskIs ==
    ASSUME NEW com, NEW s, IsStep(s, com), NEW to \in Keys, NEW arg \in Args, NamesKey(com) => arg.key \in Keys
    PROVE  IsTask(Task(s, to, arg), com)
<1> DEFINE t == Task(s, to, arg)
<1>1. t \in [step : Steps, to : Keys, arg : Args] /\ t.step = s /\ t.arg = arg
    BY DEF Task, IsStep
<1> QED
    BY <1>1 DEF Tasks, IsTask, IsStep

LEMMA ArgsAre ==
    /\ Nothing \in Args
    /\ \A v \in Values : Value(v) \in Args
    /\ \A k \in Keys : Name(k) \in Args /\ Name(k).key = k
    /\ \A b \in BOOLEAN : [Nothing EXCEPT !.nested = b] \in Args
    /\ \A l \in SUBSET Keys : [Nothing EXCEPT !.subs = l] \in Args
<1>1. None \in Values
    BY DEF Values
<1> QED
    BY <1>1 DEF Nothing, Value, Name, Args

LEMMA TaskWith ==
    ASSUME NEW com, NEW s, IsStep(s, com), NEW to \in Keys
    PROVE  /\ ~NamesKey(com) => \A arg \in Args : IsTask(Task(s, to, arg), com)
           /\ \A k \in Keys : IsTask(Task(s, to, Name(k)), com)
<1>1. ASSUME ~NamesKey(com), NEW arg \in Args PROVE IsTask(Task(s, to, arg), com)
    BY <1>1, TaskIs
<1>2. ASSUME NEW k \in Keys PROVE IsTask(Task(s, to, Name(k)), com)
    <2>1. Name(k) \in Args /\ Name(k).key \in Keys
        BY ArgsAre
    <2> QED
        BY <2>1, TaskIs
<1> QED
    BY <1>1, <1>2

LEMMA Unnamed == ~NamesKey("SET") /\ ~NamesKey("DEL") /\ ~NamesKey("GET_SUBKEYS")
BY DEF NamesKey

LEMMA ListTasks ==
    ASSUME NEW k \in Keys, NEW b \in BOOLEAN, NEW l \in SUBSET Keys
    PROVE  /\ IsTask(ReadList(k, b), "GET_SUBKEYS")
           /\ IsTask(DeleteKey(k, b, l), "DEL")
           /\ IsTask(Task(DelSteps(TRUE, FALSE)[3], k, Nothing), "SET")
<1>1. IsTask(ReadList(k, b), "GET_SUBKEYS")
    <2>1. [Nothing EXCEPT !.nested = b] \in Args
        BY ArgsAre
    <2>2. IsTask(Task(DelSteps(TRUE, TRUE)[1], k, [Nothing EXCEPT !.nested = b]), "GET_SUBKEYS")
        BY <2>1, StepsAre, TaskWith, Unnamed
    <2> QED
        BY <2>2 DEF ReadList
<1>2. IsTask(DeleteKey(k, b, l), "DEL")
    <2> DEFINE s == IF b THEN Step("DEL", "ignore", "ignore", FALSE) ELSE DelSteps(TRUE, TRUE)[2]
    <2>1. [Nothing EXCEPT !.subs = l] \in Args
        BY ArgsAre
    <2>2. IsStep(s, "DEL")
        BY StepsAre
    <2> HIDE DEF s
    <2>3. IsTask(Task(s, k, [Nothing EXCEPT !.subs = l]), "DEL")
        BY <2>1, <2>2, TaskWith, Unnamed
    <2> QED
        BY <2>3 DEF DeleteKey, s
<1>3. IsTask(Task(DelSteps(TRUE, FALSE)[3], k, Nothing), "SET")
    BY StepsAre, ArgsAre, TaskWith, Unnamed
<1> QED
    BY <1>1, <1>2, <1>3

\* Every call begins with something to do, and its renaming comes first.
Begins(s) ==
    /\ s \in Seq(Tasks) /\ s # <<>>
    /\ \A i \in 1 .. Len(s) : s[i].step.com = "REN" => i = 1

LEMMA TasksOfCall ==
    ASSUME NEW c \in Clients, NEW q, Fits(q)
    PROVE  Begins(TasksOf(c, q))
<1>0. Value(c) \in Args /\ Nothing \in Args
    BY ArgsAre DEF Values
<1>1. CASE q.op = "set"
    <2>1. PICK t : t = Task(One("SET")[1], q.key, Value(c))
        OBVIOUS
    <2>2. IsTask(t, "SET")
        BY <1>0, <2>1, StepsAre, TaskWith, Unnamed DEF Fits
    <2>3. TasksOf(c, q) = <<t>>
        BY <1>1, <2>1 DEF TasksOf, SetTasks
    <2> QED
        BY <2>2, <2>3 DEF IsTask, Begins
<1>2. CASE q.op = "addsub"
    <2>0. q.key \in Keys /\ q.sub \in Keys
        BY <1>2 DEF Fits
    <2>1. PICK t, u : t = Task(AddSubkeySteps[1], q.sub, Value(c)) /\ u = Task(AddSubkeySteps[2], q.key, Name(q.sub))
        OBVIOUS
    <2>2. IsTask(t, "SET") /\ IsTask(u, "ADD_SUBKEYS")
        BY <1>0, <2>0, <2>1, StepsAre, TaskWith, Unnamed
    <2>3. TasksOf(c, q) = <<t, u>>
        BY <1>2, <2>1 DEF TasksOf, AddSubkeyTasks
    <2> QED
        BY <2>2, <2>3 DEF IsTask, Begins
<1>3. CASE q.op = "delsub"
    <2>0. q.key \in Keys /\ q.sub \in Keys
        BY <1>3 DEF Fits
    <2>1. PICK t, u : t = Task(DelSubkeySteps[1], q.sub, Nothing) /\ u = Task(DelSubkeySteps[2], q.key, Name(q.sub))
        OBVIOUS
    <2>2. IsTask(t, "DEL") /\ IsTask(u, "DEL_SUBKEYS")
        BY <1>0, <2>0, <2>1, StepsAre, TaskWith, Unnamed
    <2>3. TasksOf(c, q) = <<t, u>>
        BY <1>3, <2>1 DEF TasksOf, DelSubkeyTasks
    <2> QED
        BY <2>2, <2>3 DEF IsTask, Begins
<1>4. CASE q.op = "del"
    <2>1. PICK t : t = ReadList(q.key, FALSE)
        OBVIOUS
    <2>2. IsTask(t, "GET_SUBKEYS")
        BY <2>1, ListTasks DEF Fits
    <2>3. TasksOf(c, q) = <<t>>
        BY <1>4, <2>1 DEF TasksOf, DelTasks
    <2> QED
        BY <2>2, <2>3 DEF IsTask, Begins
<1>5. CASE q.op = "ren"
    <2>0. q.key \in Keys /\ q.sub \in Keys /\ q.parent \in Keys
        BY <1>5 DEF Fits
    <2>1. PICK t, u, v : /\ t = Task(RenSteps(TRUE)[1], q.key, Name(q.sub))
                         /\ u = Task(RenSteps(TRUE)[2], q.parent, Name(q.key))
                         /\ v = Task(RenSteps(TRUE)[3], q.parent, Name(q.sub))
        OBVIOUS
    <2>2. IsTask(t, "REN") /\ IsTask(u, "DEL_SUBKEYS") /\ IsTask(v, "ADD_SUBKEYS")
        BY <2>0, <2>1, StepsAre, TaskWith
    <2>3. TasksOf(c, q) = <<t, u, v>>
        BY <1>5, <2>1 DEF TasksOf, RenTasks
    <2>4. u.step.com # "REN" /\ v.step.com # "REN" /\ t \in Tasks /\ u \in Tasks /\ v \in Tasks
        BY <2>2 DEF IsTask
    <2> QED
        BY <2>3, <2>4 DEF Begins
<1> QED
    BY <1>1, <1>2, <1>3, <1>4, <1>5 DEF Fits

\* A list of keys in some order.
LEMMA InOrder ==
    ASSUME NEW S \in SUBSET Keys
    PROVE  SetToSeq(S) \in Seq(Keys)
<1>1. IsFiniteSet(S)
    BY CompositeAssumption, FS_Subset
<1>2. Cardinality(S) \in Nat /\ ExistsBijection(1 .. Cardinality(S), S)
    BY <1>1, FS_CardinalityType
<1>3. PICK f : f \in Bijection(1 .. Cardinality(S), S)
    BY <1>2 DEF ExistsBijection
<1>4. f \in [1 .. Cardinality(S) -> S] /\ IsInjective(f)
    BY <1>3 DEF Bijection, Injection, IsInjective
<1>5. SetToSeq(S) \in [1 .. Cardinality(S) -> S]
    BY <1>4 DEF SetToSeq
<1> QED
    BY <1>2, <1>5

\* What is added to the tasks of a call is well formed, and no renaming.
Adds(s) == s \in Seq(Tasks) /\ NoRen(s)

LEMMA AddsTogether ==
    ASSUME NEW s, NEW t, Adds(s), Adds(t)
    PROVE  Adds(s \o t)
BY DEF Adds, NoRen

LEMMA FollowingTasks ==
    ASSUME NEW t \in Tasks, NEW failed, NEW l \in SUBSET Keys, NEW safe
    PROVE  Adds(Following(t, failed, l, safe))
<1>0. t.to \in Keys /\ t.arg \in Args /\ t.arg.nested \in BOOLEAN /\ t.arg.subs \in SUBSET Keys
    BY DEF Tasks, Args
<1>1. CASE t.step.com = "GET_SUBKEYS"
    <2>1. PICK d : d = DeleteKey(t.to, t.arg.nested, l)
        OBVIOUS
    <2>2. IsTask(d, "DEL")
        BY <1>0, <2>1, ListTasks
    <2>3. Following(t, failed, l, safe) = <<d>>
        BY <1>1, <2>1 DEF Following
    <2> QED
        BY <2>2, <2>3 DEF IsTask, Adds, NoRen
<1>2. CASE t.step.com = "DEL" /\ ~failed
    <2>1. PICK e : e = Task(DelSteps(TRUE, FALSE)[3], t.to, Nothing)
        OBVIOUS
    <2>2. IsTask(e, "SET")
        BY <1>0, <2>1, ListTasks
    <2>3. PICK k \in Seq(Keys) : k = SetToSeq(t.arg.subs)
        BY <1>0, InOrder
    <2>4. PICK p : p = [i \in DOMAIN k |-> ReadList(k[i], TRUE)]
        OBVIOUS
    <2>5. ASSUME NEW i \in DOMAIN k PROVE IsTask(p[i], "GET_SUBKEYS")
        <3>1. k[i] \in Keys /\ p[i] = ReadList(k[i], TRUE)
            BY <2>4
        <3> QED
            BY <3>1, ListTasks
    <2>6. Adds(p)
        <3>1. Len(k) \in Nat /\ DOMAIN k = 1 .. Len(k)
            OBVIOUS
        <3>2. p \in [1 .. Len(k) -> Tasks]
            BY <2>4, <2>5, <3>1 DEF IsTask
        <3>3. p \in Seq(Tasks) /\ Len(p) = Len(k)
            BY <3>1, <3>2
        <3> QED
            BY <2>5, <3>1, <3>3 DEF IsTask, Adds, NoRen
    <2>7. Adds(<<>>) /\ Adds(<<e>>)
        BY <2>2 DEF IsTask, Adds, NoRen
    <2>8. Following(t, failed, l, safe) = p \o (IF safe THEN <<>> ELSE <<e>>)
        BY <1>2, <2>1, <2>3, <2>4 DEF Following, DeletedThen
    <2> QED
        BY <2>6, <2>7, <2>8, AddsTogether
<1>3. CASE ~(t.step.com = "GET_SUBKEYS") /\ ~(t.step.com = "DEL" /\ ~failed)
    BY <1>3 DEF Following, Adds, NoRen
<1> QED
    BY <1>1, <1>2, <1>3

-----------------------------------------------------------------------------
(* What the steps do to the calls.                                         *)

\* A request of the call is done with: it goes on, or ends.
Moved(d, e) == InCall(e) /\ e.sent = d.sent /\ e.at # "wait"
GoesOn(c) == \E e : Moved(client[c], e) /\ client' = [client EXCEPT ![c] = e]

LEMMA ProceedMoves ==
    ASSUME NEW c, NEW d, InCall(d), d.todo # <<>>, NEW failed, NEW good, NEW l \in SUBSET Keys, NEW safe,
           Proceed(c, d, failed, good, l, safe)
    PROVE  \E e : Moved(d, e) /\ client' = [client EXCEPT ![c] = e]
<1> DEFINE t == Head(d.todo)
           todo == Following(t, failed, l, safe) \o Tail(d.todo)
           u == [d EXCEPT !.skipped = @ \/ (~good /\ ~t.step.main), !.main = IF t.step.main THEN good ELSE @]
           stops == \/ failed /\ t.step.onFail = "stop"
                    \/ ~failed /\ ~good /\ t.step.onError = "stop"
           e1 == [u EXCEPT !.at = "end", !.ok = FALSE]
           e2 == [u EXCEPT !.at = IF todo = <<>> THEN "end" ELSE "send", !.todo = todo]
<1>0. /\ {"at", "call", "todo", "sent", "main", "ok", "late", "skipped", "before"} \subseteq DOMAIN d
      /\ d.todo \in Seq(Tasks) /\ d.sent \in Nat
      /\ \A i \in 1 .. Len(d.todo) : d.todo[i].step.com = "REN" => i = 1
    BY DEF InCall
<1>1. Adds(Following(t, failed, l, safe))
    <2>1. t \in Tasks
        BY <1>0
    <2> QED
        BY <2>1, FollowingTasks
<1>2. Adds(Tail(d.todo))
    <2>1. Tail(d.todo) \in Seq(Tasks) /\ Len(Tail(d.todo)) = Len(d.todo) - 1 /\ Len(d.todo) \in Nat
        BY <1>0
    <2>2. ASSUME NEW i \in 1 .. Len(Tail(d.todo)) PROVE Tail(d.todo)[i].step.com # "REN"
        <3>1. Tail(d.todo)[i] = d.todo[i + 1] /\ i + 1 \in 1 .. Len(d.todo) /\ i + 1 # 1
            BY <1>0, <2>1
        <3> QED
            BY <1>0, <3>1
    <2> QED
        BY <2>1, <2>2 DEF Adds, NoRen
<1>3. Adds(todo)
    BY <1>1, <1>2, AddsTogether
<1>4. DOMAIN u = DOMAIN d /\ u.todo = d.todo /\ u.sent = d.sent
    BY <1>0
<1> HIDE DEF u, todo
<1>5. DOMAIN e1 = DOMAIN d /\ e1.todo = d.todo /\ e1.sent = d.sent /\ e1.at = "end"
    BY <1>0, <1>4
<1>6. DOMAIN e2 = DOMAIN d /\ e2.todo = todo /\ e2.sent = d.sent /\ e2.at = IF todo = <<>> THEN "end" ELSE "send"
    BY <1>0, <1>4
<1> HIDE DEF e1, e2
<1>7. Moved(d, e1)
    BY <1>0, <1>5 DEF Moved, InCall
<1>8. Moved(d, e2)
    BY <1>0, <1>3, <1>6 DEF Moved, InCall, Adds, NoRen
<1>9. client' = [client EXCEPT ![c] = IF stops THEN e1 ELSE e2]
    BY Zenon DEF Proceed, e1, e2, u, todo
<1> QED
    BY <1>7, <1>8, <1>9

\* A client that is in a call.
LEMMA CalledIs ==
    ASSUME ClientInv, NEW c \in Clients, Busy(c)
    PROVE  InCall(client[c]) /\ left[c] > 0
BY DEF ClientInv, Busy

LEMMA SendFailsGoesOn ==
    ASSUME ClientInv, NEW c \in Clients, SendFails(c)
    PROVE  GoesOn(c) /\ Busy(c)
<1>1. client[c].at = "send" /\ Busy(c)
    BY DEF SendFails, Busy
<1>2. InCall(client[c]) /\ client[c].todo # <<>>
    BY <1>1, CalledIs DEF InCall
<1>3. PICK safe \in AllSafe : Proceed(c, client[c], TRUE, FALSE, {}, safe)
    BY DEF SendFails
<1> QED
    BY <1>1, <1>2, <1>3, ProceedMoves DEF GoesOn

LEMMA TimeOutGoesOn ==
    ASSUME ClientInv, NEW c \in Clients, TimeOut(c)
    PROVE  GoesOn(c) /\ Busy(c)
<1>1. client[c].at = "wait" /\ Busy(c)
    BY DEF TimeOut, Busy
<1>2. InCall(client[c]) /\ client[c].todo # <<>>
    BY <1>1, CalledIs DEF InCall
<1>3. PICK d : d = [client[c] EXCEPT !.late = TRUE]
    OBVIOUS
<1>4. DOMAIN d = DOMAIN client[c] /\ d.at = client[c].at /\ d.todo = client[c].todo /\ d.sent = client[c].sent
    BY <1>2, <1>3 DEF InCall
<1>5. InCall(d) /\ d.todo # <<>>
    BY <1>2, <1>4 DEF InCall
<1>6. PICK safe \in AllSafe : Proceed(c, d, TRUE, FALSE, {}, safe)
    BY <1>3 DEF TimeOut
<1>7. PICK e : Moved(d, e) /\ client' = [client EXCEPT ![c] = e]
    BY <1>5, <1>6, ProceedMoves
<1> QED
    BY <1>1, <1>4, <1>7 DEF GoesOn, Moved

LEMMA ReceiveGoesOn ==
    ASSUME ClientInv, inbox \in [Clients -> Seq(Responses)], NEW c \in Clients, Receive(c)
    PROVE  GoesOn(c) /\ Busy(c)
<1> DEFINE a == Head(inbox[c])
           wrong == Now(c).step.com = "GET_SUBKEYS" /\ a.com # "GET_SUBKEYS"
<1>1. client[c].at = "wait" /\ Busy(c) /\ inbox[c] # <<>>
    BY DEF Receive, Busy
<1>2. InCall(client[c]) /\ client[c].todo # <<>>
    BY <1>1, CalledIs DEF InCall
<1>3. a \in Responses
    BY <1>1
<1>4. (IF wrong THEN {} ELSE a.list) \in SUBSET Keys
    BY <1>3 DEF Responses
<1>5. PICK safe \in AllSafe : Proceed(c, client[c], wrong, ~wrong /\ a.good, IF wrong THEN {} ELSE a.list, safe)
    BY DEF Receive
<1> HIDE DEF wrong
<1>6. \E e : Moved(client[c], e) /\ client' = [client EXCEPT ![c] = e]
    BY <1>2, <1>4, <1>5, ProceedMoves
<1> QED
    BY <1>1, <1>6 DEF GoesOn

LEMMA ClientChanges ==
    ASSUME ClientInv, NEW c \in Clients, NEW e, client' = [client EXCEPT ![c] = e]
    PROVE  /\ client'[c] = e /\ \A x \in Clients : x # c => client'[x] = client[x]
           /\ client' = [x \in Clients |-> client'[x]]
BY DEF ClientInv

LEMMA SendIs ==
    ASSUME ClientInv, NEW c \in Clients, Send(c)
    PROVE  /\ client[c].at = "send" /\ InCall(client[c]) /\ left[c] > 0
           /\ InCall(client'[c]) /\ client'[c].at = "wait" /\ client'[c].sent = client[c].sent + 1
           /\ \A x \in Clients : x # c => client'[x] = client[x]
           /\ client' = [x \in Clients |-> client'[x]]
<1>1. client[c].at = "send" /\ InCall(client[c]) /\ left[c] > 0
    BY CalledIs DEF Send, Busy
<1>2. PICK e : e = [client[c] EXCEPT !.at = "wait", !.sent = @ + 1]
    OBVIOUS
<1>3. client' = [client EXCEPT ![c] = e]
    BY <1>2 DEF Send, ClientInv
<1>4. DOMAIN e = DOMAIN client[c] /\ e.at = "wait" /\ e.sent = client[c].sent + 1 /\ e.todo = client[c].todo
    BY <1>1, <1>2 DEF InCall
<1>5. InCall(e)
    BY <1>1, <1>4 DEF InCall
<1>6. /\ client'[c] = e /\ \A x \in Clients : x # c => client'[x] = client[x]
      /\ client' = [x \in Clients |-> client'[x]]
    BY <1>3, ClientChanges
<1> QED
    BY <1>1, <1>4, <1>5, <1>6

\* A client that is not in a call begins one that it may make.
LEMMA BeginIs ==
    ASSUME ClientInv, NEW c \in Clients, NEW q \in Offers(c), Begin(c, q)
    PROVE  /\ ~Busy(c) /\ left[c] > 0
           /\ InCall(client'[c]) /\ client'[c].at = "send" /\ client'[c].sent = 0
           /\ \A x \in Clients : x # c => client'[x] = client[x]
           /\ client' = [x \in Clients |-> client'[x]]
<1>1. Fits(q)
    BY CompositeAssumption DEF Fits
<1>2. PICK p : p = TasksOf(c, q)
    OBVIOUS
<1>3. Begins(p)
    BY <1>1, <1>2, TasksOfCall
<1>4. PICK e : e = [at |-> "send", call |-> q, todo |-> p, sent |-> 0,
                    main |-> TRUE, ok |-> TRUE, late |-> FALSE, skipped |-> FALSE, before |-> store]
    OBVIOUS
<1>5. client' = [client EXCEPT ![c] = e] /\ ~Busy(c) /\ left[c] > 0
    BY <1>2, <1>4 DEF Begin
<1>6. /\ DOMAIN e = {"at", "call", "todo", "sent", "main", "ok", "late", "skipped", "before"}
      /\ e.at = "send" /\ e.sent = 0 /\ e.todo = p
    BY <1>4
<1>7. InCall(e)
    BY <1>3, <1>6 DEF InCall, Begins
<1>8. /\ client'[c] = e /\ \A x \in Clients : x # c => client'[x] = client[x]
      /\ client' = [x \in Clients |-> client'[x]]
    BY <1>5, ClientChanges
<1> QED
    BY <1>5, <1>6, <1>7, <1>8

LEMMA GoesOnIs ==
    ASSUME ClientInv, NEW c \in Clients, Busy(c), GoesOn(c)
    PROVE  /\ InCall(client[c]) /\ left[c] > 0
           /\ InCall(client'[c]) /\ client'[c].at # "wait" /\ client'[c].sent = client[c].sent
           /\ \A x \in Clients : x # c => client'[x] = client[x]
           /\ client' = [x \in Clients |-> client'[x]]
<1>1. PICK e : Moved(client[c], e) /\ client' = [client EXCEPT ![c] = e]
    BY DEF GoesOn
<1>2. /\ client'[c] = e /\ \A x \in Clients : x # c => client'[x] = client[x]
      /\ client' = [x \in Clients |-> client'[x]]
    BY <1>1, ClientChanges
<1>3. InCall(client[c]) /\ left[c] > 0
    BY CalledIs
<1> QED
    BY <1>1, <1>2, <1>3 DEF Moved

LEMMA ReturnIs ==
    ASSUME ClientInv, NEW c \in Clients, Return(c)
    PROVE  /\ Busy(c) /\ client'[c] = Rest /\ left[c] > 0 /\ left'[c] = left[c] - 1
           /\ left' \in [Clients -> Nat]
           /\ \A x \in Clients : x # c => client'[x] = client[x] /\ left'[x] = left[x]
           /\ client' = [x \in Clients |-> client'[x]]
<1>1. Busy(c)
    BY DEF Return, Busy
<1>2. left[c] > 0 /\ left \in [Clients -> Nat]
    BY <1>1, CalledIs DEF ClientInv
<1>3. client' = [client EXCEPT ![c] = Rest] /\ left' = [left EXCEPT ![c] = @ - 1]
    BY DEF Return
<1>4. /\ client'[c] = Rest /\ \A x \in Clients : x # c => client'[x] = client[x]
      /\ client' = [x \in Clients |-> client'[x]]
    BY <1>3, ClientChanges
<1> QED
    BY <1>1, <1>2, <1>3, <1>4

LEMMA ClientInvStep ==
    ASSUME ClientInv, ServerInv, [Next]_vars
    PROVE  ClientInv'
<1>1. ASSUME NEW c \in Clients, InCall(client'[c]), left[c] > 0, left' = left,
             \A x \in Clients : x # c => client'[x] = client[x],
             client' = [x \in Clients |-> client'[x]]
      PROVE  ClientInv'
    BY <1>1 DEF ClientInv, InCall
<1>2. ASSUME NEW c \in Clients, Send(c) PROVE ClientInv'
    <2>1. left' = left
        BY <1>2 DEF Send
    <2> QED
        BY <1>1, <1>2, <2>1, SendIs
<1>3. ASSUME NEW c \in Clients, SendFails(c) PROVE ClientInv'
    <2>1. left' = left
        BY <1>3 DEF SendFails
    <2> QED
        BY <1>1, <1>3, <2>1, SendFailsGoesOn, GoesOnIs
<1>4. ASSUME NEW c \in Clients, TimeOut(c) PROVE ClientInv'
    <2>1. left' = left
        BY <1>4 DEF TimeOut
    <2> QED
        BY <1>1, <1>4, <2>1, TimeOutGoesOn, GoesOnIs
<1>5. ASSUME NEW c \in Clients, Receive(c) PROVE ClientInv'
    <2>1. left' = left /\ inbox \in [Clients -> Seq(Responses)]
        BY <1>5 DEF Receive, ServerInv
    <2> QED
        BY <1>1, <1>5, <2>1, ReceiveGoesOn, GoesOnIs
<1>6. ASSUME NEW c \in Clients, Return(c) PROVE ClientInv'
    <2>1. /\ Busy(c) /\ client'[c] = Rest /\ left[c] > 0 /\ left'[c] = left[c] - 1
          /\ left' \in [Clients -> Nat]
          /\ \A x \in Clients : x # c => client'[x] = client[x] /\ left'[x] = left[x]
          /\ client' = [x \in Clients |-> client'[x]]
        BY <1>6, ReturnIs
    <2>2. Rest.at = "rest"
        BY DEF Rest
    <2> QED
        BY <2>1, <2>2 DEF ClientInv
<1>7. ASSUME NEW c \in Clients, NEW q \in Offers(c), Begin(c, q) PROVE ClientInv'
    <2>1. left' = left
        BY <1>7 DEF Begin
    <2> QED
        BY <1>1, <1>7, <2>1, BeginIs
<1>8. CASE UNCHANGED <<client, left>>
    BY <1>8 DEF ClientInv
<1>9. ASSUME NEW r \in net, ServerStep(r) PROVE UNCHANGED <<client, left>>
    BY <1>9 DEF ServerStep, Serve, Refuse, RenSame, RenNothing, RenRead, ServeSetAll
<1>10. ASSUME NEW w \in work, WorkerStep(w) PROVE UNCHANGED <<client, left>>
    BY <1>10 DEF WorkerStep, RenFails, RenRemove, RenKeepsBoth
<1>11. CASE UNCHANGED vars
    BY <1>8, <1>11 DEF vars
<1> QED
    BY <1>2, <1>3, <1>4, <1>5, <1>6, <1>7, <1>8, <1>9, <1>10, <1>11 DEF Next, ClientStep

-----------------------------------------------------------------------------
(* What the steps do to the requests, the responses and the keys.          *)

LEMMA RequestIs ==
    ASSUME ServerInv, NEW r \in net
    PROVE  /\ r.com \in TaskComs \cup {"SET_ALL"} /\ r.to \in Keys /\ r.from \in Clients /\ r.id \in Nat /\ r.n \in Nat
           /\ r.arg.val \in Values /\ r.arg.key \in Keys \cup {None} /\ r.arg.subs \in SUBSET Keys
           /\ NamesKey(r.com) => r.arg.key \in Keys
<1>1. r \in Requests
    BY DEF ServerInv
<1>2. r.arg \in Args
    BY <1>1 DEF Requests
<1>3. r.arg.val \in Values /\ r.arg.key \in Keys \cup {None} /\ r.arg.subs \in SUBSET Keys
    BY <1>2 DEF Args
<1> QED
    BY <1>1, <1>3 DEF Requests

LEMMA RenamingIs ==
    ASSUME ServerInv, NEW w \in work
    PROVE  /\ w.old \in Keys /\ w.new \in Keys /\ w.old # w.new /\ w.val \in Values \ {None} /\ w.from \in Clients
           /\ w.id \in Nat /\ w.com = "REN" /\ w.at \in {"wait", "remove"}
BY DEF ServerInv, Renamings

\* A request changes the key it goes to and no other.
LEMMA AfterIs ==
    ASSUME ServerInv, NEW r \in net, r.com # "REN"
    PROVE  /\ After(r) \in [Keys -> Elements]
           /\ \A k \in Keys : k # r.to => After(r)[k] = store[k]
           /\ r.com \in {"SET", "SET_ALL"} => After(r)[r.to].val = r.arg.val
           /\ r.com = "DEL" => After(r)[r.to].val = None
           /\ r.com \notin {"SET", "SET_ALL", "DEL"} => After(r)[r.to].val = store[r.to].val
<1>1. /\ r.com \in TaskComs \cup {"SET_ALL"} /\ r.to \in Keys
      /\ r.arg.val \in Values /\ r.arg.subs \in SUBSET Keys
      /\ NamesKey(r.com) => r.arg.key \in Keys
    BY RequestIs
<1>2. store \in [Keys -> Elements]
    BY DEF ServerInv
<1>3. PICK d \in Elements : d = store[r.to]
    BY <1>1, <1>2
<1>4. d.val \in Values /\ d.subs \in SUBSET Keys /\ d = [val |-> d.val, subs |-> d.subs]
    BY DEF Elements, Values
<1>5. ASSUME NEW v \in Values, NEW s \in SUBSET Keys PROVE [val |-> v, subs |-> s] \in Elements
    BY DEF Elements, Values
<1>6. ASSUME NEW e \in Elements, After(r) = [store EXCEPT ![r.to] = e]
      PROVE  /\ After(r) \in [Keys -> Elements] /\ After(r)[r.to] = e
             /\ \A k \in Keys : k # r.to => After(r)[k] = store[k]
    BY <1>1, <1>2, <1>6
<1>7. CASE r.com = "SET"
    <2>1. PICK e : e = [val |-> r.arg.val, subs |-> d.subs]
        OBVIOUS
    <2>2. e \in Elements /\ e.val = r.arg.val
        BY <1>1, <1>4, <1>5, <2>1
    <2>3. [d EXCEPT !.val = r.arg.val] = e
        BY <1>4, <2>1
    <2>4. After(r) = [store EXCEPT ![r.to] = e]
        BY <1>2, <1>3, <1>7, <2>3 DEF After, Put
    <2> QED
        BY <1>6, <1>7, <2>2, <2>4
<1>8. CASE r.com = "SET_ALL"
    <2>1. PICK e : e = [val |-> r.arg.val, subs |-> r.arg.subs]
        OBVIOUS
    <2>2. e \in Elements /\ e.val = r.arg.val
        BY <1>1, <1>5, <2>1
    <2>3. After(r) = [store EXCEPT ![r.to] = e]
        BY <1>8, <2>1 DEF After
    <2> QED
        BY <1>6, <1>8, <2>2, <2>3
<1>9. CASE r.com = "DEL"
    <2>1. Absent \in Elements /\ Absent.val = None
        BY DEF Absent, Elements
    <2>2. After(r) = [store EXCEPT ![r.to] = Absent]
        BY <1>9 DEF After
    <2> QED
        BY <1>6, <1>9, <2>1, <2>2
<1>10. CASE r.com = "ADD_SUBKEYS"
    <2>0. r.arg.key \in Keys
        BY <1>1, <1>10 DEF NamesKey
    <2>1. PICK e : e = [val |-> d.val, subs |-> d.subs \cup {r.arg.key}]
        OBVIOUS
    <2>2. e \in Elements /\ e.val = d.val
        <3>1. d.subs \cup {r.arg.key} \in SUBSET Keys
            BY <1>4, <2>0
        <3> QED
            BY <1>4, <1>5, <2>1, <3>1
    <2>3. [d EXCEPT !.subs = @ \cup {r.arg.key}] = e
        BY <1>4, <2>1
    <2>4. After(r) = [store EXCEPT ![r.to] = e]
        BY <1>2, <1>3, <1>10, <2>3 DEF After
    <2> QED
        BY <1>3, <1>6, <1>10, <2>2, <2>4
<1>11. CASE r.com = "DEL_SUBKEYS"
    <2>1. PICK e : e = [val |-> d.val, subs |-> d.subs \ {r.arg.key}]
        OBVIOUS
    <2>2. e \in Elements /\ e.val = d.val
        <3>1. d.subs \ {r.arg.key} \in SUBSET Keys
            BY <1>4
        <3> QED
            BY <1>4, <1>5, <2>1, <3>1
    <2>3. [d EXCEPT !.subs = @ \ {r.arg.key}] = e
        BY <1>4, <2>1
    <2>4. After(r) = [store EXCEPT ![r.to] = e]
        BY <1>2, <1>3, <1>11, <2>3 DEF After
    <2> QED
        BY <1>3, <1>6, <1>11, <2>2, <2>4
<1>12. CASE r.com = "GET_SUBKEYS"
    BY <1>2, <1>12 DEF After
<1> QED
    BY <1>1, <1>7, <1>8, <1>9, <1>10, <1>11, <1>12 DEF TaskComs

\* An answer is one more response, if the client is still in the call.
LEMMA AnswerIs ==
    ASSUME inbox \in [Clients -> Seq(Responses)], NEW r, r.from \in Clients, r.com \in TaskComs,
           NEW good \in BOOLEAN, NEW l \in SUBSET Keys, Answer(r, good, l)
    PROVE  /\ inbox' \in [Clients -> Seq(Responses)]
           /\ \A c \in Clients : \/ inbox'[c] = inbox[c]
                                 \/ Busy(c) /\ Own(r, c) /\ Len(inbox'[c]) = Len(inbox[c]) + 1
<1>1. PICK a : a = [com |-> r.com, good |-> good, list |-> l]
    OBVIOUS
<1>2. a \in Responses
    BY <1>1 DEF Responses
<1>3. CASE Current(r)
    <2>1. inbox' = [inbox EXCEPT ![r.from] = Append(@, a)]
        BY <1>1, <1>3 DEF Answer
    <2>2. Busy(r.from) /\ Own(r, r.from)
        BY <1>3 DEF Current, Own
    <2>3. Append(inbox[r.from], a) \in Seq(Responses) /\ Len(Append(inbox[r.from], a)) = Len(inbox[r.from]) + 1
        BY <1>2
    <2> QED
        BY <2>1, <2>2, <2>3
<1>4. CASE ~Current(r)
    BY <1>4 DEF Answer
<1> QED
    BY <1>3, <1>4

\* The responses after one to x, or none.
Responds(x) ==
    /\ inbox' \in [Clients -> Seq(Responses)]
    /\ \A c \in Clients : \/ inbox'[c] = inbox[c]
                          \/ Busy(c) /\ Own(x, c) /\ Len(inbox'[c]) = Len(inbox[c]) + 1

\* A request is served or refused, and no renaming begins.
LEMMA ServedIs ==
    ASSUME ServerInv, NEW r \in net, Serve(r) \/ Refuse(r) \/ RenSame(r) \/ RenNothing(r)
    PROVE  /\ r.com # "SET_ALL" /\ net' = net \ {r} /\ work' = work /\ client' = client /\ left' = left
           /\ Responds(r) /\ faults' \in 0 .. MaxFaults
<1>0. /\ inbox \in [Clients -> Seq(Responses)] /\ r.from \in Clients /\ store \in [Keys -> Elements] /\ r.to \in Keys
      /\ faults \in 0 .. MaxFaults
    BY RequestIs DEF ServerInv
<1>1. r.com # "SET_ALL" => r.com \in TaskComs
    BY RequestIs
<1>2. ASSUME UNCHANGED inbox PROVE Responds(r)
    BY <1>0, <1>2 DEF Responds
<1>3. ASSUME NEW good \in BOOLEAN, NEW l \in SUBSET Keys, Answer(r, good, l), r.com # "SET_ALL" PROVE Responds(r)
    BY <1>0, <1>1, <1>3, AnswerIs DEF Responds
<1>4. ASSUME Fault PROVE faults' \in 0 .. MaxFaults
    BY <1>0, <1>4, CompositeAssumption DEF Fault
<1>5. CASE Serve(r)
    <2>1. PICK good \in BOOLEAN : good = Accepted(r)
        <3>1. Accepted(r) \in BOOLEAN
            BY Zenon DEF Accepted
        <3> QED
            BY <3>1
    <2>2. PICK l \in SUBSET Keys : l = IF r.com = "GET_SUBKEYS" THEN store[r.to].subs ELSE {}
        BY <1>0 DEF Elements
    <2>3. Responds(r) /\ faults' \in 0 .. MaxFaults
        <3>1. CASE Answer(r, Accepted(r), IF r.com = "GET_SUBKEYS" THEN store[r.to].subs ELSE {}) /\ UNCHANGED faults
            <4>1. r.com # "SET_ALL"
                BY <1>5 DEF Serve
            <4>2. Answer(r, good, l)
                BY <2>1, <2>2, <3>1
            <4> QED
                BY <1>0, <1>3, <3>1, <4>1, <4>2
        <3>2. CASE Fault /\ UNCHANGED inbox
            BY <1>2, <1>4, <3>2
        <3> QED
            BY <1>5, <3>1, <3>2 DEF Serve
    <2> QED
        BY <1>5, <2>3 DEF Serve
<1>6. CASE Refuse(r)
    <2>1. Responds(r)
        BY <1>2, <1>3, <1>6 DEF Refuse
    <2> QED
        BY <1>4, <1>6, <2>1 DEF Refuse
<1>7. CASE RenSame(r)
    <2>1. Responds(r)
        BY <1>3, <1>7 DEF RenSame
    <2> QED
        BY <1>0, <1>7, <2>1 DEF RenSame
<1>8. CASE RenNothing(r)
    <2>1. Responds(r)
        BY <1>3, <1>8 DEF RenNothing
    <2> QED
        BY <1>0, <1>8, <2>1 DEF RenNothing
<1> QED
    BY <1>5, <1>6, <1>7, <1>8

\* A renaming ends.
LEMMA WorkerIs ==
    ASSUME ServerInv, NEW w \in work, WorkerStep(w)
    PROVE  /\ work' = work \ {w} /\ net' \subseteq net /\ client' = client /\ left' = left
           /\ Responds(w) /\ faults' \in 0 .. MaxFaults
<1>0. inbox \in [Clients -> Seq(Responses)] /\ w.from \in Clients /\ w.com \in TaskComs /\ faults \in 0 .. MaxFaults
    BY RenamingIs DEF ServerInv, TaskComs
<1>1. ASSUME NEW good \in BOOLEAN, Answer(w, good, {}) PROVE Responds(w)
    BY <1>0, <1>1, AnswerIs DEF Responds
<1>2. ASSUME Fault PROVE faults' \in 0 .. MaxFaults
    BY <1>0, <1>2, CompositeAssumption DEF Fault
<1>3. CASE RenFails(w)
    <2>1. net' \subseteq net
        BY <1>3 DEF RenFails
    <2> QED
        BY <1>1, <1>2, <1>3, <2>1 DEF RenFails
<1>4. CASE RenRemove(w)
    BY <1>0, <1>1, <1>4 DEF RenRemove
<1>5. CASE RenKeepsBoth(w)
    BY <1>1, <1>2, <1>5 DEF RenKeepsBoth
<1> QED
    BY <1>3, <1>4, <1>5 DEF WorkerStep

\* A renaming begins.
LEMMA RenReadIs ==
    ASSUME ServerInv, NEW r \in net, RenRead(r)
    PROVE  \E w \in Renamings, s \in Requests :
              /\ work' = work \cup {w} /\ net' = (net \ {r}) \cup {s} /\ r.com = "REN"
              /\ Same(w, r) /\ Same(s, r) /\ w.at = "wait" /\ w.old = r.to /\ w.val = store[r.to].val
              /\ s.com = "SET_ALL" /\ s.to = w.new /\ s.arg.val = w.val
              /\ UNCHANGED <<client, left, inbox, faults, store, history>>
<1>0. /\ r.to \in Keys /\ r.from \in Clients /\ r.id \in Nat /\ r.n \in Nat /\ r.com = "REN" /\ r.arg.key \in Keys
      /\ r.to # r.arg.key /\ store[r.to].val # None
    BY RequestIs DEF RenRead, NamesKey
<1>1. store[r.to].val \in Values /\ store[r.to].subs \in SUBSET Keys
    BY <1>0 DEF ServerInv, Elements, Values
<1>2. PICK w : w = [old |-> r.to, new |-> r.arg.key, val |-> store[r.to].val, from |-> r.from, id |-> r.id,
                    com |-> "REN", at |-> "wait"]
    OBVIOUS
<1>3. w \in Renamings
    BY <1>0, <1>1, <1>2 DEF Renamings
<1>4. PICK a : a = [Nothing EXCEPT !.val = store[r.to].val, !.subs = store[r.to].subs]
    OBVIOUS
<1>5. a \in Args /\ a.val = store[r.to].val
    BY <1>1, <1>4 DEF Args, Nothing
<1>6. PICK s : s = [com |-> "SET_ALL", to |-> r.arg.key, arg |-> a, from |-> r.from, id |-> r.id, n |-> r.n]
    OBVIOUS
<1>7. s \in Requests
    BY <1>0, <1>5, <1>6 DEF Requests, NamesKey
<1>8. work' = work \cup {w} /\ net' = (net \ {r}) \cup {s} /\ UNCHANGED <<client, left, inbox, faults, store, history>>
    BY <1>2, <1>4, <1>6 DEF RenRead
<1>9. /\ Same(w, r) /\ Same(s, r) /\ w.at = "wait" /\ w.old = r.to /\ w.val = store[r.to].val
      /\ s.com = "SET_ALL" /\ s.to = w.new /\ s.arg.val = w.val
    BY <1>2, <1>5, <1>6 DEF Same
<1> QED
    BY <1>0, <1>3, <1>7, <1>8, <1>9

\* The renaming, if it still waits, may remove the old key.
LEMMA ServeSetAllIs ==
    ASSUME ServerInv, RenInv, NEW r \in net, ServeSetAll(r)
    PROVE  /\ r.com = "SET_ALL" /\ net' = net \ {r} /\ UNCHANGED <<client, left, inbox, faults, written>>
           /\ store' = After(r) /\ excused' = excused \cup Disturbed(r)
           /\ \/ work' = work
              \/ \E w \in work, x \in Renamings :
                    /\ Same(r, w) /\ w.at = "wait" /\ r.to = w.new /\ r.arg.val = w.val
                    /\ work' = (work \ {w}) \cup {x}
                    /\ Same(x, w) /\ x.old = w.old /\ x.new = w.new /\ x.val = w.val /\ x.at = "remove"
<1>1. /\ r.com = "SET_ALL" /\ net' = net \ {r} /\ UNCHANGED <<client, left, inbox, faults, written>>
      /\ store' = After(r) /\ excused' = excused \cup Disturbed(r)
      /\ work' = (work \ Waiting(r)) \cup {[w EXCEPT !.at = "remove"] : w \in Waiting(r)}
    BY DEF ServeSetAll, history
<1>2. CASE Waiting(r) = {}
    BY <1>1, <1>2
<1>3. CASE Waiting(r) # {}
    <2>1. PICK w \in work : w \in Waiting(r)
        BY <1>3 DEF Waiting
    <2>2. Same(r, w) /\ w.at = "wait"
        BY <2>1 DEF Waiting, Same
    <2>3. r.to = w.new /\ r.arg.val = w.val
        BY <1>1, <2>2 DEF RenInv, Renames
    <2>4. ASSUME NEW y \in Waiting(r) PROVE y = w
        <3>1. y \in work /\ Same(y, w)
            BY <2>2 DEF Waiting, Same
        <3> QED
            BY <3>1 DEF RenInv
    <2>5. Waiting(r) = {w}
        BY <2>1, <2>4
    <2>6. PICK x : x = [w EXCEPT !.at = "remove"]
        OBVIOUS
    <2>7. work' = (work \ {w}) \cup {x}
        BY <1>1, <2>5, <2>6
    <2>8. /\ x \in Renamings
          /\ Same(x, w) /\ x.old = w.old /\ x.new = w.new /\ x.val = w.val /\ x.at = "remove"
        BY <2>6 DEF ServerInv, Renamings, Same
    <2> QED
        BY <1>1, <2>2, <2>3, <2>7, <2>8
<1> QED
    BY <1>2, <1>3

\* A request is sent; a renaming is the first of its call.
LEMMA SendAsks ==
    ASSUME ClientInv, ServerInv, NEW c \in Clients, Send(c)
    PROVE  \E r \in Requests :
              /\ net' = net \cup {r} /\ r.com # "SET_ALL" /\ Own(r, c) /\ (r.com = "REN" => client[c].sent = 0)
              /\ UNCHANGED <<store, left, inbox, work, faults, history>>
<1>1. client[c].at = "send" /\ InCall(client[c]) /\ left[c] \in Nat
    BY SendIs DEF ClientInv
<1>2. PICK t : t = Head(client[c].todo)
    OBVIOUS
<1>3. t \in Tasks /\ t = client[c].todo[1] /\ 1 \in 1 .. Len(client[c].todo)
    BY <1>1, <1>2 DEF InCall
<1>4. t.step.com = "REN" => client[c].sent = 0
    BY <1>1, <1>3 DEF InCall
<1>5. /\ t.step.com \in TaskComs /\ t.to \in Keys /\ t.arg \in Args
      /\ NamesKey(t.step.com) => t.arg.key \in Keys
    BY <1>3 DEF Tasks, Steps
<1>6. PICK r : r = [com |-> t.step.com, to |-> t.to, arg |-> t.arg, from |-> c, id |-> left[c], n |-> client[c].sent]
    OBVIOUS
<1>7. r \in Requests /\ r.com # "SET_ALL" /\ Own(r, c)
    <2>1. "SET_ALL" \notin TaskComs
        BY DEF TaskComs
    <2>2. client[c].sent \in Nat
        BY <1>1 DEF InCall
    <2> QED
        BY <1>1, <1>5, <1>6, <2>1, <2>2 DEF Requests, Own
<1>8. net' = net \cup {r} /\ UNCHANGED <<store, left, inbox, work, faults, history>>
    BY <1>2, <1>6 DEF Send, Now
<1> QED
    BY <1>4, <1>6, <1>7, <1>8

\* The other steps of a client leave the servers alone.
LEMMA ClientLocal ==
    ASSUME ServerInv, NEW c \in Clients,
           SendFails(c) \/ TimeOut(c) \/ Receive(c) \/ Return(c) \/ \E q \in Offers(c) : Begin(c, q)
    PROVE  /\ UNCHANGED <<store, net, work, written, excused>>
           /\ inbox' \in [Clients -> Seq(Responses)] /\ faults' \in 0 .. MaxFaults
<1>0. inbox \in [Clients -> Seq(Responses)] /\ faults \in 0 .. MaxFaults
    BY DEF ServerInv
<1>1. ASSUME Fault PROVE faults' \in 0 .. MaxFaults
    BY <1>0, <1>1, CompositeAssumption DEF Fault
<1>2. CASE SendFails(c)
    BY <1>0, <1>1, <1>2 DEF SendFails, history
<1>3. CASE TimeOut(c)
    BY <1>0, <1>1, <1>3 DEF TimeOut, history
<1>4. CASE Receive(c)
    <2>1. inbox' = [inbox EXCEPT ![c] = Tail(@)] /\ inbox[c] # <<>>
        BY <1>4 DEF Receive
    <2>2. inbox' \in [Clients -> Seq(Responses)]
        BY <1>0, <2>1
    <2> QED
        BY <1>0, <1>4, <2>2 DEF Receive, history
<1>5. CASE Return(c)
    BY <1>0, <1>5 DEF Return
<1>6. CASE \E q \in Offers(c) : Begin(c, q)
    BY <1>0, <1>6 DEF Begin
<1> QED
    BY <1>2, <1>3, <1>4, <1>5, <1>6

LEMMA ServerInvStep ==
    ASSUME ClientInv, ServerInv, RenInv, ValueInv, [Next]_vars
    PROVE  ServerInv'
<1>0. /\ store \in [Keys -> Elements] /\ net \subseteq Requests /\ IsFiniteSet(net)
      /\ inbox \in [Clients -> Seq(Responses)] /\ work \subseteq Renamings /\ IsFiniteSet(work)
      /\ faults \in 0 .. MaxFaults /\ written \subseteq Values \ {None} /\ excused \subseteq Values
    BY DEF ServerInv
<1>1. ASSUME NEW r \in net PROVE IsFiniteSet(net \ {r})
    BY <1>0, FS_RemoveElement
<1>2. ASSUME NEW w \in work PROVE IsFiniteSet(work \ {w})
    BY <1>0, FS_RemoveElement
<1>3. ASSUME NEW c \in Clients, Send(c) PROVE ServerInv'
    <2>1. PICK r \in Requests : net' = net \cup {r} /\ UNCHANGED <<store, left, inbox, work, faults, history>>
        BY <1>3, SendAsks
    <2>2. IsFiniteSet(net \cup {r})
        BY <1>0, FS_AddElement
    <2> QED
        BY <1>0, <2>1, <2>2 DEF ServerInv, history
<1>4. ASSUME NEW c \in Clients,
             SendFails(c) \/ TimeOut(c) \/ Receive(c) \/ Return(c) \/ \E q \in Offers(c) : Begin(c, q)
      PROVE  ServerInv'
    <2>1. /\ UNCHANGED <<store, net, work, written, excused>>
          /\ inbox' \in [Clients -> Seq(Responses)] /\ faults' \in 0 .. MaxFaults
        BY <1>4, ClientLocal
    <2> QED
        BY <1>0, <2>1 DEF ServerInv
<1>5. ASSUME NEW r \in net, r.com # "REN"
      PROVE  Disturbed(r) \subseteq Values /\ After(r)[r.to].val \in Values /\ After(r) \in [Keys -> Elements]
    <2>1. store[r.to].val \in Values /\ After(r)[r.to].val \in Values /\ After(r) \in [Keys -> Elements]
        BY <1>0, <1>5, RequestIs, AfterIs DEF Elements, Values
    <2> QED
        BY <2>1 DEF Disturbed
<1>6. ASSUME NEW r \in net, Serve(r) PROVE ServerInv'
    <2>1. net' = net \ {r} /\ work' = work /\ Responds(r) /\ faults' \in 0 .. MaxFaults
        BY <1>6, ServedIs
    <2>2. /\ r.com # "REN" /\ store' = After(r) /\ excused' = excused \cup Disturbed(r)
          /\ written' = written \cup ({After(r)[r.to].val} \ {None})
        BY <1>6 DEF Serve
    <2> QED
        BY <1>0, <1>1, <1>5, <2>1, <2>2 DEF ServerInv, Responds
<1>7. ASSUME NEW r \in net, Refuse(r) \/ RenSame(r) \/ RenNothing(r) PROVE ServerInv'
    <2>1. net' = net \ {r} /\ work' = work /\ Responds(r) /\ faults' \in 0 .. MaxFaults
        BY <1>7, ServedIs
    <2>2. UNCHANGED <<store, written, excused>>
        BY <1>7 DEF Refuse, RenSame, RenNothing, history
    <2> QED
        BY <1>0, <1>1, <2>1, <2>2 DEF ServerInv, Responds
<1>8. ASSUME NEW r \in net, RenRead(r) PROVE ServerInv'
    <2>1. PICK w \in Renamings, s \in Requests :
             /\ work' = work \cup {w} /\ net' = (net \ {r}) \cup {s}
             /\ UNCHANGED <<inbox, faults, store, history>>
        BY <1>8, RenReadIs
    <2>2. IsFiniteSet(work \cup {w}) /\ IsFiniteSet((net \ {r}) \cup {s})
        BY <1>0, <1>1, FS_AddElement
    <2> QED
        BY <1>0, <2>1, <2>2 DEF ServerInv, history
<1>9. ASSUME NEW r \in net, ServeSetAll(r) PROVE ServerInv'
    <2>1. /\ r.com = "SET_ALL" /\ net' = net \ {r} /\ UNCHANGED <<inbox, faults, written>>
          /\ store' = After(r) /\ excused' = excused \cup Disturbed(r)
        BY <1>9, ServeSetAllIs
    <2>2. work' \subseteq Renamings /\ IsFiniteSet(work')
        <3>1. CASE work' = work
            BY <1>0, <3>1
        <3>2. ASSUME NEW w \in work, NEW x \in Renamings, work' = (work \ {w}) \cup {x}
              PROVE  work' \subseteq Renamings /\ IsFiniteSet(work')
            <4>1. IsFiniteSet((work \ {w}) \cup {x})
                BY <1>2, FS_AddElement
            <4> QED
                BY <1>0, <3>2, <4>1
        <3> QED
            BY <1>9, <3>1, <3>2, ServeSetAllIs
    <2> QED
        BY <1>0, <1>1, <1>5, <2>1, <2>2 DEF ServerInv
<1>10. ASSUME NEW w \in work, WorkerStep(w) PROVE ServerInv'
    <2>1. work' = work \ {w} /\ net' \subseteq net /\ Responds(w) /\ faults' \in 0 .. MaxFaults
        BY <1>10, WorkerIs
    <2>2. IsFiniteSet(net')
        BY <1>0, <2>1, FS_Subset
    <2>3. store' \in [Keys -> Elements] /\ UNCHANGED <<written, excused>>
        <3>1. Absent \in Elements
            BY DEF Absent, Elements
        <3> QED
            BY <1>0, <1>10, <3>1 DEF WorkerStep, RenFails, RenRemove, RenKeepsBoth, history
    <2> QED
        BY <1>0, <1>2, <2>1, <2>2, <2>3 DEF ServerInv, Responds
<1>11. CASE UNCHANGED vars
    BY <1>0, <1>11 DEF ServerInv, vars
<1> QED
    BY <1>3, <1>4, <1>6, <1>7, <1>8, <1>9, <1>10, <1>11 DEF Next, ClientStep, ServerStep

-----------------------------------------------------------------------------
(* Whose requests are under way.                                           *)

\* What is under way at the servers.
Things == net \cup work
Inherits == \A x \in Things' : \E y \in Things : Same(x, y)

LEMMA ServersInherit ==
    ASSUME ServerInv, RenInv,
           (\E r \in net : ServerStep(r)) \/ (\E w \in work : WorkerStep(w))
    PROVE  /\ Inherits /\ UNCHANGED <<client, left>>
           /\ \A c \in Clients : ~Busy(c) => inbox'[c] = inbox[c]
<1>1. ASSUME NEW r \in net, Serve(r) \/ Refuse(r) \/ RenSame(r) \/ RenNothing(r)
      PROVE  Inherits /\ UNCHANGED <<client, left>> /\ \A c \in Clients : ~Busy(c) => inbox'[c] = inbox[c]
    <2>1. net' = net \ {r} /\ work' = work /\ Responds(r) /\ UNCHANGED <<client, left>>
        BY <1>1, ServedIs
    <2> QED
        BY <2>1 DEF Inherits, Things, Responds, Same
<1>2. ASSUME NEW r \in net, RenRead(r)
      PROVE  Inherits /\ UNCHANGED <<client, left>> /\ \A c \in Clients : ~Busy(c) => inbox'[c] = inbox[c]
    <2>1. PICK w \in Renamings, s \in Requests :
             /\ work' = work \cup {w} /\ net' = (net \ {r}) \cup {s} /\ Same(w, r) /\ Same(s, r)
             /\ UNCHANGED <<client, left, inbox>>
        BY <1>2, RenReadIs
    <2> QED
        BY <2>1 DEF Inherits, Things, Same
<1>3. ASSUME NEW r \in net, ServeSetAll(r)
      PROVE  Inherits /\ UNCHANGED <<client, left>> /\ \A c \in Clients : ~Busy(c) => inbox'[c] = inbox[c]
    <2>1. /\ net' = net \ {r} /\ UNCHANGED <<client, left, inbox>>
          /\ \/ work' = work
             \/ \E w \in work, x \in Renamings : work' = (work \ {w}) \cup {x} /\ Same(x, w)
        BY <1>3, ServeSetAllIs
    <2>2. CASE work' = work
        BY <2>1, <2>2 DEF Inherits, Things, Same
    <2>3. ASSUME NEW w \in work, NEW x \in Renamings, work' = (work \ {w}) \cup {x}, Same(x, w)
          PROVE  Inherits
        BY <2>1, <2>3 DEF Inherits, Things, Same
    <2> QED
        BY <2>1, <2>2, <2>3
<1>4. ASSUME NEW w \in work, WorkerStep(w)
      PROVE  Inherits /\ UNCHANGED <<client, left>> /\ \A c \in Clients : ~Busy(c) => inbox'[c] = inbox[c]
    <2>1. work' = work \ {w} /\ net' \subseteq net /\ Responds(w) /\ UNCHANGED <<client, left>>
        BY <1>4, WorkerIs
    <2> QED
        BY <2>1 DEF Inherits, Things, Responds, Same
<1> QED
    BY <1>1, <1>2, <1>3, <1>4 DEF ServerStep

LEMMA ThingIs ==
    ASSUME ServerInv, NEW x \in Things
    PROVE  x.from \in Clients /\ x.id \in Nat
BY RequestIs, RenamingIs DEF Things

LEMMA IdInvStep ==
    ASSUME ClientInv, ServerInv, ServerInv', RenInv, IdInv, [Next]_vars
    PROVE  IdInv'
<1>0. /\ \A x \in Things : /\ x.from \in Clients /\ x.id \in Nat
                           /\ x.id > left[x.from] \/ (x.id = left[x.from] /\ Busy(x.from))
      /\ \A c \in Clients : ~Busy(c) => inbox[c] = <<>>
      /\ \A c \in Clients : client[c].at = "send" /\ client[c].sent = 0 => \A x \in Things : ~Own(x, c)
      /\ left \in [Clients -> Nat]
    BY ThingIs DEF IdInv, Things, ClientInv
<1>1. ASSUME /\ \A x \in Things' : x.id > left'[x.from] \/ (x.id = left'[x.from] /\ Busy(x.from)')
             /\ \A c \in Clients : ~Busy(c)' => inbox'[c] = <<>>
             /\ \A c \in Clients : client'[c].at = "send" /\ client'[c].sent = 0 => \A x \in Things' : ~Own(x, c)'
      PROVE  IdInv'
    BY <1>1 DEF IdInv, Things
<1>2. CASE (\E r \in net : ServerStep(r)) \/ (\E w \in work : WorkerStep(w))
    <2>1. /\ Inherits /\ UNCHANGED <<client, left>>
          /\ \A c \in Clients : ~Busy(c) => inbox'[c] = inbox[c]
        BY <1>2, ServersInherit
    <2>2. \A x \in Things' : x.id > left'[x.from] \/ (x.id = left'[x.from] /\ Busy(x.from)')
        BY <1>0, <2>1 DEF Inherits, Same, Busy
    <2>3. \A c \in Clients : client'[c].at = "send" /\ client'[c].sent = 0 => \A x \in Things' : ~Own(x, c)'
        BY <1>0, <2>1 DEF Inherits, Same, Own
    <2>4. \A c \in Clients : ~Busy(c)' => inbox'[c] = <<>>
        BY <1>0, <2>1 DEF Busy
    <2> QED
        BY <1>1, <2>2, <2>3, <2>4
<1>3. ASSUME NEW c \in Clients, Send(c) PROVE IdInv'
    <2>1. PICK r \in Requests :
             net' = net \cup {r} /\ Own(r, c) /\ UNCHANGED <<left, inbox, work>>
        BY <1>3, SendAsks
    <2>2. /\ client[c].at = "send" /\ client'[c].at = "wait" /\ \A x \in Clients : x # c => client'[x] = client[x]
        BY <1>3, SendIs
    <2>3. Things' = Things \cup {r} /\ r.from = c /\ r.id = left[c]
        BY <2>1 DEF Things, Own
    <2>4. \A x \in Things' : x.id > left'[x.from] \/ (x.id = left'[x.from] /\ Busy(x.from)')
        BY <1>0, <2>1, <2>2, <2>3 DEF Busy
    <2>5. \A d \in Clients : client'[d].at = "send" /\ client'[d].sent = 0 => \A x \in Things' : ~Own(x, d)'
        BY <1>0, <2>1, <2>2, <2>3 DEF Own
    <2>6. \A d \in Clients : ~Busy(d)' => inbox'[d] = <<>>
        BY <1>0, <2>1, <2>2 DEF Busy
    <2> QED
        BY <1>1, <2>4, <2>5, <2>6
<1>4. ASSUME NEW c \in Clients, SendFails(c) \/ TimeOut(c) \/ Receive(c) PROVE IdInv'
    <2>1. UNCHANGED <<net, work, left>> /\ \A x \in Clients : x # c => inbox'[x] = inbox[x]
        <3>1. CASE SendFails(c) \/ TimeOut(c)
            BY <3>1, ClientLocal DEF SendFails, TimeOut
        <3>2. CASE Receive(c)
            <4>1. inbox' = [inbox EXCEPT ![c] = Tail(@)]
                BY <3>2 DEF Receive
            <4> QED
                BY <3>2, <4>1 DEF Receive, ServerInv
        <3> QED
            BY <1>4, <3>1, <3>2
    <2>2. Busy(c) /\ GoesOn(c)
        BY <1>4, SendFailsGoesOn, TimeOutGoesOn, ReceiveGoesOn DEF ServerInv
    <2>3. /\ InCall(client[c]) /\ InCall(client'[c]) /\ client'[c].at # "wait" /\ client'[c].sent = client[c].sent
          /\ \A x \in Clients : x # c => client'[x] = client[x]
        BY <2>2, GoesOnIs
    <2>4. Busy(c)' /\ Things' = Things
        BY <2>1, <2>3 DEF Busy, InCall, Things
    <2>5. \A x \in Things' : x.id > left'[x.from] \/ (x.id = left'[x.from] /\ Busy(x.from)')
        BY <1>0, <2>1, <2>3, <2>4 DEF Busy
    <2>6. ASSUME NEW d \in Clients, client'[d].at = "send", client'[d].sent = 0, NEW x \in Things' PROVE ~Own(x, d)'
        <3>1. CASE d # c
            BY <1>0, <2>1, <2>3, <2>4, <2>6, <3>1 DEF Own
        <3>2. CASE d = c
            <4>1. client[c].at # "wait" /\ client[c].at # "rest" /\ client[c].sent = 0
                BY <2>2, <2>3, <2>6, <3>2 DEF InCall, Busy
            <4>2. client[c].at = "send"
                BY <1>4, <4>1 DEF SendFails, TimeOut, Receive
            <4> QED
                BY <1>0, <2>1, <2>4, <3>2, <4>1, <4>2 DEF Own
        <3> QED
            BY <3>1, <3>2
    <2>7. \A d \in Clients : ~Busy(d)' => inbox'[d] = <<>>
        BY <1>0, <2>1, <2>3, <2>4 DEF Busy
    <2> QED
        BY <1>1, <2>5, <2>6, <2>7
<1>5. ASSUME NEW c \in Clients, Return(c) PROVE IdInv'
    <2>1. UNCHANGED <<net, work>> /\ inbox' = [inbox EXCEPT ![c] = <<>>] /\ inbox \in [Clients -> Seq(Responses)]
        BY <1>5 DEF Return, ServerInv
    <2>2. /\ Busy(c) /\ client'[c] = Rest /\ left[c] > 0 /\ left'[c] = left[c] - 1
          /\ \A x \in Clients : x # c => client'[x] = client[x] /\ left'[x] = left[x]
        BY <1>5, ReturnIs
    <2>3. Things' = Things /\ Rest.at = "rest"
        BY <2>1 DEF Things, Rest
    <2>4. \A x \in Things' : x.id > left'[x.from] \/ (x.id = left'[x.from] /\ Busy(x.from)')
        BY <1>0, <2>2, <2>3 DEF Busy
    <2>5. \A d \in Clients : client'[d].at = "send" /\ client'[d].sent = 0 => \A x \in Things' : ~Own(x, d)'
        BY <1>0, <2>2, <2>3 DEF Own
    <2>6. \A d \in Clients : ~Busy(d)' => inbox'[d] = <<>>
        BY <1>0, <2>1, <2>2 DEF Busy
    <2> QED
        BY <1>1, <2>4, <2>5, <2>6
<1>6. ASSUME NEW c \in Clients, NEW q \in Offers(c), Begin(c, q) PROVE IdInv'
    <2>1. UNCHANGED <<net, work, left, inbox>>
        BY <1>6 DEF Begin
    <2>2. /\ ~Busy(c) /\ InCall(client'[c]) /\ client'[c].at = "send"
          /\ \A x \in Clients : x # c => client'[x] = client[x]
        BY <1>6, BeginIs
    <2>3. Things' = Things
        BY <2>1 DEF Things
    <2>4. \A x \in Things' : x.id > left'[x.from] \/ (x.id = left'[x.from] /\ Busy(x.from)')
        BY <1>0, <2>1, <2>2, <2>3 DEF Busy
    <2>5. \A d \in Clients : client'[d].at = "send" /\ client'[d].sent = 0 => \A x \in Things' : ~Own(x, d)'
        BY <1>0, <2>1, <2>2, <2>3 DEF Own, Busy
    <2>6. \A d \in Clients : ~Busy(d)' => inbox'[d] = <<>>
        BY <1>0, <2>1, <2>2 DEF Busy
    <2> QED
        BY <1>1, <2>4, <2>5, <2>6
<1>7. CASE UNCHANGED vars
    BY <1>0, <1>1, <1>7 DEF vars, Things, Own, Busy
<1> QED
    BY <1>2, <1>3, <1>4, <1>5, <1>6, <1>7 DEF Next, ClientStep

-----------------------------------------------------------------------------
(* One thing at a time for a renaming.                                     *)

LEMMA RenInvStep ==
    ASSUME ClientInv, ServerInv, RenInv, IdInv, [Next]_vars
    PROVE  RenInv'
<1>0. /\ \A r, s \in net : Renames(r) /\ Renames(s) /\ Same(r, s) => r = s
      /\ \A w, x \in work : Same(w, x) => w = x
      /\ \A r \in net, w \in work : Renames(r) /\ Same(r, w) =>
            r.com = "SET_ALL" /\ w.at = "wait" /\ r.to = w.new /\ r.arg.val = w.val
    BY DEF RenInv
<1>1. ASSUME net' \subseteq net, work' \subseteq work PROVE RenInv'
    BY <1>0, <1>1 DEF RenInv
<1>2. ASSUME NEW r \in net, Serve(r) \/ Refuse(r) \/ RenSame(r) \/ RenNothing(r) PROVE RenInv'
    <2>1. net' = net \ {r} /\ work' = work
        BY <1>2, ServedIs
    <2> QED
        BY <1>1, <2>1
<1>3. ASSUME NEW w \in work, WorkerStep(w) PROVE RenInv'
    <2>1. work' = work \ {w} /\ net' \subseteq net
        BY <1>3, WorkerIs
    <2> QED
        BY <1>1, <2>1
<1>4. ASSUME NEW c \in Clients,
             SendFails(c) \/ TimeOut(c) \/ Receive(c) \/ Return(c) \/ \E q \in Offers(c) : Begin(c, q)
      PROVE  RenInv'
    <2>1. net' = net /\ work' = work
        BY <1>4, ClientLocal
    <2> QED
        BY <1>1, <2>1
<1>5. ASSUME NEW c \in Clients, Send(c) PROVE RenInv'
    <2>1. PICK r \in Requests :
             /\ net' = net \cup {r} /\ r.com # "SET_ALL" /\ Own(r, c) /\ (r.com = "REN" => client[c].sent = 0)
             /\ work' = work
        BY <1>5, SendAsks
    <2>2. client[c].at = "send"
        BY <1>5, SendIs
    <2>3. Renames(r) => \A x \in net \cup work : ~Same(r, x) /\ ~Same(x, r)
        BY <2>1, <2>2 DEF IdInv, Renames, Same, Own
    <2>4. \A s, t \in net' : Renames(s) /\ Renames(t) /\ Same(s, t) => s = t
        BY <1>0, <2>1, <2>3
    <2>5. \A s \in net', w \in work' : Renames(s) /\ Same(s, w) =>
             s.com = "SET_ALL" /\ w.at = "wait" /\ s.to = w.new /\ s.arg.val = w.val
        BY <1>0, <2>1, <2>3
    <2> QED
        BY <1>0, <2>1, <2>4, <2>5 DEF RenInv
<1>6. ASSUME NEW r \in net, RenRead(r) PROVE RenInv'
    <2>1. PICK w \in Renamings, s \in Requests :
             /\ work' = work \cup {w} /\ net' = (net \ {r}) \cup {s} /\ r.com = "REN"
             /\ Same(w, r) /\ Same(s, r) /\ w.at = "wait"
             /\ s.com = "SET_ALL" /\ s.to = w.new /\ s.arg.val = w.val
        BY <1>6, RenReadIs
    <2>2. Renames(r) /\ Renames(s)
        BY <2>1 DEF Renames
    <2>3. \A x \in net : Renames(x) /\ (Same(x, s) \/ Same(s, x) \/ Same(x, w)) => x = r
        BY <1>0, <2>1, <2>2 DEF Same
    <2>4. \A x \in work : ~Same(x, w) /\ ~Same(w, x) /\ ~Same(s, x)
        <3>1. \A x \in work : ~Same(r, x)
            BY <1>0, <2>1, <2>2
        <3> QED
            BY <2>1, <3>1 DEF Same
    <2>5. \A x, y \in net' : Renames(x) /\ Renames(y) /\ Same(x, y) => x = y
        BY <1>0, <2>1, <2>3
    <2>6. \A x, y \in work' : Same(x, y) => x = y
        BY <1>0, <2>1, <2>4
    <2>7. \A x \in net', y \in work' : Renames(x) /\ Same(x, y) =>
             x.com = "SET_ALL" /\ y.at = "wait" /\ x.to = y.new /\ x.arg.val = y.val
        BY <1>0, <2>1, <2>3, <2>4
    <2> QED
        BY <2>5, <2>6, <2>7 DEF RenInv
<1>7. ASSUME NEW r \in net, ServeSetAll(r) PROVE RenInv'
    <2>1. r.com = "SET_ALL" /\ net' = net \ {r} /\ Renames(r)
        BY <1>7, ServeSetAllIs DEF Renames
    <2>2. CASE work' = work
        BY <1>1, <2>1, <2>2
    <2>3. ASSUME NEW w \in work, NEW x \in Renamings, Same(r, w), work' = (work \ {w}) \cup {x}, Same(x, w)
          PROVE  RenInv'
        <3>1. \A y \in net' : Renames(y) => ~Same(y, x)
            BY <1>0, <2>1, <2>3 DEF Same
        <3>2. \A y \in work \ {w} : ~Same(y, x) /\ ~Same(x, y)
            BY <1>0, <2>3 DEF Same
        <3>3. \A y, z \in work' : Same(y, z) => y = z
            BY <1>0, <2>3, <3>2
        <3>4. \A y \in net', z \in work' : Renames(y) /\ Same(y, z) =>
                 y.com = "SET_ALL" /\ z.at = "wait" /\ y.to = z.new /\ y.arg.val = z.val
            BY <1>0, <2>1, <2>3, <3>1
        <3> QED
            BY <1>0, <2>1, <3>3, <3>4 DEF RenInv
    <2> QED
        BY <1>7, <2>2, <2>3, ServeSetAllIs
<1>8. CASE UNCHANGED vars
    BY <1>1, <1>8 DEF vars
<1> QED
    BY <1>2, <1>3, <1>4, <1>5, <1>6, <1>7, <1>8 DEF Next, ClientStep, ServerStep

-----------------------------------------------------------------------------
(* The values.                                                             *)

LEMMA ValueInvStep ==
    ASSUME ClientInv, ServerInv, RenInv, ValueInv, [Next]_vars
    PROVE  ValueInv'
<1>0. /\ \A k \in Keys : store[k].val \in written \cup {None}
      /\ \A r \in net : r.com = "SET_ALL" => r.arg.val \in written
      /\ \A w \in work : store[w.old].val \in {w.val, None} \cup excused
      /\ \A w \in work : w.old \in Keys
    BY RenamingIs DEF ValueInv
<1>1. ASSUME UNCHANGED <<store, written, excused>>, net' \subseteq net, work' \subseteq work PROVE ValueInv'
    BY <1>0, <1>1 DEF ValueInv
<1>2. ASSUME NEW c \in Clients, Send(c) PROVE ValueInv'
    <2>1. PICK r \in Requests :
             net' = net \cup {r} /\ r.com # "SET_ALL" /\ UNCHANGED <<store, work, history>>
        BY <1>2, SendAsks
    <2> QED
        BY <1>0, <2>1 DEF ValueInv, history
<1>3. ASSUME NEW c \in Clients,
             SendFails(c) \/ TimeOut(c) \/ Receive(c) \/ Return(c) \/ \E q \in Offers(c) : Begin(c, q)
      PROVE  ValueInv'
    <2>1. UNCHANGED <<store, net, work, written, excused>>
        BY <1>3, ClientLocal
    <2> QED
        BY <1>1, <2>1
<1>4. ASSUME NEW r \in net, Serve(r) PROVE ValueInv'
    <2>1. net' = net \ {r} /\ work' = work /\ r.to \in Keys
        BY <1>4, ServedIs, RequestIs
    <2>2. /\ r.com \notin {"REN", "SET_ALL"} /\ store' = After(r) /\ excused' = excused \cup Disturbed(r)
          /\ written' = written \cup ({After(r)[r.to].val} \ {None})
        BY <1>4 DEF Serve
    <2>3. /\ \A k \in Keys : k # r.to => store'[k] = store[k]
          /\ r.com = "DEL" => store'[r.to].val = None
          /\ r.com \notin {"SET", "DEL"} => store'[r.to].val = store[r.to].val
        BY <2>2, AfterIs
    <2>4. \A w \in work : r.com = "SET" /\ w.old = r.to => store'[r.to].val \in excused'
        BY <2>2 DEF Disturbed
    <2>5. \A k \in Keys : store'[k].val \in written' \cup {None}
        BY <1>0, <2>2, <2>3
    <2>6. \A w \in work' : store'[w.old].val \in {w.val, None} \cup excused'
        BY <1>0, <2>1, <2>2, <2>3, <2>4
    <2> QED
        BY <1>0, <2>1, <2>2, <2>5, <2>6 DEF ValueInv
<1>5. ASSUME NEW r \in net, Refuse(r) \/ RenSame(r) \/ RenNothing(r) PROVE ValueInv'
    <2>1. net' = net \ {r} /\ work' = work
        BY <1>5, ServedIs
    <2>2. UNCHANGED <<store, written, excused>>
        BY <1>5 DEF Refuse, RenSame, RenNothing, history
    <2> QED
        BY <1>1, <2>1, <2>2
<1>6. ASSUME NEW r \in net, RenRead(r) PROVE ValueInv'
    <2>1. PICK w \in Renamings, s \in Requests :
             /\ work' = work \cup {w} /\ net' = (net \ {r}) \cup {s}
             /\ w.old = r.to /\ w.val = store[r.to].val /\ s.arg.val = w.val
             /\ UNCHANGED <<store, history>>
        BY <1>6, RenReadIs
    <2>2. r.to \in Keys /\ w.val # None
        BY RequestIs DEF Renamings
    <2> QED
        BY <1>0, <2>1, <2>2 DEF ValueInv, history
<1>7. ASSUME NEW r \in net, ServeSetAll(r) PROVE ValueInv'
    <2>1. /\ r.com = "SET_ALL" /\ net' = net \ {r} /\ written' = written /\ r.to \in Keys
          /\ store' = After(r) /\ excused' = excused \cup Disturbed(r)
        BY <1>7, ServeSetAllIs, RequestIs
    <2>2. /\ \A k \in Keys : k # r.to => store'[k] = store[k]
          /\ store'[r.to].val = r.arg.val
        BY <2>1, AfterIs
    <2>3. \A w \in work : w.old = r.to => store'[r.to].val \in excused'
        BY <2>1 DEF Disturbed
    <2>4. \A k \in Keys : store'[k].val \in written' \cup {None}
        BY <1>0, <2>1, <2>2
    <2>5. \A w \in work : store'[w.old].val \in {w.val, None} \cup excused'
        BY <1>0, <2>1, <2>2, <2>3
    <2>6. \A w \in work' : store'[w.old].val \in {w.val, None} \cup excused'
        BY <1>7, <2>5, ServeSetAllIs
    <2> QED
        BY <1>0, <2>1, <2>4, <2>6 DEF ValueInv
<1>8. ASSUME NEW w \in work, WorkerStep(w) PROVE ValueInv'
    <2>1. work' = work \ {w} /\ net' \subseteq net /\ UNCHANGED <<written, excused>>
        BY <1>8, WorkerIs DEF WorkerStep, RenFails, RenRemove, RenKeepsBoth, history
    <2>2. \A k \in Keys : store'[k].val \in {store[k].val, None}
        <3>1. Absent.val = None /\ store \in [Keys -> Elements]
            BY DEF Absent, ServerInv
        <3> QED
            BY <1>8, <3>1 DEF WorkerStep, RenFails, RenRemove, RenKeepsBoth
    <2> QED
        BY <1>0, <2>1, <2>2 DEF ValueInv
<1>9. CASE UNCHANGED vars
    BY <1>1, <1>9 DEF vars
<1> QED
    BY <1>2, <1>3, <1>4, <1>5, <1>6, <1>7, <1>8, <1>9 DEF Next, ClientStep, ServerStep

\* The heart of the matter: SET_ALL puts the value at the new key, which no
\* renaming that still counts is about to remove, before its own renaming may
\* remove the old key; every other step leaves the kept values where they are.
LEMMA SafeInvStep ==
    ASSUME ClientInv, ServerInv, RenInv, ValueInv, SafeInv, [Next]_vars
    PROVE  SafeInv'
<1>0. /\ \A v \in written \ excused : \E k \in Keys : Kept(v, k)
      /\ \A k \in Keys : store[k].val \in written \cup {None}
      /\ \A w \in work : store[w.old].val \in {w.val, None} \cup excused
      /\ None \notin written
    BY DEF SafeInv, ValueInv, ServerInv
<1>1. ASSUME written' = written, excused \subseteq excused',
             \A v \in written \ excused', k \in Keys : Kept(v, k) => \E l \in Keys : Kept(v, l)'
      PROVE  SafeInv'
    BY <1>0, <1>1 DEF SafeInv
<1>2. ASSUME UNCHANGED <<store, work, written, excused>> PROVE SafeInv'
    BY <1>0, <1>2 DEF SafeInv, Kept
<1>3. ASSUME NEW c \in Clients, Send(c) PROVE SafeInv'
    BY <1>2, <1>3 DEF Send, history
<1>4. ASSUME NEW c \in Clients,
             SendFails(c) \/ TimeOut(c) \/ Receive(c) \/ Return(c) \/ \E q \in Offers(c) : Begin(c, q)
      PROVE  SafeInv'
    BY <1>2, <1>4, ClientLocal
<1>5. ASSUME NEW r \in net, Serve(r) PROVE SafeInv'
    <2>1. work' = work /\ r.to \in Keys
        BY <1>5, ServedIs, RequestIs
    <2>2. /\ r.com \notin {"REN", "SET_ALL"} /\ store' = After(r) /\ excused' = excused \cup Disturbed(r)
          /\ written' = written \cup ({After(r)[r.to].val} \ {None})
        BY <1>5 DEF Serve
    <2>3. /\ \A k \in Keys : k # r.to => store'[k] = store[k]
          /\ r.com = "DEL" => store'[r.to].val = None
          /\ r.com \notin {"SET", "DEL"} => store'[r.to].val = store[r.to].val
        BY <2>2, AfterIs
    <2>4. ASSUME NEW v \in written', v \notin excused' PROVE \E k \in Keys : Kept(v, k)'
        <3>1. CASE v \in written
            <4>1. PICK k \in Keys : Kept(v, k)
                BY <1>0, <2>2, <2>4, <3>1
            <4>2. r.com \in {"SET", "DEL"} => k # r.to
                BY <2>2, <2>4, <4>1 DEF Disturbed, Kept
            <4>3. store'[k].val = v
                BY <2>3, <4>1, <4>2 DEF Kept
            <4> QED
                BY <2>1, <4>1, <4>3 DEF Kept
        <3>2. CASE v \notin written
            <4>1. v = store'[r.to].val /\ v # None
                BY <2>2, <2>4, <3>2
            <4>2. r.com = "SET"
                BY <1>0, <2>1, <2>3, <3>2, <4>1
            <4>3. \A w \in work : w.old # r.to
                BY <2>2, <2>4, <4>1, <4>2 DEF Disturbed
            <4> QED
                BY <2>1, <4>1, <4>3 DEF Kept
        <3> QED
            BY <3>1, <3>2
    <2> QED
        BY <2>4 DEF SafeInv
<1>6. ASSUME NEW r \in net, Refuse(r) \/ RenSame(r) \/ RenNothing(r) PROVE SafeInv'
    BY <1>2, <1>6 DEF Refuse, RenSame, RenNothing, history
<1>7. ASSUME NEW r \in net, RenRead(r) PROVE SafeInv'
    <2>1. PICK w \in Renamings : work' = work \cup {w} /\ w.at = "wait" /\ UNCHANGED <<store, history>>
        BY <1>7, RenReadIs
    <2> QED
        BY <1>1, <2>1 DEF Kept, history
<1>8. ASSUME NEW r \in net, ServeSetAll(r) PROVE SafeInv'
    <2>1. /\ r.com = "SET_ALL" /\ written' = written /\ r.to \in Keys
          /\ store' = After(r) /\ excused' = excused \cup Disturbed(r)
        BY <1>8, ServeSetAllIs, RequestIs
    <2>2. /\ \A k \in Keys : k # r.to => store'[k] = store[k]
          /\ store'[r.to].val = r.arg.val
        BY <2>1, AfterIs
    <2>3. \A v : v \notin excused' /\ store[r.to].val = v => r.arg.val = v
        BY <2>1 DEF Disturbed
    <2>4. \A w \in work : w.old = r.to => r.arg.val \in excused'
        BY <2>1, <2>2 DEF Disturbed
    <2>5. CASE work' = work
        <3>1. ASSUME NEW v \in written \ excused', NEW k \in Keys, Kept(v, k) PROVE Kept(v, k)'
            BY <2>2, <2>3, <2>5, <3>1 DEF Kept
        <3> QED
            BY <1>1, <2>1, <3>1
    <2>6. ASSUME NEW w \in work, NEW x \in Renamings,
                 r.to = w.new, r.arg.val = w.val, work' = (work \ {w}) \cup {x}, x.old = w.old, w.at = "wait"
          PROVE  SafeInv'
        <3>1. w.old # r.to
            BY <2>6, RenamingIs
        <3>2. ASSUME NEW v \in written \ excused', NEW k \in Keys, Kept(v, k)
              PROVE  \E l \in Keys : Kept(v, l)'
            <4>1. CASE k # w.old
                <5>1. store'[k].val = v
                    BY <2>2, <2>3, <3>2 DEF Kept
                <5>2. \A y \in work' : y.at = "remove" => y.old # k
                    BY <2>6, <3>2, <4>1 DEF Kept
                <5> QED
                    BY <5>1, <5>2 DEF Kept
            <4>2. CASE k = w.old
                <5>1. v = w.val
                    BY <1>0, <2>1, <3>2, <4>2 DEF Kept
                <5>2. store'[r.to].val = v
                    BY <2>2, <2>6, <5>1
                <5>3. \A y \in work : y.old # r.to
                    BY <2>4, <2>6, <3>2, <5>1
                <5>4. \A y \in work' : y.old # r.to
                    BY <2>6, <3>1, <5>3
                <5> QED
                    BY <2>1, <5>2, <5>4 DEF Kept
            <4> QED
                BY <4>1, <4>2
        <3> QED
            BY <1>1, <2>1, <3>2
    <2> QED
        BY <1>8, <2>5, <2>6, ServeSetAllIs
<1>9. ASSUME NEW w \in work, WorkerStep(w) PROVE SafeInv'
    <2>1. work' = work \ {w} /\ UNCHANGED <<written, excused>>
        BY <1>9, WorkerIs DEF WorkerStep, RenFails, RenRemove, RenKeepsBoth, history
    <2>2. ASSUME NEW k \in Keys, w.at = "remove" => k # w.old PROVE store'[k] = store[k]
        BY <1>9, <2>2 DEF WorkerStep, RenFails, RenRemove, RenKeepsBoth, ServerInv
    <2>3. ASSUME NEW v \in written \ excused', NEW k \in Keys, Kept(v, k) PROVE Kept(v, k)'
        BY <2>1, <2>2, <2>3 DEF Kept
    <2> QED
        BY <1>1, <2>1, <2>3
<1>10. CASE UNCHANGED vars
    BY <1>2, <1>10 DEF vars
<1> QED
    BY <1>3, <1>4, <1>5, <1>6, <1>7, <1>8, <1>9, <1>10 DEF Next, ClientStep, ServerStep

-----------------------------------------------------------------------------
(* Never more responses than requests.                                     *)

\* What a step does to the requests that may be answered, O, and to the numbers
\* of responses, n, and of requests sent, m, which become P, k and j.
Shifts(O, P, n, k, m, j) ==
    \/ P \subseteq O /\ k <= n /\ j = m
    \/ \E x \in O : P \subseteq O \ {x} /\ k <= n + 1 /\ j = m
    \/ \E y : P \subseteq O \cup {y} /\ k = n /\ j = m + 1
    \/ \E x \in O : \E y : P \subseteq (O \ {x}) \cup {y} /\ k = n /\ j = m

LEMMA Counts ==
    ASSUME NEW O, IsFiniteSet(O), NEW P, NEW n \in Nat, NEW k \in Nat, NEW m \in Nat, NEW j \in Nat,
           Cardinality(O) + n <= m, Shifts(O, P, n, k, m, j)
    PROVE  Cardinality(P) + k <= j
<1>0. Cardinality(O) \in Nat
    BY FS_CardinalityType
<1>1. ASSUME NEW Q, IsFiniteSet(Q), P \subseteq Q
      PROVE  Cardinality(P) <= Cardinality(Q) /\ Cardinality(P) \in Nat /\ Cardinality(Q) \in Nat
    BY <1>1, FS_Subset, FS_CardinalityType
<1>2. \A x \in O : IsFiniteSet(O \ {x}) /\ Cardinality(O \ {x}) = Cardinality(O) - 1
    BY FS_RemoveElement
<1>3. ASSUME NEW Q, IsFiniteSet(Q), NEW y
      PROVE  IsFiniteSet(Q \cup {y}) /\ Cardinality(Q \cup {y}) <= Cardinality(Q) + 1
    <2>1. Cardinality(Q) \in Nat
        BY <1>3, FS_CardinalityType
    <2>2. /\ IsFiniteSet(Q \cup {y})
          /\ Cardinality(Q \cup {y}) = Cardinality(Q) \/ Cardinality(Q \cup {y}) = Cardinality(Q) + 1
        BY <1>3, FS_AddElement
    <2> QED
        BY <2>1, <2>2
<1>4. CASE P \subseteq O /\ k <= n /\ j = m
    BY <1>0, <1>1, <1>4
<1>5. ASSUME NEW x \in O, P \subseteq O \ {x}, k <= n + 1, j = m PROVE Cardinality(P) + k <= j
    <2>1. Cardinality(P) <= Cardinality(O \ {x}) /\ Cardinality(P) \in Nat
        BY <1>1, <1>2, <1>5
    <2> QED
        BY <1>0, <1>2, <1>5, <2>1
<1>6. ASSUME NEW y, P \subseteq O \cup {y}, k = n, j = m + 1 PROVE Cardinality(P) + k <= j
    <2>1. IsFiniteSet(O \cup {y}) /\ Cardinality(O \cup {y}) <= Cardinality(O) + 1
        BY <1>3
    <2>2. Cardinality(P) <= Cardinality(O \cup {y}) /\ Cardinality(P) \in Nat /\ Cardinality(O \cup {y}) \in Nat
        BY <1>1, <1>6, <2>1
    <2> QED
        BY <1>0, <1>6, <2>1, <2>2
<1>7. ASSUME NEW x \in O, NEW y, P \subseteq (O \ {x}) \cup {y}, k = n, j = m PROVE Cardinality(P) + k <= j
    <2>1. PICK Q : Q = O \ {x}
        OBVIOUS
    <2>2. IsFiniteSet(Q) /\ Cardinality(Q) = Cardinality(O) - 1
        BY <1>2, <2>1
    <2>3. IsFiniteSet(Q \cup {y}) /\ Cardinality(Q \cup {y}) <= Cardinality(Q) + 1
        BY <1>3, <2>2
    <2>4. Cardinality(P) <= Cardinality(Q \cup {y}) /\ Cardinality(P) \in Nat /\ Cardinality(Q \cup {y}) \in Nat
        BY <1>1, <1>7, <2>1, <2>3
    <2> QED
        BY <1>0, <1>7, <2>2, <2>3, <2>4
<1> QED
    BY <1>4, <1>5, <1>6, <1>7 DEF Shifts

LEMMA OpenIs ==
    ASSUME ServerInv, NEW c
    PROVE  IsFiniteSet(Open(c)) /\ Open(c) = {x \in Things : Own(x, c) /\ (x \in work \/ x.com # "SET_ALL")}
<1>1. IsFiniteSet(net \cup work)
    BY FS_Union DEF ServerInv
<1>2. Open(c) = {x \in Things : Own(x, c) /\ (x \in work \/ x.com # "SET_ALL")}
    BY DEF Open, Things
<1>3. Open(c) \subseteq net \cup work
    BY <1>2 DEF Things
<1> QED
    BY <1>1, <1>2, <1>3, FS_Subset

\* A request is no renaming.
LEMMA Apart ==
    ASSUME ServerInv
    PROVE  \A x : ~(x \in net /\ x \in work)
<1>1. ASSUME NEW x, x \in Requests, x \in Renamings PROVE FALSE
    <2>1. DOMAIN x = {"com", "to", "arg", "from", "id", "n"}
        BY <1>1 DEF Requests
    <2>2. "old" \in DOMAIN x
        BY <1>1 DEF Renamings
    <2> QED
        BY <2>1, <2>2
<1> QED
    BY <1>1 DEF ServerInv

LEMMA CountInvStep ==
    ASSUME ClientInv, ServerInv, ServerInv', ClientInv', RenInv, IdInv, CountInv, [Next]_vars
    PROVE  CountInv'
<1>0. inbox \in [Clients -> Seq(Responses)] /\ inbox' \in [Clients -> Seq(Responses)] /\ left \in [Clients -> Nat]
    BY DEF ServerInv, ClientInv
\* The four ways of Counts.
<1> DEFINE Fewer(c) == Open(c)' \subseteq Open(c) /\ Len(inbox'[c]) <= Len(inbox[c])
           Answers(c) == \E x \in Open(c) : Open(c)' \subseteq Open(c) \ {x} /\ Len(inbox'[c]) <= Len(inbox[c]) + 1
           Asks(c) == \E y : Open(c)' \subseteq Open(c) \cup {y} /\ inbox'[c] = inbox[c]
           Replaces(c) ==
               \E x \in Open(c) : \E y : Open(c)' \subseteq (Open(c) \ {x}) \cup {y} /\ inbox'[c] = inbox[c]
           Counted(c) == Busy(c)' => Cardinality(Open(c)') + Len(inbox'[c]) <= client'[c].sent
<1> HIDE DEF Counted
<1>1. ASSUME NEW c \in Clients, Busy(c), client'[c].sent \in Nat,
             \/ (Fewer(c) \/ Answers(c) \/ Replaces(c)) /\ client'[c].sent = client[c].sent
             \/ Asks(c) /\ client'[c].sent = client[c].sent + 1
      PROVE  Counted(c)
    <2>1. client[c].sent \in Nat /\ Cardinality(Open(c)) + Len(inbox[c]) <= client[c].sent
        BY <1>1, CalledIs DEF CountInv, InCall
    <2>2. PICK n \in Nat : n = Len(inbox[c])
        BY <1>0
    <2>3. PICK k \in Nat : k = Len(inbox'[c])
        BY <1>0
    <2>4. PICK O, P : O = Open(c) /\ P = Open(c)'
        OBVIOUS
    <2>5. PICK m \in Nat, j \in Nat : m = client[c].sent /\ j = client'[c].sent
        BY <1>1, <2>1
    <2>6. IsFiniteSet(O)
        BY <2>4, OpenIs
    <2>7. Shifts(O, P, n, k, m, j)
        BY <1>1, <2>2, <2>3, <2>4, <2>5 DEF Shifts
    <2>8. Cardinality(P) + k <= j
        <3>1. Cardinality(O) + n <= m
            BY <2>1, <2>2, <2>4, <2>5
        <3> QED
            BY <2>6, <2>7, <3>1, Counts
    <2> QED
        BY <2>3, <2>4, <2>5, <2>8 DEF Counted
<1>2. ASSUME NEW c \in Clients, UNCHANGED <<client, left>>, Fewer(c) \/ Answers(c) \/ Replaces(c) PROVE Counted(c)
    <2>1. CASE Busy(c)
        BY <1>1, <1>2, <2>1, CalledIs DEF InCall
    <2>2. CASE ~Busy(c)
        BY <1>2, <2>2 DEF Counted, Busy
    <2> QED
        BY <2>1, <2>2
<1>3. ASSUME NEW c \in Clients, client'[c] = client[c], Fewer(c) PROVE Counted(c)
    <2>1. CASE Busy(c)
        BY <1>1, <1>3, <2>1, CalledIs DEF InCall
    <2>2. CASE ~Busy(c)
        BY <1>3, <2>2 DEF Counted, Busy
    <2> QED
        BY <2>1, <2>2
\* Something is taken away, and may be answered.
<1>4. ASSUME NEW x \in Things, x \in work \/ x.com # "SET_ALL", Responds(x), UNCHANGED <<client, left>>,
             \A c \in Clients : Open(c)' \subseteq Open(c) \ {x}, NEW c \in Clients
      PROVE  Counted(c)
    <2>0. Len(inbox[c]) \in Nat
        BY <1>0
    <2>1. CASE inbox'[c] = inbox[c]
        <3>1. Fewer(c)
            BY <1>4, <2>0, <2>1
        <3> QED
            BY <1>2, <1>4, <3>1
    <2>2. CASE Own(x, c) /\ Len(inbox'[c]) = Len(inbox[c]) + 1
        <3>1. x \in Open(c)
            BY <1>4, <2>2, OpenIs
        <3>2. Answers(c)
            BY <1>4, <2>0, <2>2, <3>1
        <3> QED
            BY <1>2, <1>4, <3>2
    <2> QED
        BY <1>4, <2>1, <2>2 DEF Responds
<1>5. ASSUME NEW r \in net, Serve(r) \/ Refuse(r) \/ RenSame(r) \/ RenNothing(r), NEW c \in Clients PROVE Counted(c)
    <2>1. r.com # "SET_ALL" /\ net' = net \ {r} /\ work' = work /\ Responds(r) /\ UNCHANGED <<client, left>>
        BY <1>5, ServedIs
    <2>2. r \notin work
        BY Apart
    <2>3. \A d \in Clients : Open(d)' \subseteq Open(d) \ {r}
        BY <2>1, <2>2 DEF Open, Own
    <2> QED
        BY <1>4, <1>5, <2>1, <2>3 DEF Things
<1>6. ASSUME NEW w \in work, WorkerStep(w), NEW c \in Clients PROVE Counted(c)
    <2>1. work' = work \ {w} /\ net' \subseteq net /\ Responds(w) /\ UNCHANGED <<client, left>>
        BY <1>6, WorkerIs
    <2>2. w \notin net
        BY Apart
    <2>3. \A d \in Clients : Open(d)' \subseteq Open(d) \ {w}
        BY <2>1, <2>2 DEF Open, Own
    <2> QED
        BY <1>4, <1>6, <2>1, <2>3 DEF Things
<1>7. ASSUME NEW r \in net, RenRead(r), NEW c \in Clients PROVE Counted(c)
    <2>1. PICK w \in Renamings, s \in Requests :
             /\ work' = work \cup {w} /\ net' = (net \ {r}) \cup {s} /\ r.com = "REN"
             /\ Same(w, r) /\ s.com = "SET_ALL" /\ UNCHANGED <<client, left, inbox>>
        BY <1>7, RenReadIs
    <2>2. r \notin work
        BY Apart
    <2>3. CASE Own(r, c)
        <3>1. r \in Open(c)
            BY <2>1, <2>3 DEF Open
        <3>2. Open(c)' \subseteq (Open(c) \ {r}) \cup {w}
            BY <2>1, <2>2 DEF Open, Own
        <3> QED
            BY <1>2, <2>1, <3>1, <3>2
    <2>4. CASE ~Own(r, c)
        <3>1. Open(c)' \subseteq Open(c)
            BY <2>1, <2>4 DEF Open, Own, Same
        <3> QED
            BY <1>0, <1>2, <2>1, <3>1
    <2> QED
        BY <2>3, <2>4
<1>8. ASSUME NEW r \in net, ServeSetAll(r), NEW c \in Clients PROVE Counted(c)
    <2>1. r.com = "SET_ALL" /\ net' = net \ {r} /\ UNCHANGED <<client, left, inbox>>
        BY <1>8, ServeSetAllIs
    <2>2. CASE work' = work
        <3>1. Open(c)' \subseteq Open(c)
            BY <2>1, <2>2 DEF Open, Own
        <3> QED
            BY <1>0, <1>2, <2>1, <3>1
    <2>3. ASSUME NEW w \in work, NEW x \in Renamings, work' = (work \ {w}) \cup {x}, Same(x, w) PROVE Counted(c)
        <3>0. w \notin net
            BY Apart
        <3>1. CASE Own(w, c)
            <4>1. w \in Open(c)
                BY <3>1 DEF Open
            <4>2. Open(c)' \subseteq (Open(c) \ {w}) \cup {x}
                BY <2>1, <2>3, <3>0 DEF Open, Own
            <4> QED
                BY <1>2, <2>1, <4>1, <4>2
        <3>2. CASE ~Own(w, c)
            <4>1. Open(c)' \subseteq Open(c)
                BY <2>1, <2>3, <3>2 DEF Open, Own, Same
            <4> QED
                BY <1>0, <1>2, <2>1, <4>1
        <3> QED
            BY <3>1, <3>2
    <2> QED
        BY <1>8, <2>2, <2>3, ServeSetAllIs
<1>9. ASSUME NEW d \in Clients, Send(d), NEW c \in Clients PROVE Counted(c)
    <2>1. PICK r \in Requests : net' = net \cup {r} /\ Own(r, d) /\ UNCHANGED <<left, inbox, work>>
        BY <1>9, SendAsks
    <2>2. /\ client[d].at = "send" /\ InCall(client'[d]) /\ client'[d].sent = client[d].sent + 1
          /\ \A x \in Clients : x # d => client'[x] = client[x]
        BY <1>9, SendIs
    <2>3. CASE c = d
        <3>1. Open(c)' \subseteq Open(c) \cup {r}
            BY <2>1 DEF Open, Own
        <3>2. Busy(c) /\ client'[c].sent \in Nat
            BY <2>2, <2>3 DEF Busy, InCall
        <3> QED
            BY <1>1, <2>1, <2>2, <2>3, <3>1, <3>2
    <2>4. CASE c # d
        <3>1. Open(c)' \subseteq Open(c)
            BY <2>1, <2>4 DEF Open, Own
        <3> QED
            BY <1>0, <1>3, <2>1, <2>2, <2>4, <3>1
    <2> QED
        BY <2>3, <2>4
<1>10. ASSUME NEW d \in Clients, SendFails(d) \/ TimeOut(d) \/ Receive(d), NEW c \in Clients PROVE Counted(c)
    <2>1. UNCHANGED <<net, work, left>> /\ Len(inbox'[c]) <= Len(inbox[c])
        <3>1. CASE SendFails(d) \/ TimeOut(d)
            <4>1. UNCHANGED <<net, work, left, inbox>>
                BY <3>1 DEF SendFails, TimeOut
            <4>2. Len(inbox[c]) \in Nat
                BY <1>0
            <4> QED
                BY <4>1, <4>2
        <3>2. CASE Receive(d)
            <4>1. inbox' = [inbox EXCEPT ![d] = Tail(@)] /\ inbox[d] # <<>>
                BY <3>2 DEF Receive
            <4>2. Len(Tail(inbox[d])) = Len(inbox[d]) - 1 /\ Len(inbox[d]) \in Nat
                BY <1>0, <4>1
            <4>3. CASE c = d
                BY <1>0, <3>2, <4>1, <4>2, <4>3 DEF Receive
            <4>4. CASE c # d
                BY <1>0, <3>2, <4>1, <4>4 DEF Receive
            <4> QED
                BY <4>3, <4>4
        <3> QED
            BY <1>10, <3>1, <3>2
    <2>2. Busy(d) /\ GoesOn(d)
        BY <1>0, <1>10, SendFailsGoesOn, TimeOutGoesOn, ReceiveGoesOn
    <2>3. /\ InCall(client'[d]) /\ client'[d].sent = client[d].sent
          /\ \A x \in Clients : x # d => client'[x] = client[x]
        BY <2>2, GoesOnIs
    <2>4. Open(c)' \subseteq Open(c)
        BY <2>1 DEF Open, Own
    <2>5. CASE c = d
        BY <1>1, <2>1, <2>2, <2>3, <2>4, <2>5 DEF InCall
    <2>6. CASE c # d
        BY <1>3, <2>1, <2>3, <2>4, <2>6
    <2> QED
        BY <2>5, <2>6
<1>11. ASSUME NEW d \in Clients, Return(d), NEW c \in Clients PROVE Counted(c)
    <2>1. /\ client'[d] = Rest /\ \A x \in Clients : x # d => client'[x] = client[x] /\ left'[x] = left[x]
        BY <1>11, ReturnIs
    <2>2. UNCHANGED <<net, work>> /\ inbox' = [inbox EXCEPT ![d] = <<>>]
        BY <1>11 DEF Return
    <2>3. CASE c = d
        BY <2>1, <2>3 DEF Counted, Busy, Rest
    <2>4. CASE c # d
        <3>1. Open(c)' \subseteq Open(c)
            BY <2>1, <2>2, <2>4 DEF Open, Own
        <3>2. Len(inbox'[c]) <= Len(inbox[c])
            BY <1>0, <2>2, <2>4
        <3> QED
            BY <1>3, <2>1, <2>4, <3>1, <3>2
    <2> QED
        BY <2>3, <2>4
<1>12. ASSUME NEW d \in Clients, NEW q \in Offers(d), Begin(d, q), NEW c \in Clients PROVE Counted(c)
    <2>1. UNCHANGED <<net, work, left, inbox>>
        BY <1>12 DEF Begin
    <2>2. /\ ~Busy(d) /\ client'[d].sent = 0 /\ \A x \in Clients : x # d => client'[x] = client[x]
        BY <1>12, BeginIs
    <2>3. Open(c)' = Open(c)
        BY <2>1 DEF Open, Own
    <2>4. CASE c = d
        <3>1. \A x \in Things : ~Own(x, d)
            <4>1. left[d] \in Nat
                BY <1>0
            <4>2. \A x \in Things : x.id > left[x.from] \/ Busy(x.from)
                BY DEF IdInv, Things
            <4> QED
                BY <2>2, <4>1, <4>2 DEF Own
        <3>2. Open(c)' = {}
            BY <2>3, <2>4, <3>1 DEF Open, Things
        <3>3. inbox'[c] = <<>>
            BY <2>1, <2>2, <2>4 DEF IdInv
        <3>4. Cardinality(Open(c)') = 0 /\ Len(inbox'[c]) = 0
            BY <3>2, <3>3, FS_EmptySet
        <3> QED
            BY <2>2, <2>4, <3>4 DEF Counted
    <2>5. CASE c # d
        BY <1>0, <1>3, <2>1, <2>2, <2>3, <2>5
    <2> QED
        BY <2>4, <2>5
<1>13. ASSUME UNCHANGED vars, NEW c \in Clients PROVE Counted(c)
    <2>1. UNCHANGED <<net, work, left, inbox, client>>
        BY <1>13 DEF vars
    <2>2. Open(c)' = Open(c)
        BY <2>1 DEF Open, Own
    <2> QED
        BY <1>0, <1>3, <2>1, <2>2
<1>14. \A c \in Clients : Counted(c)
    <2>1. ASSUME NEW d \in Clients, ClientStep(d), NEW c \in Clients PROVE Counted(c)
        BY <1>9, <1>10, <1>11, <2>1 DEF ClientStep
    <2>2. ASSUME NEW r \in net, ServerStep(r), NEW c \in Clients PROVE Counted(c)
        BY <1>5, <1>7, <1>8, <2>2 DEF ServerStep
    <2> QED
        BY <1>6, <1>12, <1>13, <2>1, <2>2 DEF Next
<1> QED
    BY <1>14 DEF CountInv, Counted
-----------------------------------------------------------------------------
(* The theorems.                                                           *)

LEMMA RenameInvInit == Init => RenameInv
<1> SUFFICES ASSUME Init PROVE RenameInv
    OBVIOUS
<1>1. /\ store \in [Keys -> Elements] /\ written \subseteq Values \ {None}
      /\ \A k \in Keys : store[k].val \in written \cup {None}
    <2>1. store \in [Keys -> [val : Keys \cup {None}, subs : SUBSET Keys]]
        BY CompositeAssumption DEF Init
    <2>2. store \in [Keys -> Elements]
        BY <2>1 DEF Elements
    <2>3. written = {store[k].val : k \in Keys} \ {None}
        BY DEF Init
    <2> QED
        BY <2>1, <2>2, <2>3 DEF Values
<1>2. net = {} /\ work = {} /\ faults = 0 /\ excused = {} /\ inbox = [c \in Clients |-> <<>>]
    BY DEF Init
<1>3. client = [c \in Clients |-> Rest] /\ left = [c \in Clients |-> CallsOf(c)] /\ Rest.at = "rest"
    BY DEF Init, Rest
<1>4. ClientInv
    BY <1>3, CompositeAssumption DEF ClientInv
<1>5. ServerInv
    <2>1. inbox \in [Clients -> Seq(Responses)] /\ faults \in 0 .. MaxFaults
        BY <1>2, CompositeAssumption
    <2> QED
        BY <1>1, <1>2, <2>1, FS_EmptySet DEF ServerInv
<1>6. IdInv
    BY <1>2, <1>3 DEF IdInv
<1>7. CountInv
    BY <1>3 DEF CountInv, Busy
<1>8. RenInv /\ ValueInv
    BY <1>1, <1>2 DEF RenInv, ValueInv
<1>9. SafeInv
    <2>1. \A v \in written : \E k \in Keys : store[k].val = v
        BY DEF Init
    <2> QED
        BY <1>2, <2>1 DEF SafeInv, Kept
<1> QED
    BY <1>4, <1>5, <1>6, <1>7, <1>8, <1>9 DEF RenameInv

LEMMA RenameInvariant == Spec => []RenameInv
<1>1. Init => RenameInv
    BY RenameInvInit
<1>2. RenameInv /\ [Next]_vars => RenameInv'
    <2> SUFFICES ASSUME RenameInv, [Next]_vars PROVE RenameInv'
        OBVIOUS
    <2>1. ClientInv /\ ServerInv /\ IdInv /\ CountInv /\ RenInv /\ ValueInv /\ SafeInv
        BY DEF RenameInv
    <2>2. ClientInv'
        BY <2>1, ClientInvStep
    <2>3. ServerInv'
        BY <2>1, ServerInvStep
    <2>4. IdInv' /\ CountInv'
        BY <2>1, <2>2, <2>3, IdInvStep, CountInvStep
    <2>5. RenInv' /\ ValueInv' /\ SafeInv'
        BY <2>1, RenInvStep, ValueInvStep, SafeInvStep
    <2> QED
        BY <2>2, <2>3, <2>4, <2>5 DEF RenameInv
<1> QED
    BY <1>1, <1>2, PTL DEF Spec

\* The types; in particular a client has a request to send or to wait for unless
\* its call is over, and never more responses than it has sent requests, although
\* a renaming passes through three forms at two servers.
THEOREM TypeCorrect == Spec => []TypeOK
<1>1. RenameInv => TypeOK
    <2> SUFFICES ASSUME RenameInv PROVE TypeOK
        OBVIOUS
    <2>1. ClientInv /\ ServerInv /\ CountInv
        BY DEF RenameInv
    <2>2. /\ store \in [Keys -> Elements] /\ faults \in 0 .. MaxFaults
          /\ written \cup excused \subseteq Keys \cup Clients \cup {None}
        BY <2>1 DEF ServerInv, Values
    <2>3. \A r \in net : r.to \in Keys /\ r.from \in Clients
        BY <2>1, RequestIs
    <2>4. \A w \in work : w.at \in {"wait", "remove"} /\ w.val # None
        BY <2>1, RenamingIs
    <2>5. ASSUME NEW c \in Clients, Busy(c)
          PROVE  /\ client[c].at \in {"send", "wait", "end"}
                 /\ client[c].at # "end" => client[c].todo # <<>>
                 /\ Len(inbox[c]) <= client[c].sent
        <3>1. InCall(client[c])
            BY <2>1, <2>5, CalledIs
        <3>2. Cardinality(Open(c)) + Len(inbox[c]) <= client[c].sent
            BY <2>1, <2>5 DEF CountInv
        <3>3. PICK n \in Nat : n = Cardinality(Open(c))
            BY <2>1, OpenIs, FS_CardinalityType
        <3>4. Len(inbox[c]) \in Nat /\ client[c].sent \in Nat
            BY <2>1, <3>1 DEF ServerInv, InCall
        <3> QED
            BY <3>1, <3>2, <3>3, <3>4 DEF InCall
    <2> QED
        BY <2>2, <2>3, <2>4, <2>5 DEF TypeOK
<1> QED
    BY <1>1, RenameInvariant, PTL

\* Whatever fails in a renaming, and whatever other calls do between its steps
\* (K2hdkcComRen::CommandProcessing holds no lock over them), a value that was
\* stored is at some key, unless a request has replaced or deleted it, or has
\* stored it at the old key after REN had read that key.
THEOREM RenKeepsValueHolds == Spec => []RenKeepsValue
<1>1. RenameInv => RenKeepsValue
    BY DEF RenameInv, SafeInv, Kept, RenKeepsValue
<1> QED
    BY <1>1, RenameInvariant, PTL

================================================================================
