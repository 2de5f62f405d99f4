-------------------------- MODULE CompositeCallsProofs --------------------------
(***************************************************************************)
(* What whole calls of several requests leave behind (CompositeCommands),  *)
(* for any number of clients, keys, calls and faults.                      *)
(*                                                                         *)
(* A call that sees no error and no timeout, with nobody else at work, has *)
(* done all it means to do (SuccessIsComplete).  The invariant follows     *)
(* such a call request by request: what is left to do says what the keys   *)
(* hold by now.                                                            *)
(*                                                                         *)
(* While clients store values and add subkeys, whatever fails and meets,   *)
(* no list names a key without a value, and a value in no list is the      *)
(* mark of a call that has failed, has met another or was a SET            *)
(* (ListsMatch).  The invariant says which request of a call may be under  *)
(* way, and which keys a call has still to name.                           *)
(***************************************************************************)
EXTENDS CompositeCommandsProofs

-----------------------------------------------------------------------------
(* How far a call is: todo is what is left to do, main and skipped what the *)
(* caller will be told, b what the keys held before and s what they hold.  *)

AlongSet(c, q, todo, main, s) ==
    \/ todo = SetTasks(c, q)
    \/ todo = <<>> /\ (main => s[q.key].val = c)

AlongAdd(c, q, todo, s) ==
    \/ todo = AddSubkeyTasks(c, q)
    \/ /\ s[q.sub].val = c
       /\ \/ todo = Tail(AddSubkeyTasks(c, q))
          \/ todo = <<>> /\ q.sub \in s[q.key].subs

\* What a deletion puts in the place of a key when not all nodes are safe.
Placeholder(k) == Task(DelSteps(TRUE, FALSE)[3], k, Nothing)

AlongDelsub(c, q, todo, skipped, s) ==
    \/ todo = DelSubkeyTasks(c, q)
    \/ /\ skipped \/ s[q.sub].val = None
       /\ \/ todo = Tail(DelSubkeyTasks(c, q))
          \/ todo = <<Placeholder(q.sub)>> \o Tail(DelSubkeyTasks(c, q))
          \/ todo = <<>> /\ q.sub \notin s[q.key].subs

\* What REN does, and then what DEL_SUBKEYS does to the list of the parent.
Renamed(q, b, s) == s[q.sub].val = b[q.key].val /\ (q.key # q.sub => s[q.key].val = None)
Unlisted(q, s) == q.key # q.sub => q.key \notin s[q.parent].subs

AlongRen(c, q, todo, b, s) ==
    \/ todo = RenTasks(c, q) /\ s[q.key].val = b[q.key].val
    \/ /\ Renamed(q, b, s)
       /\ \/ todo = Tail(RenTasks(c, q))
          \/ Unlisted(q, s) /\ todo = Tail(Tail(RenTasks(c, q)))
          \/ Unlisted(q, s) /\ todo = <<>> /\ q.sub \in s[q.parent].subs

\* After the deletion of the key itself: requests that delete keys of lists, or
\* put placeholders, and whose failure is ignored.
Sweeps(t) ==
    /\ t.step.com \in {"GET_SUBKEYS", "DEL", "SET"} /\ ~t.step.main
    /\ t.step.com = "GET_SUBKEYS" => t.arg.nested
    /\ t.step.com = "SET" => t.arg.val = None
Sweeping(todo) == \A i \in 1 .. Len(todo) : Sweeps(todo[i])

\* A key that is still to be deleted.
Deletes(t, k) == t.to = k /\ t.step.com \in {"GET_SUBKEYS", "DEL"}
Pending(todo, k) == \E i \in 1 .. Len(todo) : Deletes(todo[i], k)
Swept(todo, keys, s) == \A k \in keys : s[k].val = None \/ Pending(todo, k)

AlongDel(q, todo, main, skipped, b, s) ==
    \/ todo = <<ReadList(q.key, FALSE)>> /\ s[q.key].subs = b[q.key].subs
    \/ \E l \in SUBSET Keys : todo = <<DeleteKey(q.key, FALSE, l)>> /\ (skipped \/ l = b[q.key].subs)
    \/ Sweeping(todo) /\ (main => s[q.key] = Absent /\ (skipped \/ Swept(todo, b[q.key].subs, s)))

Along(c, q, todo, main, skipped, b, s) ==
    \/ q.op = "set" /\ AlongSet(c, q, todo, main, s)
    \/ q.op = "addsub" /\ AlongAdd(c, q, todo, s)
    \/ q.op = "delsub" /\ AlongDelsub(c, q, todo, skipped, s)
    \/ q.op = "ren" /\ AlongRen(c, q, todo, b, s)
    \/ q.op = "del" /\ AlongDel(q, todo, main, skipped, b, s)

\* The call goes as planned so far.
OnTrack(c, d, s) == Along(c, d.call, d.todo, d.main, d.skipped, d.before, s)

\* What Proceed makes of a call, field by field.
Stops(t, failed, good) == (failed /\ t.step.onFail = "stop") \/ (~failed /\ ~good /\ t.step.onError = "stop")
Remaining(todo, failed, list, safe) == Following(Head(todo), failed, list, safe) \o Tail(todo)
Skips(todo, skipped, good) == skipped \/ (~good /\ ~Head(todo).step.main)
Mains(todo, main, good) == IF Head(todo).step.main THEN good ELSE main

\* Once the first request is done with, the call ends as a failure or goes on as
\* planned.
Stays(c, q, todo, main, skipped, b, failed, good, list, s) ==
    \/ Stops(Head(todo), failed, good)
    \/ \A safe \in BOOLEAN :
          Along(c, q, Remaining(todo, failed, list, safe), Mains(todo, main, good), Skips(todo, skipped, good), b, s)
StaysOnTrack(c, d, failed, good, list, s) ==
    Stays(c, d.call, d.todo, d.main, d.skipped, d.before, failed, good, list, s)

-----------------------------------------------------------------------------
(* The invariant.                                                          *)

\* Nobody is served, or at most a SET_ALL that came too late.
NoneServed == net = {} /\ work = {}
NoneAsked == work = {} /\ \A r \in net : r.com = "SET_ALL"

\* The request waited for is lost, is not yet served, is a renaming under way,
\* or is answered.
Lost(c) == NoneAsked /\ inbox[c] = <<>>

Carries(r, t) == r.com = t.step.com /\ r.to = t.to /\ r.arg = t.arg
Asked(c) ==
    /\ work = {} /\ inbox[c] = <<>> /\ OnTrack(c, client[c], store)
    /\ \E r \in net : net = {r} /\ Carries(r, Head(client[c].todo))

Moves(c, q, w) == inbox[c] = <<>> /\ work = {w} /\ w.old = q.key /\ w.new = q.sub
RenamingAt(c, w) ==
    LET d == client[c] IN
    /\ d.call.op = "ren" /\ d.todo = RenTasks(c, d.call) /\ Moves(c, d.call, w)
    /\ \/ /\ w.at = "wait" /\ store[w.old].val = d.before[w.old].val
          /\ \E r \in net : /\ net = {r} /\ r.com = "SET_ALL" /\ Same(r, w)
                            /\ r.to = w.new /\ r.arg.val = store[w.old].val
       \/ w.at = "remove" /\ net = {} /\ store[w.new].val = d.before[w.old].val

Answered(c) ==
    /\ NoneAsked
    /\ \E a \in Responses :
          /\ inbox[c] = <<a>> /\ a.com = Head(client[c].todo).step.com
          /\ \/ Stops(Head(client[c].todo), FALSE, a.good)
             \/ net = {} /\ StaysOnTrack(c, client[c], FALSE, a.good, a.list, store)

\* A call as the theorem is about it, up to here.
Clean(c) == Busy(c) /\ client[c].ok /\ ~client[c].late /\ c \notin overlap

GoesWell(c) ==
    LET d == client[c] IN
    \/ d.at = "send" /\ NoneServed /\ inbox[c] = <<>> /\ OnTrack(c, d, store)
    \/ d.at = "end" /\ NoneServed /\ d.todo = <<>> /\ OnTrack(c, d, store)
    \/ d.at = "wait" /\ (Lost(c) \/ Asked(c) \/ Answered(c) \/ \E w \in work : RenamingAt(c, w))

Alone(c) == \A e \in Clients : e # c => ~Busy(e)
GoodCall(c) ==
    Alone(c) /\ GoesWell(c) /\ Fits(client[c].call) /\ client[c].before \in [Keys -> Elements]
CleanInv == \A c \in Clients : Clean(c) => GoodCall(c)

-----------------------------------------------------------------------------
(* The requests of a call, and what follows them.                          *)

LEMMA StepValues ==
    /\ One("SET")[1] = Step("SET", "stop", "ignore", TRUE)
    /\ AddSubkeySteps[1] = Step("SET", "stop", "stop", FALSE)
    /\ AddSubkeySteps[2] = Step("ADD_SUBKEYS", "stop", "stop", FALSE)
    /\ DelSubkeySteps[1] = Step("DEL", "ignore", "ignore", FALSE)
    /\ DelSubkeySteps[2] = Step("DEL_SUBKEYS", "stop", "stop", FALSE)
    /\ DelSteps(TRUE, TRUE)[1] = Step("GET_SUBKEYS", "ignore", "ignore", FALSE)
    /\ DelSteps(TRUE, TRUE)[2] = Step("DEL", "stop", "ignore", TRUE)
    /\ DelSteps(TRUE, FALSE)[3] = Step("SET", "ignore", "ignore", FALSE)
    /\ RenSteps(TRUE)[1] = Step("REN", "stop", "stop", TRUE)
    /\ RenSteps(TRUE)[2] = Step("DEL_SUBKEYS", "stop", "stop", FALSE)
    /\ RenSteps(TRUE)[3] = Step("ADD_SUBKEYS", "stop", "stop", FALSE)
<1> DEFINE p == Step("GET_SUBKEYS", "ignore", "ignore", FALSE)
           d == Step("DEL", "stop", "ignore", TRUE)
           e == Step("SET", "ignore", "ignore", FALSE)
<1>1. IsStep(p, "GET_SUBKEYS") /\ IsStep(d, "DEL") /\ IsStep(e, "SET")
    BY StepIs DEF TaskComs
<1>2. DelSteps(TRUE, TRUE) = (<<p>> \o <<d>>) \o <<>> /\ DelSteps(TRUE, FALSE) = (<<p>> \o <<d>>) \o <<e>>
    BY DEF DelSteps
<1> HIDE DEF p, d, e
<1>3. PICK f, g : f = <<e>> /\ g = <<>>
    OBVIOUS
<1>4. p \in Steps /\ d \in Steps /\ f \in Seq(Steps) /\ f # <<>> /\ f[1] = e /\ g \in Seq(Steps)
    BY <1>1, <1>3 DEF IsStep
<1>5. /\ ((<<p>> \o <<d>>) \o f)[3] = e
      /\ ((<<p>> \o <<d>>) \o g)[1] = p /\ ((<<p>> \o <<d>>) \o g)[2] = d
    BY <1>4, Joined
<1>6. DelSteps(TRUE, TRUE)[1] = p /\ DelSteps(TRUE, TRUE)[2] = d /\ DelSteps(TRUE, FALSE)[3] = e
    BY <1>2, <1>3, <1>5
<1>7. One("SET")[1] = Step("SET", "stop", "ignore", TRUE)
    BY DEF One
<1>8. /\ AddSubkeySteps[1] = Step("SET", "stop", "stop", FALSE)
      /\ AddSubkeySteps[2] = Step("ADD_SUBKEYS", "stop", "stop", FALSE)
    BY DEF AddSubkeySteps
<1>9. /\ DelSubkeySteps[1] = Step("DEL", "ignore", "ignore", FALSE)
      /\ DelSubkeySteps[2] = Step("DEL_SUBKEYS", "stop", "stop", FALSE)
    BY DEF DelSubkeySteps
<1>10. /\ RenSteps(TRUE)[1] = Step("REN", "stop", "stop", TRUE)
       /\ RenSteps(TRUE)[2] = Step("DEL_SUBKEYS", "stop", "stop", FALSE)
       /\ RenSteps(TRUE)[3] = Step("ADD_SUBKEYS", "stop", "stop", FALSE)
    BY DEF RenSteps
<1> QED
    BY <1>6, <1>7, <1>8, <1>9, <1>10 DEF p, d, e

\* A task, taken apart.
Of(t, com, onFail, onError, main, to, arg) ==
    /\ t.step.com = com /\ t.step.onFail = onFail /\ t.step.onError = onError /\ t.step.main = main
    /\ t.to = to /\ t.arg = arg

LEMMA TaskParts ==
    ASSUME NEW com, NEW f, NEW e, NEW m, NEW to, NEW arg
    PROVE  Of(Task(Step(com, f, e, m), to, arg), com, f, e, m, to, arg)
BY DEF Of, Task, Step

\* The keys of a list, each of them once.
LEMMA EachInOrder ==
    ASSUME NEW S \in SUBSET Keys
    PROVE  /\ SetToSeq(S) \in Seq(Keys)
           /\ \A k \in S : \E i \in 1 .. Len(SetToSeq(S)) : SetToSeq(S)[i] = k
           /\ S = {} => SetToSeq(S) = <<>>
<1>1. IsFiniteSet(S)
    BY CompositeAssumption, FS_Subset
<1>2. PICK n \in Nat : n = Cardinality(S)
    BY <1>1, FS_CardinalityType
<1>3. PICK f : f \in Bijection(1 .. n, S)
    BY <1>1, <1>2, FS_CardinalityType DEF ExistsBijection
<1>4. f \in [1 .. n -> S] /\ IsInjective(f)
    BY <1>3 DEF Bijection, Injection, IsInjective
<1>5. PICK g : g = SetToSeq(S)
    OBVIOUS
<1>6. g \in [1 .. n -> S] /\ IsInjective(g)
    BY <1>2, <1>4, <1>5 DEF SetToSeq
<1>7. \A k \in S : \E i \in 1 .. n : g[i] = k
    <2>1. g \in Injection(1 .. n, S)
        BY <1>6 DEF Injection, IsInjective
    <2>2. IsFiniteSet(1 .. n) /\ Cardinality(1 .. n) = n
        BY FS_Interval
    <2>3. g \in Surjection(1 .. n, S)
        BY <1>1, <1>2, <2>1, <2>2, FS_Injection
    <2> QED
        BY <2>3 DEF Surjection
<1>8. g \in Seq(Keys) /\ Len(g) = n
    BY <1>6
<1>9. S = {} => g = <<>>
    <2>1. S = {} => n = 0
        BY <1>2, FS_EmptySet
    <2> QED
        BY <1>8, <2>1
<1> QED
    BY <1>5, <1>7, <1>8, <1>9

\* What follows a request that is no deletion of a key and reads no list, or was
\* not answered.
LEMMA NothingFollows ==
    ASSUME NEW t, NEW failed \in BOOLEAN, NEW l, NEW safe,
           t.step.com # "GET_SUBKEYS", t.step.com = "DEL" => failed
    PROVE  Following(t, failed, l, safe) = <<>>
BY DEF Following

LEMMA PlaceholderIs ==
    ASSUME NEW k \in Keys
    PROVE  /\ Of(Placeholder(k), "SET", "ignore", "ignore", FALSE, k, Nothing)
           /\ Placeholder(k) \in Tasks /\ Sweeps(Placeholder(k))
<1>1. PICK p : p = Placeholder(k)
    OBVIOUS
<1>2. Of(p, "SET", "ignore", "ignore", FALSE, k, Nothing)
    BY <1>1, StepValues, TaskParts DEF Placeholder
<1>3. p \in Tasks
    BY <1>1, ListTasks DEF Placeholder, IsTask
<1>4. Nothing.val = None
    BY DEF Nothing
<1> QED
    BY <1>1, <1>2, <1>3, <1>4 DEF Sweeps, Of

LEMMA ReadListIs ==
    ASSUME NEW k \in Keys, NEW b \in BOOLEAN
    PROVE  /\ Of(ReadList(k, b), "GET_SUBKEYS", "ignore", "ignore", FALSE, k, [Nothing EXCEPT !.nested = b])
           /\ ReadList(k, b) \in Tasks /\ ReadList(k, b).arg.nested = b
<1>1. PICK p : p = ReadList(k, b)
    OBVIOUS
<1>2. Of(p, "GET_SUBKEYS", "ignore", "ignore", FALSE, k, [Nothing EXCEPT !.nested = b])
    BY <1>1, StepValues, TaskParts DEF ReadList
<1>3. p \in Tasks
    BY <1>1, ListTasks DEF IsTask
<1>4. [Nothing EXCEPT !.nested = b].nested = b
    BY DEF Nothing
<1> QED
    BY <1>1, <1>2, <1>3, <1>4 DEF Of

LEMMA DeleteKeyIs ==
    ASSUME NEW k \in Keys, NEW l \in SUBSET Keys
    PROVE  /\ Of(DeleteKey(k, TRUE, l), "DEL", "ignore", "ignore", FALSE, k, [Nothing EXCEPT !.subs = l])
           /\ Of(DeleteKey(k, FALSE, l), "DEL", "stop", "ignore", TRUE, k, [Nothing EXCEPT !.subs = l])
           /\ DeleteKey(k, FALSE, l).arg.subs = l
<1>1. PICK a : a = [Nothing EXCEPT !.subs = l]
    OBVIOUS
<1>2. DeleteKey(k, TRUE, l) = Task(Step("DEL", "ignore", "ignore", FALSE), k, a)
    BY <1>1 DEF DeleteKey
<1>3. DeleteKey(k, FALSE, l) = Task(Step("DEL", "stop", "ignore", TRUE), k, a)
    BY <1>1, StepValues DEF DeleteKey
<1>4. Of(DeleteKey(k, FALSE, l), "DEL", "stop", "ignore", TRUE, k, a)
    BY <1>3, TaskParts
<1>5. DeleteKey(k, FALSE, l).arg.subs = l
    BY <1>1, <1>4 DEF Of, Nothing
<1>6. Of(DeleteKey(k, TRUE, l), "DEL", "ignore", "ignore", FALSE, k, a)
    BY <1>2, TaskParts
<1> QED
    BY <1>1, <1>4, <1>5, <1>6

\* After a deletion the keys of the list are to be deleted, and nothing else is
\* to be done but for the placeholder.
LEMMA DeletionSweeps ==
    ASSUME NEW t \in Tasks, NEW safe
    PROVE  /\ DeletedThen(t, safe) \in Seq(Tasks) /\ Sweeping(DeletedThen(t, safe))
           /\ \A k \in t.arg.subs : Pending(DeletedThen(t, safe), k)
           /\ t.arg.subs = {} => DeletedThen(t, safe) = IF safe THEN <<>> ELSE <<Placeholder(t.to)>>
<1>0. t.to \in Keys /\ t.arg.subs \in SUBSET Keys
    BY DEF Tasks, Args
<1>1. PICK k \in Seq(Keys) : k = SetToSeq(t.arg.subs)
    BY <1>0, EachInOrder
<1>2. PICK n \in Nat : n = Len(k)
    OBVIOUS
<1>3. PICK p : p = [i \in DOMAIN k |-> ReadList(k[i], TRUE)]
    OBVIOUS
<1>4. ASSUME NEW i \in 1 .. n
      PROVE  p[i] \in Tasks /\ Sweeps(p[i]) /\ Deletes(p[i], k[i])
    <2>1. DOMAIN k = 1 .. n /\ k[i] \in Keys
        BY <1>2
    <2>2. p[i] = ReadList(k[i], TRUE)
        BY <1>3, <2>1
    <2>3. /\ Of(p[i], "GET_SUBKEYS", "ignore", "ignore", FALSE, k[i], [Nothing EXCEPT !.nested = TRUE])
          /\ p[i] \in Tasks /\ p[i].arg.nested
        BY <2>1, <2>2, ReadListIs
    <2> QED
        BY <2>3 DEF Sweeps, Deletes, Of
<1>5. p \in Seq(Tasks) /\ Len(p) = n
    <2>1. DOMAIN k = 1 .. n
        BY <1>2
    <2>2. p \in [1 .. n -> Tasks]
        BY <1>3, <1>4, <2>1
    <2> QED
        BY <2>2
<1>6. PICK e \in Seq(Tasks) : e = IF safe THEN <<>> ELSE <<Placeholder(t.to)>>
    <2>1. PICK h : h = Placeholder(t.to)
        OBVIOUS
    <2>2. h \in Tasks
        BY <1>0, <2>1, PlaceholderIs
    <2>3. <<h>> \in Seq(Tasks) /\ <<>> \in Seq(Tasks)
        BY <2>2
    <2> QED
        BY <2>1, <2>3
<1>7. PICK m \in Nat : m = Len(e)
    OBVIOUS
<1>8. ASSUME NEW j \in 1 .. m PROVE Sweeps(e[j])
    <2>1. Sweeps(Placeholder(t.to))
        BY <1>0, PlaceholderIs
    <2> QED
        BY <1>6, <1>7, <2>1
<1>9. PICK u : u = p \o e
    OBVIOUS
<1>10. u \in Seq(Tasks) /\ Len(u) = n + m /\ \A i \in 1 .. n + m : u[i] = IF i <= n THEN p[i] ELSE e[i - n]
    BY <1>5, <1>6, <1>7, <1>9, ConcatProperties
<1>11. u = DeletedThen(t, safe)
    BY <1>1, <1>3, <1>6, <1>9 DEF DeletedThen, Placeholder
<1>12. Sweeping(u)
    <2>1. ASSUME NEW i \in 1 .. n + m PROVE Sweeps(u[i])
        <3>1. CASE i <= n
            BY <1>4, <1>10, <3>1
        <3>2. CASE i > n
            <4>1. i - n \in 1 .. m /\ u[i] = e[i - n]
                BY <1>10, <3>2
            <4> QED
                BY <1>8, <4>1
        <3> QED
            BY <3>1, <3>2
    <2> QED
        BY <1>10, <2>1 DEF Sweeping
<1>13. ASSUME NEW x \in t.arg.subs PROVE Pending(u, x)
    <2>1. PICK i \in 1 .. n : k[i] = x
        BY <1>0, <1>1, <1>2, EachInOrder
    <2>2. Deletes(u[i], x) /\ i \in 1 .. Len(u)
        BY <1>4, <1>10, <2>1
    <2> QED
        BY <2>2 DEF Pending
<1>14. t.arg.subs = {} => u = e
    <2>1. t.arg.subs = {} => n = 0
        BY <1>0, <1>1, <1>2, EachInOrder
    <2>2. n = 0 => p = <<>>
        BY <1>5
    <2> QED
        BY <1>6, <1>9, <2>1, <2>2
<1> QED
    BY <1>6, <1>10, <1>11, <1>12, <1>13, <1>14

-----------------------------------------------------------------------------
(* Whatever becomes of a request, the call goes as planned or ends as a     *)
(* failure.                                                                *)

\* What a request that is served makes of the keys, and what it answers.
Makes(t, s, s2, l) ==
    /\ \A k \in Keys : k # t.to => s2[k] = s[k]
    /\ t.step.com = "SET" => s2[t.to] = [val |-> t.arg.val, subs |-> s[t.to].subs]
    /\ t.step.com = "DEL" => s2[t.to] = Absent
    /\ t.step.com = "ADD_SUBKEYS" => s2[t.to] = [val |-> s[t.to].val, subs |-> s[t.to].subs \cup {t.arg.key}]
    /\ t.step.com = "DEL_SUBKEYS" => s2[t.to] = [val |-> s[t.to].val, subs |-> s[t.to].subs \ {t.arg.key}]
    /\ t.step.com = "GET_SUBKEYS" => s2[t.to] = s[t.to] /\ l = s[t.to].subs

\* Whatever becomes of the first request of todo.
StaysAnyway(c, q, todo, main, skipped, b, s) ==
    /\ \A failed \in BOOLEAN : Stays(c, q, todo, main, skipped, b, failed, FALSE, {}, s)
    /\ Head(todo).step.com # "REN" =>
          \A l \in SUBSET Keys : \A s2 \in [Keys -> Elements] :
              Makes(Head(todo), s, s2, l) => Stays(c, q, todo, main, skipped, b, FALSE, TRUE, l, s2)

LEMMA NextIsTail ==
    ASSUME NEW todo \in Seq(Tasks), todo # <<>>, NEW failed \in BOOLEAN, NEW l, NEW safe,
           Head(todo).step.com # "GET_SUBKEYS", Head(todo).step.com = "DEL" => failed
    PROVE  Remaining(todo, failed, l, safe) = Tail(todo)
<1>1. Following(Head(todo), failed, l, safe) = <<>>
    BY NothingFollows
<1>2. Tail(todo) \in Seq(Tasks)
    OBVIOUS
<1> QED
    BY <1>1, <1>2 DEF Remaining

\* Short lists of tasks, and a task put before others.
LEMMA OneTask ==
    ASSUME NEW a, NEW s, s = <<a>>
    PROVE  Head(s) = a /\ Tail(s) = <<>>
<1>1. Head(<<a>>) = a /\ Tail(<<a>>) = <<>>
    OBVIOUS
<1> QED
    BY <1>1, Zenon

LEMMA TwoTasks ==
    ASSUME NEW a, NEW b, NEW s, s = <<a, b>>
    PROVE  Head(s) = a /\ Tail(s) = <<b>>
<1>1. Head(<<a, b>>) = a /\ Tail(<<a, b>>) = <<b>>
    OBVIOUS
<1> QED
    BY <1>1, Zenon

LEMMA ThreeTasks ==
    ASSUME NEW a, NEW b, NEW d, NEW s, s = <<a, b, d>>
    PROVE  Head(s) = a /\ Tail(s) = <<b, d>>
<1>1. Head(<<a, b, d>>) = a /\ Tail(<<a, b, d>>) = <<b, d>>
    OBVIOUS
<1> QED
    BY <1>1, Zenon

LEMMA TaskBefore ==
    ASSUME NEW a \in Tasks, NEW r \in Seq(Tasks), NEW s, s = <<a>> \o r
    PROVE  Head(s) = a /\ Tail(s) = r
OBVIOUS

LEMMA ValueIs == (\A v : Value(v).val = v) /\ (\A k : Name(k).key = k) /\ Nothing.val = None /\ Nothing.subs = {}
BY DEF Value, Name, Nothing

LEMMA SetStays ==
    ASSUME NEW c \in Clients, NEW q, Fits(q), q.op = "set", NEW todo \in Seq(Tasks), todo # <<>>, NEW main, NEW skipped,
           NEW b, NEW s, AlongSet(c, q, todo, main, s)
    PROVE  StaysAnyway(c, q, todo, main, skipped, b, s)
<1>1. PICK t : t = Task(One("SET")[1], q.key, Value(c))
    OBVIOUS
<1>2. todo = <<t>> /\ Of(t, "SET", "stop", "ignore", TRUE, q.key, Value(c)) /\ q.key \in Keys
    BY <1>1, StepValues, TaskParts DEF AlongSet, SetTasks, Fits
<1>3. Head(todo) = t /\ Tail(todo) = <<>>
    BY <1>2
<1>4. \A failed \in BOOLEAN : \A l, safe : Remaining(todo, failed, l, safe) = <<>>
    BY <1>2, <1>3, NextIsTail DEF Of
<1>5. ASSUME NEW failed \in BOOLEAN PROVE Stays(c, q, todo, main, skipped, b, failed, FALSE, {}, s)
    BY <1>2, <1>3, <1>4 DEF Stays, Stops, Along, AlongSet, Mains, Of
<1>6. ASSUME NEW l \in SUBSET Keys, NEW s2 \in [Keys -> Elements], Makes(t, s, s2, l)
      PROVE  Stays(c, q, todo, main, skipped, b, FALSE, TRUE, l, s2)
    <2>1. s2[q.key].val = c
        BY <1>2, <1>6, ValueIs DEF Makes, Of
    <2> QED
        BY <1>4, <2>1 DEF Stays, Along, AlongSet
<1> QED
    BY <1>3, <1>5, <1>6 DEF StaysAnyway

LEMMA AddStays ==
    ASSUME NEW c \in Clients, NEW q, Fits(q), q.op = "addsub", NEW todo \in Seq(Tasks), todo # <<>>, NEW main, NEW skipped,
           NEW b, NEW s, AlongAdd(c, q, todo, s)
    PROVE  StaysAnyway(c, q, todo, main, skipped, b, s)
<1>1. PICK t, u : t = Task(AddSubkeySteps[1], q.sub, Value(c)) /\ u = Task(AddSubkeySteps[2], q.key, Name(q.sub))
    OBVIOUS
<1>2. /\ Of(t, "SET", "stop", "stop", FALSE, q.sub, Value(c)) /\ Of(u, "ADD_SUBKEYS", "stop", "stop", FALSE, q.key, Name(q.sub))
      /\ q.key \in Keys /\ q.sub \in Keys
    BY <1>1, StepValues, TaskParts DEF Fits
<1>3. AddSubkeyTasks(c, q) = <<t, u>> /\ Tail(<<t, u>>) = <<u>>
    BY <1>1 DEF AddSubkeyTasks
<1>4. \/ Head(todo) = t /\ Tail(todo) = <<u>>
      \/ Head(todo) = u /\ Tail(todo) = <<>> /\ s[q.sub].val = c
    <2>1. todo = <<t, u>> \/ (todo = <<u>> /\ s[q.sub].val = c)
        BY <1>3 DEF AlongAdd
    <2> QED
        BY <2>1, OneTask, TwoTasks
<1>5. \A failed \in BOOLEAN : \A l, safe : Remaining(todo, failed, l, safe) = Tail(todo)
    BY <1>2, <1>4, NextIsTail DEF Of
<1>6. ASSUME NEW failed \in BOOLEAN PROVE Stays(c, q, todo, main, skipped, b, failed, FALSE, {}, s)
    BY <1>2, <1>4 DEF Stays, Stops, Of
<1>7. ASSUME NEW l \in SUBSET Keys, NEW s2 \in [Keys -> Elements], Makes(Head(todo), s, s2, l)
      PROVE  Stays(c, q, todo, main, skipped, b, FALSE, TRUE, l, s2)
    <2>1. CASE Head(todo) = t /\ Tail(todo) = <<u>>
        <3>1. s2[q.sub].val = c
            BY <1>2, <1>7, <2>1, ValueIs DEF Makes, Of
        <3> QED
            BY <1>3, <1>5, <2>1, <3>1 DEF Stays, Along, AlongAdd
    <2>2. CASE Head(todo) = u /\ Tail(todo) = <<>> /\ s[q.sub].val = c
        <3>1. s2[q.sub].val = c /\ q.sub \in s2[q.key].subs
            BY <1>2, <1>7, <2>2, ValueIs DEF Makes, Of
        <3> QED
            BY <1>5, <2>2, <3>1 DEF Stays, Along, AlongAdd
    <2> QED
        BY <1>4, <2>1, <2>2
<1> QED
    BY <1>6, <1>7 DEF StaysAnyway

LEMMA DelsubStays ==
    ASSUME NEW c \in Clients, NEW q, Fits(q), q.op = "delsub", NEW todo \in Seq(Tasks), todo # <<>>, NEW main, NEW skipped,
           NEW b, NEW s \in [Keys -> Elements], AlongDelsub(c, q, todo, skipped, s)
    PROVE  StaysAnyway(c, q, todo, main, skipped, b, s)
<1>1. PICK t, u, h : /\ t = Task(DelSubkeySteps[1], q.sub, Nothing) /\ u = Task(DelSubkeySteps[2], q.key, Name(q.sub))
                     /\ h = Placeholder(q.sub)
    OBVIOUS
<1>2. /\ Of(t, "DEL", "ignore", "ignore", FALSE, q.sub, Nothing)
      /\ Of(u, "DEL_SUBKEYS", "stop", "stop", FALSE, q.key, Name(q.sub))
      /\ Of(h, "SET", "ignore", "ignore", FALSE, q.sub, Nothing)
      /\ q.key \in Keys /\ q.sub \in Keys
    BY <1>1, StepValues, TaskParts, PlaceholderIs DEF Fits
<1>3. DelSubkeyTasks(c, q) = <<t, u>> /\ Tail(DelSubkeyTasks(c, q)) = <<u>>
    BY <1>1, TwoTasks DEF DelSubkeyTasks
<1> DEFINE Gone == skipped \/ s[q.sub].val = None
<1>4. \/ Head(todo) = t /\ Tail(todo) = <<u>>
      \/ Head(todo) = h /\ Tail(todo) = <<u>> /\ Gone
      \/ Head(todo) = u /\ Tail(todo) = <<>> /\ Gone
    <2>1. todo = <<t, u>> \/ (todo = <<u>> /\ Gone) \/ (todo = <<h>> \o <<u>> /\ Gone)
        BY <1>1, <1>3 DEF AlongDelsub
    <2> HIDE DEF Gone
    <2>2. PICK r : r = <<u>>
        OBVIOUS
    <2>3. h \in Tasks /\ r \in Seq(Tasks)
        <3>1. u \in Tasks
            BY <1>1, <1>2, StepsAre, TaskWith DEF IsTask
        <3>2. h \in Tasks
            BY <1>1, <1>2, PlaceholderIs
        <3> QED
            BY <2>2, <3>1, <3>2
    <2>4. todo = <<h>> \o r => Head(todo) = h /\ Tail(todo) = r
        BY <2>3, TaskBefore
    <2> QED
        BY <2>1, <2>2, <2>4, OneTask, TwoTasks
<1>5. CASE Head(todo) = t /\ Tail(todo) = <<u>>
    <2>1. t \in Tasks /\ t.arg.subs = {}
        BY <1>2, <1>5, ValueIs DEF Of
    <2>2. ASSUME NEW failed \in BOOLEAN, NEW l, NEW safe
          PROVE  Remaining(todo, failed, l, safe) = <<u>> \/ Remaining(todo, failed, l, safe) = <<h>> \o <<u>>
        <3>1. CASE failed
            BY <1>2, <1>5, <3>1, NextIsTail DEF Of
        <3>2. CASE ~failed
            <4>1. Following(t, failed, l, safe) = DeletedThen(t, safe)
                BY <1>2, <3>2 DEF Following, Of
            <4>2. DeletedThen(t, safe) = IF safe THEN <<>> ELSE <<h>>
                BY <1>1, <1>2, <2>1, DeletionSweeps DEF Of
            <4>3. <<>> \o <<u>> = <<u>>
                OBVIOUS
            <4> QED
                BY <1>5, <4>1, <4>2, <4>3 DEF Remaining
        <3> QED
            BY <3>1, <3>2
    <2>3. ASSUME NEW failed \in BOOLEAN PROVE Stays(c, q, todo, main, skipped, b, failed, FALSE, {}, s)
        <3>1. Skips(todo, skipped, FALSE)
            BY <1>2, <1>5 DEF Skips, Of
        <3> QED
            BY <1>1, <1>3, <2>2, <3>1 DEF Stays, Along, AlongDelsub
    <2>4. ASSUME NEW l \in SUBSET Keys, NEW s2 \in [Keys -> Elements], Makes(Head(todo), s, s2, l)
          PROVE  Stays(c, q, todo, main, skipped, b, FALSE, TRUE, l, s2)
        <3>1. s2[q.sub].val = None
            BY <1>2, <1>5, <2>4 DEF Makes, Of, Absent
        <3> QED
            BY <1>1, <1>3, <2>2, <3>1 DEF Stays, Along, AlongDelsub
    <2> QED
        BY <2>3, <2>4 DEF StaysAnyway
<1>6. CASE Head(todo) = h /\ Tail(todo) = <<u>> /\ Gone
    <2>1. \A failed \in BOOLEAN : \A l, safe : Remaining(todo, failed, l, safe) = <<u>>
        BY <1>2, <1>6, NextIsTail DEF Of
    <2>2. ASSUME NEW failed \in BOOLEAN PROVE Stays(c, q, todo, main, skipped, b, failed, FALSE, {}, s)
        <3>1. Skips(todo, skipped, FALSE)
            BY <1>2, <1>6 DEF Skips, Of
        <3> QED
            BY <1>3, <2>1, <3>1 DEF Stays, Along, AlongDelsub
    <2>3. ASSUME NEW l \in SUBSET Keys, NEW s2 \in [Keys -> Elements], Makes(Head(todo), s, s2, l)
          PROVE  Stays(c, q, todo, main, skipped, b, FALSE, TRUE, l, s2)
        <3>1. s2[q.sub].val = None
            BY <1>2, <1>6, <2>3, ValueIs DEF Makes, Of
        <3> QED
            BY <1>3, <2>1, <3>1 DEF Stays, Along, AlongDelsub
    <2> QED
        BY <2>2, <2>3 DEF StaysAnyway
<1>7. CASE Head(todo) = u /\ Tail(todo) = <<>> /\ Gone
    <2>1. \A failed \in BOOLEAN : \A l, safe : Remaining(todo, failed, l, safe) = <<>>
        BY <1>2, <1>7, NextIsTail DEF Of
    <2>2. ASSUME NEW failed \in BOOLEAN PROVE Stays(c, q, todo, main, skipped, b, failed, FALSE, {}, s)
        BY <1>2, <1>7 DEF Stays, Stops, Of
    <2>3. ASSUME NEW l \in SUBSET Keys, NEW s2 \in [Keys -> Elements], Makes(Head(todo), s, s2, l)
          PROVE  Stays(c, q, todo, main, skipped, b, FALSE, TRUE, l, s2)
        <3>1. q.sub \notin s2[q.key].subs /\ s2[q.sub].val = s[q.sub].val
            BY <1>2, <1>7, <2>3, ValueIs DEF Makes, Of
        <3>2. Skips(todo, skipped, TRUE) \/ s2[q.sub].val = None
            BY <1>7, <3>1 DEF Skips
        <3> QED
            BY <2>1, <3>1, <3>2 DEF Stays, Along, AlongDelsub
    <2> QED
        BY <2>2, <2>3 DEF StaysAnyway
<1> QED
    BY <1>4, <1>5, <1>6, <1>7

LEMMA RenStays ==
    ASSUME NEW c \in Clients, NEW q, Fits(q), q.op = "ren", NEW todo \in Seq(Tasks), todo # <<>>, NEW main, NEW skipped,
           NEW b, NEW s \in [Keys -> Elements], AlongRen(c, q, todo, b, s)
    PROVE  StaysAnyway(c, q, todo, main, skipped, b, s)
<1>1. PICK t, u, v : /\ t = Task(RenSteps(TRUE)[1], q.key, Name(q.sub))
                     /\ u = Task(RenSteps(TRUE)[2], q.parent, Name(q.key))
                     /\ v = Task(RenSteps(TRUE)[3], q.parent, Name(q.sub))
    OBVIOUS
<1>2. /\ Of(t, "REN", "stop", "stop", TRUE, q.key, Name(q.sub))
      /\ Of(u, "DEL_SUBKEYS", "stop", "stop", FALSE, q.parent, Name(q.key))
      /\ Of(v, "ADD_SUBKEYS", "stop", "stop", FALSE, q.parent, Name(q.sub))
      /\ q.key \in Keys /\ q.sub \in Keys /\ q.parent \in Keys
    BY <1>1, StepValues, TaskParts DEF Fits
<1>3. RenTasks(c, q) = <<t, u, v>> /\ Tail(RenTasks(c, q)) = <<u, v>> /\ Tail(Tail(RenTasks(c, q))) = <<v>>
    <2>1. RenTasks(c, q) = <<t, u, v>>
        BY <1>1 DEF RenTasks
    <2>2. Tail(RenTasks(c, q)) = <<u, v>>
        BY <2>1, ThreeTasks
    <2> QED
        BY <2>1, <2>2, TwoTasks
<1>4. \/ Head(todo) = t
      \/ Head(todo) = u /\ Tail(todo) = <<v>> /\ Renamed(q, b, s)
      \/ Head(todo) = v /\ Tail(todo) = <<>> /\ Renamed(q, b, s) /\ Unlisted(q, s)
    <2>1. todo = <<t, u, v>> \/ (todo = <<u, v>> /\ Renamed(q, b, s)) \/ (todo = <<v>> /\ Renamed(q, b, s) /\ Unlisted(q, s))
        BY <1>3 DEF AlongRen
    <2> QED
        BY <2>1, OneTask, TwoTasks, ThreeTasks
<1>5. ASSUME NEW failed \in BOOLEAN PROVE Stays(c, q, todo, main, skipped, b, failed, FALSE, {}, s)
    BY <1>2, <1>4 DEF Stays, Stops, Of
<1>6. ASSUME NEW l \in SUBSET Keys, NEW s2 \in [Keys -> Elements], Makes(Head(todo), s, s2, l), Head(todo).step.com # "REN"
      PROVE  Stays(c, q, todo, main, skipped, b, FALSE, TRUE, l, s2)
    <2>1. CASE Head(todo) = u /\ Tail(todo) = <<v>> /\ Renamed(q, b, s)
        <3>1. \A safe : Remaining(todo, FALSE, l, safe) = <<v>>
            BY <1>2, <2>1, NextIsTail DEF Of
        <3>2. /\ s2[q.sub].val = s[q.sub].val /\ s2[q.key].val = s[q.key].val
              /\ q.key \notin s2[q.parent].subs
            BY <1>2, <1>6, <2>1, ValueIs DEF Makes, Of
        <3>3. Renamed(q, b, s2) /\ Unlisted(q, s2)
            BY <2>1, <3>2 DEF Renamed, Unlisted
        <3> QED
            BY <1>3, <3>1, <3>3 DEF Stays, Along, AlongRen
    <2>2. CASE Head(todo) = v /\ Tail(todo) = <<>> /\ Renamed(q, b, s) /\ Unlisted(q, s)
        <3>1. \A safe : Remaining(todo, FALSE, l, safe) = <<>>
            BY <1>2, <2>2, NextIsTail DEF Of
        <3>2. /\ s2[q.sub].val = s[q.sub].val /\ s2[q.key].val = s[q.key].val
              /\ s2[q.parent].subs = s[q.parent].subs \cup {q.sub}
            BY <1>2, <1>6, <2>2, ValueIs DEF Makes, Of
        <3>3. Renamed(q, b, s2) /\ Unlisted(q, s2) /\ q.sub \in s2[q.parent].subs
            BY <2>2, <3>2 DEF Renamed, Unlisted
        <3> QED
            BY <3>1, <3>3 DEF Stays, Along, AlongRen
    <2> QED
        BY <1>2, <1>4, <1>6, <2>1, <2>2 DEF Of
<1> QED
    BY <1>5, <1>6 DEF StaysAnyway

\* The first request makes way for others.
LEMMA SweepsOn ==
    ASSUME NEW todo \in Seq(Tasks), todo # <<>>, Sweeping(todo), NEW f \in Seq(Tasks), Sweeping(f), NEW u, u = f \o Tail(todo)
    PROVE  /\ u \in Seq(Tasks) /\ Sweeping(u)
           /\ \A k : Pending(f, k) => Pending(u, k)
           /\ \A k : Pending(todo, k) => Deletes(Head(todo), k) \/ Pending(u, k)
<1>1. PICK r \in Seq(Tasks) : r = Tail(todo)
    <2>1. Tail(todo) \in Seq(Tasks)
        OBVIOUS
    <2> QED
        BY <2>1
<1>2. PICK n \in Nat : n = Len(todo)
    OBVIOUS
<1>3. PICK m \in Nat : m = Len(f)
    OBVIOUS
<1>4. n > 0 /\ Head(todo) = todo[1] /\ Len(r) = n - 1 /\ \A i \in 1 .. n - 1 : r[i] = todo[i + 1]
    BY <1>1, <1>2
<1>5. PICK j \in Nat : j = Len(r)
    OBVIOUS
<1>6. u \in Seq(Tasks) /\ Len(u) = m + j /\ \A i \in 1 .. m + j : u[i] = IF i <= m THEN f[i] ELSE r[i - m]
    BY <1>1, <1>3, <1>5, ConcatProperties
<1>7. j = n - 1
    BY <1>4, <1>5
<1>8. \A i \in 1 .. m : i \in 1 .. Len(u) /\ u[i] = f[i]
    BY <1>6
<1>9. \A i \in 2 .. n : m + i - 1 \in 1 .. Len(u) /\ u[m + i - 1] = todo[i]
    <2>1. ASSUME NEW i \in 2 .. n PROVE m + i - 1 \in 1 .. Len(u) /\ u[m + i - 1] = todo[i]
        <3>1. PICK h \in 1 .. m + j : h = m + i - 1
            BY <1>7
        <3>2. ~(h <= m) /\ h - m = i - 1 /\ i - 1 \in 1 .. n - 1
            BY <3>1
        <3>3. u[h] = r[i - 1]
            BY <1>6, <3>2
        <3> QED
            BY <1>4, <1>6, <3>1, <3>2, <3>3
    <2> QED
        BY <2>1
<1>10. Sweeping(u)
    <2>1. ASSUME NEW i \in 1 .. Len(u) PROVE Sweeps(u[i])
        <3>1. CASE i <= m
            BY <1>3, <1>8, <3>1 DEF Sweeping
        <3>2. CASE i > m
            <4>1. PICK h \in 2 .. n : i = m + h - 1
                <5>1. i - m + 1 \in 2 .. n /\ i = m + (i - m + 1) - 1
                    BY <1>6, <1>7, <3>2
                <5> QED
                    BY <5>1
            <4>2. u[i] = todo[h] /\ h \in 1 .. Len(todo)
                BY <1>2, <1>9, <4>1
            <4> QED
                BY <4>2 DEF Sweeping
        <3> QED
            BY <3>1, <3>2
    <2> QED
        BY <2>1 DEF Sweeping
<1>11. ASSUME NEW k, Pending(f, k) PROVE Pending(u, k)
    BY <1>3, <1>8, <1>11 DEF Pending
<1>12. ASSUME NEW k, Pending(todo, k), ~Deletes(Head(todo), k) PROVE Pending(u, k)
    <2>1. PICK i \in 1 .. n : Deletes(todo[i], k)
        BY <1>2, <1>12 DEF Pending
    <2>2. i \in 2 .. n
        BY <1>4, <1>12, <2>1
    <2> QED
        BY <1>9, <2>1, <2>2 DEF Pending
<1> QED
    BY <1>6, <1>10, <1>11, <1>12

LEMMA DelStays ==
    ASSUME NEW c \in Clients, NEW q, Fits(q), q.op = "del", NEW todo \in Seq(Tasks), todo # <<>>, NEW main, NEW skipped,
           NEW b \in [Keys -> Elements], NEW s \in [Keys -> Elements], AlongDel(q, todo, main, skipped, b, s)
    PROVE  StaysAnyway(c, q, todo, main, skipped, b, s)
<1> DEFINE t == Head(todo)
<1>0. /\ q.key \in Keys /\ b[q.key].subs \in SUBSET Keys /\ {} \in SUBSET Keys
      /\ t \in Tasks /\ t.to \in Keys /\ Tail(todo) \in Seq(Tasks) /\ FALSE \in BOOLEAN /\ TRUE \in BOOLEAN
    BY DEF Fits, Elements, Tasks
<1>1. ASSUME todo = <<ReadList(q.key, FALSE)>>, s[q.key].subs = b[q.key].subs
      PROVE  StaysAnyway(c, q, todo, main, skipped, b, s)
    <2>1. t = ReadList(q.key, FALSE) /\ Tail(todo) = <<>>
        BY <1>1, OneTask
    <2>2. /\ Of(t, "GET_SUBKEYS", "ignore", "ignore", FALSE, q.key, [Nothing EXCEPT !.nested = FALSE])
          /\ t.arg.nested = FALSE
        BY <1>0, <2>1, ReadListIs
    <2>3. ASSUME NEW failed \in BOOLEAN, NEW l \in SUBSET Keys, NEW safe
          PROVE  Remaining(todo, failed, l, safe) = <<DeleteKey(q.key, FALSE, l)>>
        <3>1. PICK d : d = DeleteKey(q.key, FALSE, l)
            OBVIOUS
        <3>2. Following(t, failed, l, safe) = <<d>>
            BY <2>2, <3>1 DEF Following, Of
        <3>3. <<d>> \o <<>> = <<d>>
            OBVIOUS
        <3> QED
            BY <2>1, <3>1, <3>2, <3>3 DEF Remaining
    <2>4. ASSUME NEW failed \in BOOLEAN PROVE Stays(c, q, todo, main, skipped, b, failed, FALSE, {}, s)
        <3>1. Skips(todo, skipped, FALSE)
            BY <2>2 DEF Skips, Of
        <3>2. \A safe : Remaining(todo, failed, {}, safe) = <<DeleteKey(q.key, FALSE, {})>>
            BY <1>0, <2>3
        <3>3. \A m : AlongDel(q, <<DeleteKey(q.key, FALSE, {})>>, m, Skips(todo, skipped, FALSE), b, s)
            BY <1>0, <3>1 DEF AlongDel
        <3> QED
            BY <3>2, <3>3 DEF Stays, Along
    <2>5. ASSUME NEW l \in SUBSET Keys, NEW s2 \in [Keys -> Elements], Makes(t, s, s2, l)
          PROVE  Stays(c, q, todo, main, skipped, b, FALSE, TRUE, l, s2)
        <3>1. l = b[q.key].subs
            BY <1>1, <2>2, <2>5 DEF Makes, Of
        <3>2. \A safe : Remaining(todo, FALSE, l, safe) = <<DeleteKey(q.key, FALSE, l)>>
            BY <1>0, <2>3
        <3>3. \A m, k : AlongDel(q, <<DeleteKey(q.key, FALSE, l)>>, m, k, b, s2)
            BY <1>0, <3>1 DEF AlongDel
        <3> QED
            BY <3>2, <3>3 DEF Stays, Along
    <2> QED
        BY <2>4, <2>5 DEF StaysAnyway
<1>2. ASSUME NEW l0 \in SUBSET Keys, todo = <<DeleteKey(q.key, FALSE, l0)>>, skipped \/ l0 = b[q.key].subs
      PROVE  StaysAnyway(c, q, todo, main, skipped, b, s)
    <2>1. t = DeleteKey(q.key, FALSE, l0) /\ Tail(todo) = <<>>
        BY <1>2, OneTask
    <2>2. /\ Of(t, "DEL", "stop", "ignore", TRUE, q.key, [Nothing EXCEPT !.subs = l0])
          /\ t.arg.subs = l0
        <3>1. PICK k \in Keys : k = q.key
            BY <1>0
        <3>2. /\ Of(DeleteKey(k, FALSE, l0), "DEL", "stop", "ignore", TRUE, k, [Nothing EXCEPT !.subs = l0])
              /\ DeleteKey(k, FALSE, l0).arg.subs = l0
            BY DeleteKeyIs
        <3> QED
            BY <2>1, <3>1, <3>2
    <2>3. ASSUME NEW l, NEW safe PROVE Remaining(todo, FALSE, l, safe) = DeletedThen(t, safe)
        <3>1. PICK d \in Seq(Tasks) : d = DeletedThen(t, safe)
            BY <1>0, DeletionSweeps
        <3>2. Following(t, FALSE, l, safe) = d
            BY <2>2, <3>1 DEF Following, Of
        <3>3. d \o <<>> = d
            OBVIOUS
        <3> QED
            BY <2>1, <3>1, <3>2, <3>3 DEF Remaining
    <2>4. ASSUME NEW failed \in BOOLEAN PROVE Stays(c, q, todo, main, skipped, b, failed, FALSE, {}, s)
        <3>1. CASE failed
            BY <2>2, <3>1 DEF Stays, Stops, Of
        <3>2. CASE ~failed
            <4>1. \A safe : Remaining(todo, failed, {}, safe) = DeletedThen(t, safe)
                BY <2>3, <3>2
            <4>2. Mains(todo, main, FALSE) = FALSE
                BY <2>2 DEF Mains, Of
            <4>3. \A safe, k : AlongDel(q, DeletedThen(t, safe), FALSE, k, b, s)
                BY <1>0, DeletionSweeps DEF AlongDel
            <4> QED
                BY <4>1, <4>2, <4>3 DEF Stays, Along
        <3> QED
            BY <3>1, <3>2
    <2>5. ASSUME NEW l \in SUBSET Keys, NEW s2 \in [Keys -> Elements], Makes(t, s, s2, l)
          PROVE  Stays(c, q, todo, main, skipped, b, FALSE, TRUE, l, s2)
        <3>1. s2[q.key] = Absent
            BY <2>2, <2>5 DEF Makes, Of
        <3>2. ASSUME NEW safe, NEW m
              PROVE  AlongDel(q, DeletedThen(t, safe), m, Skips(todo, skipped, TRUE), b, s2)
            <4>1. Sweeping(DeletedThen(t, safe)) /\ \A k \in l0 : Pending(DeletedThen(t, safe), k)
                BY <1>0, <2>2, DeletionSweeps
            <4>2. Skips(todo, skipped, TRUE) \/ Swept(DeletedThen(t, safe), b[q.key].subs, s2)
                BY <1>2, <4>1 DEF Skips, Swept
            <4> QED
                BY <3>1, <4>1, <4>2 DEF AlongDel
        <3> QED
            BY <2>3, <3>2 DEF Stays, Along
    <2> QED
        BY <2>4, <2>5 DEF StaysAnyway
<1>3. ASSUME Sweeping(todo), main => s[q.key] = Absent /\ (skipped \/ Swept(todo, b[q.key].subs, s))
      PROVE  StaysAnyway(c, q, todo, main, skipped, b, s)
    <2>1. Sweeps(t)
        <3>1. t = todo[1] /\ 1 \in 1 .. Len(todo)
            OBVIOUS
        <3> QED
            BY <1>3, <3>1 DEF Sweeping
    <2>2. ASSUME NEW failed \in BOOLEAN, NEW l \in SUBSET Keys, NEW safe
          PROVE  /\ Sweeping(Remaining(todo, failed, l, safe))
                 /\ \A k : Pending(todo, k) =>
                       \/ t.step.com = "DEL" /\ k = t.to
                       \/ Pending(Remaining(todo, failed, l, safe), k)
        <3>1. PICK f : f = Following(t, failed, l, safe)
            OBVIOUS
        <3>2. f \in Seq(Tasks)
            BY <1>0, <3>1, FollowingTasks DEF Adds
        <3>3. Sweeping(f) /\ (t.step.com = "GET_SUBKEYS" => Pending(f, t.to))
            <4>1. CASE t.step.com = "GET_SUBKEYS"
                <5>1. PICK d : d = DeleteKey(t.to, TRUE, l)
                    OBVIOUS
                <5>2. t.arg.nested \in BOOLEAN /\ t.arg.nested
                    BY <1>0, <2>1, <4>1 DEF Sweeps, Tasks, Args
                <5>3. f = <<d>>
                    BY <3>1, <4>1, <5>1, <5>2 DEF Following
                <5>4. Sweeps(d) /\ Deletes(d, t.to)
                    <6>1. Of(d, "DEL", "ignore", "ignore", FALSE, t.to, [Nothing EXCEPT !.subs = l])
                        <7>1. PICK k \in Keys : k = t.to
                            BY <1>0
                        <7>2. Of(DeleteKey(k, TRUE, l), "DEL", "ignore", "ignore", FALSE, k, [Nothing EXCEPT !.subs = l])
                            BY DeleteKeyIs
                        <7> QED
                            BY <5>1, <7>1, <7>2
                    <6> QED
                        BY <6>1 DEF Sweeps, Deletes, Of
                <5> QED
                    BY <5>3, <5>4 DEF Sweeping, Pending
            <4>2. CASE t.step.com = "DEL" /\ ~failed
                <5>1. f = DeletedThen(t, safe)
                    BY <3>1, <4>2 DEF Following
                <5> QED
                    BY <1>0, <4>2, <5>1, DeletionSweeps
            <4>3. CASE t.step.com # "GET_SUBKEYS" /\ ~(t.step.com = "DEL" /\ ~failed)
                <5>1. f = <<>>
                    BY <3>1, <4>3, NothingFollows
                <5> QED
                    BY <4>3, <5>1 DEF Sweeping
            <4> QED
                BY <4>1, <4>2, <4>3
        <3>4. PICK u : u = f \o Tail(todo)
            OBVIOUS
        <3>5. u = Remaining(todo, failed, l, safe)
            BY <3>1, <3>4 DEF Remaining
        <3>6. /\ Sweeping(u) /\ \A k : Pending(f, k) => Pending(u, k)
              /\ \A k : Pending(todo, k) => Deletes(t, k) \/ Pending(u, k)
            BY <1>3, <3>2, <3>3, <3>4, SweepsOn
        <3> QED
            BY <3>3, <3>5, <3>6 DEF Deletes
    <2>3. ASSUME NEW failed \in BOOLEAN PROVE Stays(c, q, todo, main, skipped, b, failed, FALSE, {}, s)
        <3>1. Skips(todo, skipped, FALSE) /\ Mains(todo, main, FALSE) = main
            BY <2>1 DEF Skips, Mains, Sweeps
        <3>2. \A safe : AlongDel(q, Remaining(todo, failed, {}, safe), main, Skips(todo, skipped, FALSE), b, s)
            BY <1>0, <1>3, <2>2, <3>1 DEF AlongDel
        <3> QED
            BY <3>1, <3>2 DEF Stays, Along
    <2>4. ASSUME NEW l \in SUBSET Keys, NEW s2 \in [Keys -> Elements], Makes(t, s, s2, l)
          PROVE  Stays(c, q, todo, main, skipped, b, FALSE, TRUE, l, s2)
        <3>1. Mains(todo, main, TRUE) = main
            BY <2>1 DEF Mains, Sweeps
        <3>2. /\ \A k \in Keys : s[k].val = None => s2[k].val = None
              /\ t.step.com = "DEL" => s2[t.to].val = None
            BY <1>0, <2>1, <2>4 DEF Sweeps, Makes, Absent
        <3>3. s[q.key] = Absent => s2[q.key] = Absent
            BY <1>0, <2>1, <2>4 DEF Sweeps, Makes, Absent
        <3>4. ASSUME NEW safe, Swept(todo, b[q.key].subs, s)
              PROVE  Swept(Remaining(todo, FALSE, l, safe), b[q.key].subs, s2)
            <4>1. ASSUME NEW k \in b[q.key].subs
                  PROVE  s2[k].val = None \/ Pending(Remaining(todo, FALSE, l, safe), k)
                <5>1. k \in Keys /\ (s[k].val = None \/ Pending(todo, k))
                    BY <1>0, <3>4, <4>1 DEF Swept
                <5> QED
                    BY <1>0, <2>2, <3>2, <5>1
            <4> QED
                BY <4>1 DEF Swept
        <3>5. Skips(todo, skipped, TRUE) \/ ~skipped
            BY DEF Skips
        <3>6. \A safe : AlongDel(q, Remaining(todo, FALSE, l, safe), main, Skips(todo, skipped, TRUE), b, s2)
            BY <1>0, <1>3, <2>2, <3>3, <3>4, <3>5 DEF AlongDel
        <3> QED
            BY <3>1, <3>6 DEF Stays, Along
    <2> QED
        BY <2>3, <2>4 DEF StaysAnyway
<1> QED
    BY <1>1, <1>2, <1>3 DEF AlongDel

LEMMA OnTrackStays ==
    ASSUME NEW c \in Clients, NEW q, Fits(q), NEW todo \in Seq(Tasks), todo # <<>>, NEW main, NEW skipped,
           NEW b \in [Keys -> Elements], NEW s \in [Keys -> Elements], Along(c, q, todo, main, skipped, b, s)
    PROVE  StaysAnyway(c, q, todo, main, skipped, b, s)
<1>1. CASE q.op = "set" /\ AlongSet(c, q, todo, main, s)
    BY <1>1, SetStays
<1>2. CASE q.op = "addsub" /\ AlongAdd(c, q, todo, s)
    BY <1>2, AddStays
<1>3. CASE q.op = "delsub" /\ AlongDelsub(c, q, todo, skipped, s)
    BY <1>3, DelsubStays
<1>4. CASE q.op = "ren" /\ AlongRen(c, q, todo, b, s)
    BY <1>4, RenStays
<1>5. CASE q.op = "del" /\ AlongDel(q, todo, main, skipped, b, s)
    BY <1>5, DelStays
<1> QED
    BY <1>1, <1>2, <1>3, <1>4, <1>5 DEF Along

\* Every call is as planned when it begins.
LEMMA BeginsOnTrack ==
    ASSUME NEW c \in Clients, NEW q, Fits(q), NEW main, NEW skipped, NEW s
    PROVE  Along(c, q, TasksOf(c, q), main, skipped, s, s)
<1>1. CASE q.op = "set"
    BY <1>1 DEF Along, AlongSet, TasksOf
<1>2. CASE q.op = "addsub"
    BY <1>2 DEF Along, AlongAdd, TasksOf
<1>3. CASE q.op = "delsub"
    BY <1>3 DEF Along, AlongDelsub, TasksOf
<1>4. CASE q.op = "ren"
    BY <1>4 DEF Along, AlongRen, TasksOf
<1>5. CASE q.op = "del"
    BY <1>5 DEF Along, AlongDel, TasksOf, DelTasks
<1> QED
    BY <1>1, <1>2, <1>3, <1>4, <1>5 DEF Fits

\* A call that has come to its end as planned is complete.
LEMMA EndIsComplete ==
    ASSUME NEW c \in Clients, NEW d, Fits(d.call), d.todo = <<>>, d.main, OnTrack(c, d, store)
    PROVE  Complete(c, d)
<1>1. \A x, y : <<x>> # <<>> /\ <<x, y>> # <<>>
    OBVIOUS
<1>2. PICK q : q = d.call
    OBVIOUS
<1>3. CASE q.op = "set"
    <2>1. SetTasks(c, q) # <<>>
        BY DEF SetTasks
    <2>2. AlongSet(c, q, d.todo, d.main, store)
        BY <1>2, <1>3 DEF OnTrack, Along
    <2> QED
        BY <1>2, <1>3, <2>1, <2>2 DEF AlongSet, Complete
<1>4. CASE q.op = "addsub"
    <2>1. AddSubkeyTasks(c, q) # <<>> /\ Tail(AddSubkeyTasks(c, q)) # <<>>
        BY DEF AddSubkeyTasks
    <2>2. AlongAdd(c, q, d.todo, store)
        BY <1>2, <1>4 DEF OnTrack, Along
    <2> QED
        BY <1>2, <1>4, <2>1, <2>2 DEF AlongAdd, Complete
<1>5. CASE q.op = "delsub"
    <2>1. /\ DelSubkeyTasks(c, q) # <<>> /\ Tail(DelSubkeyTasks(c, q)) # <<>>
          /\ <<Placeholder(q.sub)>> \o Tail(DelSubkeyTasks(c, q)) # <<>>
        <3>1. PICK h, u : h = Placeholder(q.sub) /\ u = Task(DelSubkeySteps[2], q.key, Name(q.sub))
            OBVIOUS
        <3>2. Tail(DelSubkeyTasks(c, q)) = <<u>> /\ DelSubkeyTasks(c, q) # <<>>
            BY <3>1, TwoTasks DEF DelSubkeyTasks
        <3>3. h \in Tasks /\ u \in Tasks
            <4>1. q.key \in Keys /\ q.sub \in Keys
                BY <1>2, <1>5 DEF Fits
            <4>2. h \in Tasks
                BY <3>1, <4>1, PlaceholderIs
            <4> QED
                BY <3>1, <4>1, <4>2, StepsAre, TaskWith DEF IsTask
        <3>4. <<h>> \o <<u>> # <<>>
            BY <3>3
        <3> QED
            BY <1>1, <3>1, <3>2, <3>4
    <2>2. AlongDelsub(c, q, d.todo, d.skipped, store)
        BY <1>2, <1>5 DEF OnTrack, Along
    <2> QED
        BY <1>2, <1>5, <2>1, <2>2 DEF AlongDelsub, Complete
<1>6. CASE q.op = "ren"
    <2>1. RenTasks(c, q) # <<>> /\ Tail(RenTasks(c, q)) # <<>> /\ Tail(Tail(RenTasks(c, q))) # <<>>
        BY DEF RenTasks
    <2>2. AlongRen(c, q, d.todo, d.before, store)
        BY <1>2, <1>6 DEF OnTrack, Along
    <2>3. Renamed(q, d.before, store) /\ Unlisted(q, store) /\ q.sub \in store[q.parent].subs
        BY <2>1, <2>2 DEF AlongRen
    <2> QED
        BY <1>2, <1>6, <2>3 DEF Renamed, Unlisted, Complete
<1>7. CASE q.op = "del"
    <2>1. AlongDel(q, d.todo, d.main, d.skipped, d.before, store)
        BY <1>2, <1>7 DEF OnTrack, Along
    <2>2. store[q.key] = Absent /\ (d.skipped \/ Swept(d.todo, d.before[q.key].subs, store))
        BY <1>1, <2>1 DEF AlongDel
    <2>3. \A k : ~Pending(d.todo, k)
        BY DEF Pending
    <2> QED
        BY <1>2, <1>7, <2>2, <2>3 DEF Swept, Complete
<1> QED
    BY <1>2, <1>3, <1>4, <1>5, <1>6, <1>7 DEF Fits

\* Only a call that renames a key sends REN, as its first request; and no call
\* goes on when a list could not be changed.
FirstIs(c, q, todo, b, s) ==
    /\ Head(todo).step.com = "REN" => q.op = "ren" /\ todo = RenTasks(c, q) /\ s[q.key].val = b[q.key].val
    /\ Head(todo).step.com = "DEL_SUBKEYS" => Stops(Head(todo), FALSE, FALSE)

LEMMA FirstRequest ==
    ASSUME NEW c \in Clients, NEW q, Fits(q), NEW todo \in Seq(Tasks), todo # <<>>, NEW main, NEW skipped,
           NEW b, NEW s, Along(c, q, todo, main, skipped, b, s)
    PROVE  FirstIs(c, q, todo, b, s)
<1>1. CASE q.op = "set" /\ AlongSet(c, q, todo, main, s)
    <2>1. PICK t : t = Task(One("SET")[1], q.key, Value(c))
        OBVIOUS
    <2>2. Of(t, "SET", "stop", "ignore", TRUE, q.key, Value(c))
        BY <2>1, StepValues, TaskParts
    <2>3. todo = <<t>>
        BY <1>1, <2>1 DEF AlongSet, SetTasks
    <2>4. Head(todo) = t
        BY <2>3, OneTask
    <2> QED
        BY <2>2, <2>4 DEF FirstIs, Of
<1>2. CASE q.op = "addsub" /\ AlongAdd(c, q, todo, s)
    <2>1. PICK t, u : t = Task(AddSubkeySteps[1], q.sub, Value(c)) /\ u = Task(AddSubkeySteps[2], q.key, Name(q.sub))
        OBVIOUS
    <2>2. Of(t, "SET", "stop", "stop", FALSE, q.sub, Value(c)) /\ Of(u, "ADD_SUBKEYS", "stop", "stop", FALSE, q.key, Name(q.sub))
        BY <2>1, StepValues, TaskParts
    <2>3. PICK p : p = AddSubkeyTasks(c, q)
        OBVIOUS
    <2>4. p = <<t, u>>
        BY <2>1, <2>3 DEF AddSubkeyTasks
    <2>5. Head(p) = t /\ Tail(p) = <<u>>
        BY <2>4, TwoTasks
    <2>6. Head(Tail(p)) = u
        BY <2>5, OneTask
    <2>7. Head(todo) = t \/ Head(todo) = u
        BY <1>2, <2>3, <2>5, <2>6 DEF AlongAdd
    <2> QED
        BY <2>2, <2>7 DEF FirstIs, Of
<1>3. CASE q.op = "delsub" /\ AlongDelsub(c, q, todo, skipped, s)
    <2>1. PICK t, u, h : /\ t = Task(DelSubkeySteps[1], q.sub, Nothing) /\ u = Task(DelSubkeySteps[2], q.key, Name(q.sub))
                         /\ h = Placeholder(q.sub)
        OBVIOUS
    <2>2. q.key \in Keys /\ q.sub \in Keys
        BY <1>3 DEF Fits
    <2>3. /\ Of(t, "DEL", "ignore", "ignore", FALSE, q.sub, Nothing)
          /\ Of(u, "DEL_SUBKEYS", "stop", "stop", FALSE, q.key, Name(q.sub))
          /\ Of(h, "SET", "ignore", "ignore", FALSE, q.sub, Nothing)
        BY <2>1, <2>2, StepValues, TaskParts, PlaceholderIs
    <2>4. PICK p, r : p = DelSubkeyTasks(c, q) /\ r = <<u>>
        OBVIOUS
    <2>5. p = <<t, u>>
        BY <2>1, <2>4 DEF DelSubkeyTasks
    <2>6. Head(p) = t /\ Tail(p) = r /\ Head(r) = u
        BY <2>4, <2>5, OneTask, TwoTasks
    <2>7. h \in Tasks /\ r \in Seq(Tasks)
        <3>1. h \in Tasks
            BY <2>1, <2>2, PlaceholderIs
        <3>2. u \in Tasks
            BY <2>1, <2>2, StepsAre, TaskWith DEF IsTask
        <3> QED
            BY <2>4, <3>1, <3>2
    <2>8. Head(<<h>> \o r) = h
        BY <2>7, TaskBefore
    <2>9. Head(todo) = t \/ Head(todo) = u \/ Head(todo) = h
        BY <1>3, <2>1, <2>4, <2>6, <2>8 DEF AlongDelsub
    <2> QED
        BY <2>3, <2>9 DEF FirstIs, Of, Stops
<1>4. CASE q.op = "del" /\ AlongDel(q, todo, main, skipped, b, s)
    <2>1. q.key \in Keys /\ FALSE \in BOOLEAN
        BY DEF Fits
    <2>2. Head(<<ReadList(q.key, FALSE)>>).step.com = "GET_SUBKEYS"
        <3>1. PICK d : d = ReadList(q.key, FALSE)
            OBVIOUS
        <3>2. Of(d, "GET_SUBKEYS", "ignore", "ignore", FALSE, q.key, [Nothing EXCEPT !.nested = FALSE])
            BY <2>1, <3>1, ReadListIs
        <3>3. Head(<<d>>) = d
            BY OneTask
        <3> QED
            BY <3>1, <3>2, <3>3 DEF Of
    <2>3. ASSUME NEW l \in SUBSET Keys PROVE Head(<<DeleteKey(q.key, FALSE, l)>>).step.com = "DEL"
        <3>1. PICK k \in Keys : k = q.key
            BY <2>1
        <3>2. Of(DeleteKey(k, FALSE, l), "DEL", "stop", "ignore", TRUE, k, [Nothing EXCEPT !.subs = l])
            BY DeleteKeyIs
        <3>3. PICK d : d = DeleteKey(q.key, FALSE, l)
            OBVIOUS
        <3>4. Head(<<d>>) = d
            BY OneTask
        <3> QED
            BY <3>1, <3>2, <3>3, <3>4 DEF Of
    <2>4. Sweeping(todo) => Head(todo).step.com \in {"GET_SUBKEYS", "DEL", "SET"}
        <3>1. Head(todo) = todo[1] /\ 1 \in 1 .. Len(todo)
            OBVIOUS
        <3> QED
            BY <3>1 DEF Sweeping, Sweeps
    <2>5. Head(todo).step.com \in {"GET_SUBKEYS", "DEL", "SET"}
        BY <1>4, <2>2, <2>3, <2>4 DEF AlongDel
    <2> QED
        BY <2>5 DEF FirstIs
<1>5. CASE q.op = "ren" /\ AlongRen(c, q, todo, b, s)
    <2>1. PICK t, u, v : /\ t = Task(RenSteps(TRUE)[1], q.key, Name(q.sub))
                         /\ u = Task(RenSteps(TRUE)[2], q.parent, Name(q.key))
                         /\ v = Task(RenSteps(TRUE)[3], q.parent, Name(q.sub))
        OBVIOUS
    <2>2. /\ Of(t, "REN", "stop", "stop", TRUE, q.key, Name(q.sub))
          /\ Of(u, "DEL_SUBKEYS", "stop", "stop", FALSE, q.parent, Name(q.key))
          /\ Of(v, "ADD_SUBKEYS", "stop", "stop", FALSE, q.parent, Name(q.sub))
        BY <2>1, StepValues, TaskParts
    <2>3. PICK p : p = RenTasks(c, q)
        OBVIOUS
    <2>4. p = <<t, u, v>>
        BY <2>1, <2>3 DEF RenTasks
    <2>5. Head(p) = t /\ Tail(p) = <<u, v>>
        BY <2>4, ThreeTasks
    <2>6. Head(Tail(p)) = u /\ Tail(Tail(p)) = <<v>>
        BY <2>5, TwoTasks
    <2>7. Head(Tail(Tail(p))) = v
        BY <2>6, OneTask
    <2>8. \/ todo = p /\ s[q.key].val = b[q.key].val /\ Head(todo) = t
          \/ Head(todo) = u \/ Head(todo) = v
        BY <1>5, <2>3, <2>5, <2>6, <2>7 DEF AlongRen
    <2> QED
        BY <1>5, <2>2, <2>3, <2>8 DEF FirstIs, Of, Stops
<1> QED
    BY <1>1, <1>2, <1>3, <1>4, <1>5 DEF Along

\* A renaming that has succeeded lets the call go on.
LEMMA RenTaskIs ==
    ASSUME NEW c \in Clients, NEW q, Fits(q), q.op = "ren"
    PROVE  LET p == RenTasks(c, q) IN
           /\ Head(p).step.com = "REN" /\ Head(p).to = q.key /\ Head(p).arg.key = q.sub
           /\ Stops(Head(p), FALSE, FALSE)
           /\ \A main, skipped, b, s : Renamed(q, b, s) => Stays(c, q, p, main, skipped, b, FALSE, TRUE, {}, s)
<1>1. PICK t, u, v : /\ t = Task(RenSteps(TRUE)[1], q.key, Name(q.sub))
                     /\ u = Task(RenSteps(TRUE)[2], q.parent, Name(q.key))
                     /\ v = Task(RenSteps(TRUE)[3], q.parent, Name(q.sub))
    OBVIOUS
<1>2. Of(t, "REN", "stop", "stop", TRUE, q.key, Name(q.sub))
    BY <1>1, StepValues, TaskParts
<1>3. PICK p : p = RenTasks(c, q)
    OBVIOUS
<1>4. p = <<t, u, v>>
    BY <1>1, <1>3 DEF RenTasks
<1>5. Head(p) = t
    BY <1>4, ThreeTasks
<1>6. p \in Seq(Tasks) /\ p # <<>>
    BY <1>3, TasksOfCall DEF TasksOf, Begins
<1>7. \A safe : Remaining(p, FALSE, {}, safe) = Tail(p)
    BY <1>2, <1>5, <1>6, NextIsTail DEF Of
<1>8. ASSUME NEW main, NEW skipped, NEW b, NEW s, Renamed(q, b, s)
      PROVE  Stays(c, q, p, main, skipped, b, FALSE, TRUE, {}, s)
    BY <1>3, <1>7, <1>8 DEF Stays, Along, AlongRen
<1>9. Head(p).step.com = "REN" /\ Head(p).to = q.key /\ Head(p).arg.key = q.sub /\ Stops(Head(p), FALSE, FALSE)
    BY <1>2, <1>5, ValueIs DEF Of, Stops
<1> QED
    BY <1>3, <1>8, <1>9

-----------------------------------------------------------------------------
(* The steps, in the words of the invariant.                               *)

\* What Proceed makes of a call d of client c.
Goes(c, d, failed, good, list, safe) ==
    LET e == client'[c] IN
    /\ \A x \in Clients : x # c => client'[x] = client[x]
    /\ e.call = d.call /\ e.before = d.before /\ e.late = d.late /\ e.at \in {"send", "end"}
    /\ IF Stops(Head(d.todo), failed, good) THEN ~e.ok /\ e.at = "end"
       ELSE /\ e.ok = d.ok /\ e.todo = Remaining(d.todo, failed, list, safe)
            /\ e.main = Mains(d.todo, d.main, good) /\ e.skipped = Skips(d.todo, d.skipped, good)
            /\ e.at = IF e.todo = <<>> THEN "end" ELSE "send"

LEMMA ProceedIs ==
    ASSUME ClientInv, NEW c \in Clients, NEW d, InCall(d), NEW failed, NEW good, NEW l, NEW safe,
           Proceed(c, d, failed, good, l, safe)
    PROVE  Goes(c, d, failed, good, l, safe)
<1> DEFINE t == Head(d.todo)
           todo == Following(t, failed, l, safe) \o Tail(d.todo)
           u == [d EXCEPT !.skipped = @ \/ (~good /\ ~t.step.main), !.main = IF t.step.main THEN good ELSE @]
           stops == \/ failed /\ t.step.onFail = "stop"
                    \/ ~failed /\ ~good /\ t.step.onError = "stop"
           e1 == [u EXCEPT !.at = "end", !.ok = FALSE]
           e2 == [u EXCEPT !.at = IF todo = <<>> THEN "end" ELSE "send", !.todo = todo]
<1>0. {"at", "call", "todo", "sent", "main", "ok", "late", "skipped", "before"} \subseteq DOMAIN d
    BY DEF InCall
<1>1. client' = [client EXCEPT ![c] = IF stops THEN e1 ELSE e2]
    BY Zenon DEF Proceed, e1, e2, u, todo
<1>2. todo = Remaining(d.todo, failed, l, safe) /\ (stops <=> Stops(t, failed, good))
    BY DEF Remaining, Stops
<1>3. PICK sk, ma : sk = Skips(d.todo, d.skipped, good) /\ ma = Mains(d.todo, d.main, good)
    OBVIOUS
<1>4. u = [d EXCEPT !.skipped = sk, !.main = ma]
    BY <1>3, Zenon DEF Skips, Mains, u
<1> HIDE DEF u, todo, stops
<1>5. /\ DOMAIN u = DOMAIN d /\ u.call = d.call /\ u.before = d.before /\ u.late = d.late /\ u.ok = d.ok
      /\ u.main = ma /\ u.skipped = sk
    BY <1>0, <1>4
<1>6. e1.call = d.call /\ e1.before = d.before /\ e1.late = d.late /\ e1.at = "end" /\ ~e1.ok
    BY <1>0, <1>5
<1>7. /\ e2.call = d.call /\ e2.before = d.before /\ e2.late = d.late
      /\ e2.at = IF todo = <<>> THEN "end" ELSE "send"
      /\ e2.ok = d.ok /\ e2.todo = todo /\ e2.main = ma /\ e2.skipped = sk
    BY <1>0, <1>5
<1> HIDE DEF e1, e2
<1>8. client'[c] = (IF stops THEN e1 ELSE e2) /\ \A x \in Clients : x # c => client'[x] = client[x]
    BY <1>1, ClientChanges
<1>9. CASE stops
    BY <1>2, <1>6, <1>8, <1>9 DEF Goes
<1>10. CASE ~stops
    BY <1>2, <1>3, <1>7, <1>8, <1>10 DEF Goes
<1> QED
    BY <1>9, <1>10

\* A call that goes on as planned.
LEMMA GoesOnTrack ==
    ASSUME NEW c \in Clients, NEW d, NEW failed, NEW good, NEW l, NEW safe \in BOOLEAN, Goes(c, d, failed, good, l, safe),
           NEW s, StaysOnTrack(c, d, failed, good, l, s), client'[c].ok
    PROVE  /\ OnTrack(c, client'[c], s)
           /\ client'[c].at = "send" \/ (client'[c].at = "end" /\ client'[c].todo = <<>>)
<1> DEFINE e == client'[c]
<1>1. ~Stops(Head(d.todo), failed, good)
    BY DEF Goes
<1>2. /\ e.call = d.call /\ e.before = d.before /\ e.todo = Remaining(d.todo, failed, l, safe)
      /\ e.main = Mains(d.todo, d.main, good) /\ e.skipped = Skips(d.todo, d.skipped, good)
      /\ e.at = IF e.todo = <<>> THEN "end" ELSE "send"
    BY <1>1 DEF Goes
<1>3. Along(c, d.call, Remaining(d.todo, failed, l, safe), Mains(d.todo, d.main, good), Skips(d.todo, d.skipped, good),
            d.before, s)
    BY <1>1 DEF StaysOnTrack, Stays
<1> QED
    BY <1>2, <1>3 DEF OnTrack

\* An answer arrives in a call that waits for it, or is lost.
LEMMA ArrivesIs ==
    ASSUME ServerInv, NEW c \in Clients, inbox[c] = <<>>, NEW r, r.from \in Clients, r.com \in TaskComs,
           NEW good \in BOOLEAN, NEW l \in SUBSET Keys, Answer(r, good, l)
    PROVE  \/ inbox'[c] = <<>>
           \/ \E a \in Responses : inbox'[c] = <<a>> /\ a.com = r.com /\ a.good = good /\ a.list = l
<1>1. PICK a : a = [com |-> r.com, good |-> good, list |-> l]
    OBVIOUS
<1>2. a \in Responses /\ a.com = r.com /\ a.good = good /\ a.list = l
    BY <1>1 DEF Responses
<1>3. CASE Current(r)
    <2>1. inbox' = [inbox EXCEPT ![r.from] = Append(@, a)]
        BY <1>1, <1>3 DEF Answer
    <2>2. inbox'[c] = inbox[c] \/ inbox'[c] = Append(inbox[c], a)
        BY <2>1 DEF ServerInv
    <2>3. Append(<<>>, a) = <<a>>
        OBVIOUS
    <2> QED
        BY <1>2, <2>2, <2>3
<1>4. CASE ~Current(r)
    BY <1>4 DEF Answer
<1> QED
    BY <1>3, <1>4

\* What a request makes of the keys.
LEMMA ServedMakes ==
    ASSUME ServerInv, NEW r \in net, r.com \notin {"REN", "SET_ALL"}, NEW t, Carries(r, t), NEW s2, s2 = After(r)
    PROVE  Makes(t, store, s2, IF r.com = "GET_SUBKEYS" THEN store[r.to].subs ELSE {})
<1>1. /\ r.com \in TaskComs \cup {"SET_ALL"} /\ r.to \in Keys
      /\ r.com = t.step.com /\ r.to = t.to /\ r.arg = t.arg
    BY RequestIs DEF Carries
<1>2. store \in [Keys -> Elements]
    BY DEF ServerInv
<1>3. PICK d \in Elements : d = store[r.to]
    BY <1>1, <1>2
<1>4. d = [val |-> d.val, subs |-> d.subs]
    BY DEF Elements
<1>5. ASSUME NEW e, s2 = [store EXCEPT ![r.to] = e]
      PROVE  s2[r.to] = e /\ \A k \in Keys : k # r.to => s2[k] = store[k]
    BY <1>1, <1>2, <1>5
<1>6. CASE r.com = "SET"
    <2>1. PICK e : e = [val |-> r.arg.val, subs |-> d.subs]
        OBVIOUS
    <2>2. [d EXCEPT !.val = r.arg.val] = e
        BY <1>4, <2>1
    <2>3. s2 = [store EXCEPT ![r.to] = e]
        BY <1>2, <1>3, <1>6, <2>2 DEF After, Put
    <2> QED
        BY <1>1, <1>3, <1>5, <1>6, <2>1, <2>3 DEF Makes
<1>7. CASE r.com = "DEL"
    <2>1. s2 = [store EXCEPT ![r.to] = Absent]
        BY <1>7 DEF After
    <2> QED
        BY <1>1, <1>5, <1>7, <2>1 DEF Makes
<1>8. CASE r.com = "ADD_SUBKEYS"
    <2>1. PICK e : e = [val |-> d.val, subs |-> d.subs \cup {r.arg.key}]
        OBVIOUS
    <2>2. [d EXCEPT !.subs = @ \cup {r.arg.key}] = e
        BY <1>4, <2>1
    <2>3. s2 = [store EXCEPT ![r.to] = e]
        BY <1>2, <1>3, <1>8, <2>2 DEF After
    <2> QED
        BY <1>1, <1>3, <1>5, <1>8, <2>1, <2>3 DEF Makes
<1>9. CASE r.com = "DEL_SUBKEYS"
    <2>1. PICK e : e = [val |-> d.val, subs |-> d.subs \ {r.arg.key}]
        OBVIOUS
    <2>2. [d EXCEPT !.subs = @ \ {r.arg.key}] = e
        BY <1>4, <2>1
    <2>3. s2 = [store EXCEPT ![r.to] = e]
        BY <1>2, <1>3, <1>9, <2>2 DEF After
    <2> QED
        BY <1>1, <1>3, <1>5, <1>9, <2>1, <2>3 DEF Makes
<1>10. CASE r.com = "GET_SUBKEYS"
    <2>1. s2 = store
        BY <1>10 DEF After
    <2> QED
        BY <1>1, <1>10, <2>1 DEF Makes
<1> QED
    BY <1>1, <1>6, <1>7, <1>8, <1>9, <1>10 DEF TaskComs

-----------------------------------------------------------------------------
(* The steps of the clients.                                               *)

LEMMA BeginClean ==
    ASSUME ClientInv, ServerInv, IdInv, NEW c \in Clients, NEW x \in Clients, NEW q \in Offers(x), Begin(x, q), Clean(c)'
    PROVE  GoodCall(c)'
<1>1. PICK e : e = [at |-> "send", call |-> q, todo |-> TasksOf(x, q), sent |-> 0,
                    main |-> TRUE, ok |-> TRUE, late |-> FALSE, skipped |-> FALSE, before |-> store]
    OBVIOUS
<1>2. client' = [client EXCEPT ![x] = e] /\ ~Busy(x)
    BY <1>1 DEF Begin
<1>3. client'[x] = e /\ \A y \in Clients : y # x => client'[y] = client[y]
    BY <1>2, ClientChanges
<1>4. Busy(c)' /\ c \notin overlap'
    BY DEF Clean
<1>5. ~((\E d \in Clients : Busy(d)) \/ net # {} \/ work # {}) /\ c = x
    <2>1. CASE (\E d \in Clients : Busy(d)) \/ net # {} \/ work # {}
        <3>1. overlap' = overlap \cup {x} \cup {d \in Clients : Busy(d)}
            BY <2>1 DEF Begin
        <3>2. c # x /\ ~Busy(c)
            BY <1>4, <3>1
        <3> QED
            BY <1>3, <1>4, <3>2 DEF Busy
    <2>2. CASE ~((\E d \in Clients : Busy(d)) \/ net # {} \/ work # {})
        <3>1. c = x
            BY <1>3, <1>4, <2>2 DEF Busy
        <3> QED
            BY <2>2, <3>1
    <2> QED
        BY <2>1, <2>2
<1>6. Alone(c)'
    BY <1>3, <1>5 DEF Alone, Busy
<1>7. Fits(q)
    BY CompositeAssumption DEF Fits
<1>8. /\ e.at = "send" /\ e.call = q /\ e.before = store /\ e.todo = TasksOf(x, q)
      /\ net' = net /\ work' = work /\ inbox' = inbox /\ store' = store
    BY <1>1 DEF Begin
<1>9. OnTrack(c, client'[c], store')
    BY <1>3, <1>5, <1>7, <1>8, BeginsOnTrack DEF OnTrack
<1>10. inbox[c] = <<>>
    BY <1>2, <1>5 DEF IdInv
<1>11. GoesWell(c)'
    BY <1>3, <1>5, <1>8, <1>9, <1>10 DEF GoesWell, NoneServed
<1> QED
    BY <1>3, <1>5, <1>6, <1>7, <1>8, <1>11 DEF GoodCall, ServerInv

\* A client that takes a step is in a call, so that a call of another one meets it.
LEMMA OtherClean ==
    ASSUME ClientInv, ServerInv, CleanInv, NEW c \in Clients, NEW x \in Clients, x # c, ClientStep(x), Clean(c)'
    PROVE  FALSE
<1>1. Busy(x) /\ client'[c] = client[c]
    <2>1. CASE Send(x)
        BY <2>1, SendIs DEF Busy
    <2>2. CASE SendFails(x)
        BY <2>2, SendFailsGoesOn, GoesOnIs
    <2>3. CASE TimeOut(x)
        BY <2>3, TimeOutGoesOn, GoesOnIs
    <2>4. CASE Receive(x)
        BY <2>4, ReceiveGoesOn, GoesOnIs DEF ServerInv
    <2>5. CASE Return(x)
        BY <2>5, ReturnIs
    <2> QED
        BY <2>1, <2>2, <2>3, <2>4, <2>5 DEF ClientStep
<1>2. overlap' = overlap
    BY DEF ClientStep, Send, SendFails, TimeOut, Receive, Return, history
<1>3. Clean(c)
    BY <1>1, <1>2 DEF Clean, Busy
<1> QED
    BY <1>1, <1>3 DEF CleanInv, GoodCall, Alone

LEMMA SendClean ==
    ASSUME ClientInv, ServerInv, CleanInv, NEW c \in Clients, Send(c), Clean(c)'
    PROVE  GoodCall(c)'
<1>1. /\ client[c].at = "send" /\ InCall(client[c])
      /\ \A x \in Clients : x # c => client'[x] = client[x]
    BY SendIs
<1>2. PICK e : e = [client[c] EXCEPT !.at = "wait", !.sent = @ + 1]
    OBVIOUS
<1>3. client'[c] = e
    BY <1>2 DEF Send, ClientInv
<1>4. /\ e.at = "wait" /\ e.call = client[c].call /\ e.todo = client[c].todo /\ e.main = client[c].main
      /\ e.ok = client[c].ok /\ e.late = client[c].late /\ e.skipped = client[c].skipped /\ e.before = client[c].before
    BY <1>1, <1>2 DEF InCall
<1>5. overlap' = overlap /\ work' = work /\ store' = store /\ inbox' = inbox
    BY DEF Send, history
<1>6. Clean(c)
    BY <1>1, <1>3, <1>4, <1>5 DEF Clean, Busy
<1>7. Alone(c) /\ GoesWell(c) /\ Fits(client[c].call) /\ client[c].before \in [Keys -> Elements]
    BY <1>6 DEF CleanInv, GoodCall
<1>8. NoneServed /\ inbox[c] = <<>> /\ OnTrack(c, client[c], store)
    BY <1>1, <1>7 DEF GoesWell
<1>9. PICK r : r = [com |-> Now(c).step.com, to |-> Now(c).to, arg |-> Now(c).arg,
                    from |-> c, id |-> left[c], n |-> client[c].sent]
    OBVIOUS
<1>10. net' = {r}
    BY <1>8, <1>9 DEF Send, NoneServed
<1>11. Carries(r, Head(client[c].todo))
    BY <1>9 DEF Carries, Now
<1>12. OnTrack(c, e, store)
    BY <1>4, <1>8 DEF OnTrack
<1>13. Asked(c)'
    BY <1>3, <1>4, <1>5, <1>8, <1>10, <1>11, <1>12 DEF Asked, NoneServed
<1>14. GoesWell(c)'
    BY <1>3, <1>4, <1>13 DEF GoesWell
<1>15. Alone(c)'
    BY <1>1, <1>7 DEF Alone, Busy
<1> QED
    BY <1>3, <1>4, <1>5, <1>7, <1>14, <1>15 DEF GoodCall

\* A call that is clean after a request was clean before it.
LEMMA WasClean ==
    ASSUME NEW c \in Clients, Busy(c), overlap' = overlap, NEW d, NEW failed, NEW good, NEW l, NEW safe,
           Goes(c, d, failed, good, l, safe), Clean(c)'
    PROVE  ~d.late /\ (d.ok = client[c].ok => client[c].ok) /\ c \notin overlap
BY DEF Goes, Clean

\* A request that is done with, and that leaves nothing behind.
LEMMA DoneClean ==
    ASSUME ClientInv, CleanInv, NEW c \in Clients, Clean(c), store' = store,
           NEW failed, NEW good, NEW l, NEW safe \in BOOLEAN, Goes(c, client[c], failed, good, l, safe),
           Clean(c)', NoneServed', inbox'[c] = <<>>, StaysOnTrack(c, client[c], failed, good, l, store)
    PROVE  GoodCall(c)'
<1>1. /\ \A x \in Clients : x # c => client'[x] = client[x]
      /\ client'[c].call = client[c].call /\ client'[c].before = client[c].before
      /\ client'[c].ok
    BY DEF Goes, Clean
<1>2. Alone(c) /\ Fits(client[c].call) /\ client[c].before \in [Keys -> Elements]
    BY DEF CleanInv, GoodCall
<1>3. /\ OnTrack(c, client'[c], store)
      /\ client'[c].at = "send" \/ (client'[c].at = "end" /\ client'[c].todo = <<>>)
    BY <1>1, GoesOnTrack
<1>4. GoesWell(c)'
    BY <1>3 DEF GoesWell
<1>5. Alone(c)'
    BY <1>1, <1>2 DEF Alone, Busy
<1> QED
    BY <1>1, <1>2, <1>4, <1>5 DEF GoodCall

\* What there is to do in a clean call.
LEMMA CleanTodo ==
    ASSUME ClientInv, ServerInv, CleanInv, NEW c \in Clients, Clean(c), client[c].at # "end"
    PROVE  /\ InCall(client[c]) /\ client[c].todo \in Seq(Tasks) /\ client[c].todo # <<>>
           /\ store \in [Keys -> Elements]
           /\ OnTrack(c, client[c], store) =>
                 LET d == client[c] IN StaysAnyway(c, d.call, d.todo, d.main, d.skipped, d.before, store)
<1>1. InCall(client[c])
    BY CalledIs DEF Clean
<1>2. client[c].todo \in Seq(Tasks) /\ client[c].todo # <<>>
    BY <1>1 DEF InCall
<1>3. Fits(client[c].call) /\ client[c].before \in [Keys -> Elements] /\ store \in [Keys -> Elements]
    BY DEF CleanInv, GoodCall, ServerInv
<1> QED
    BY <1>1, <1>2, <1>3, OnTrackStays DEF OnTrack

LEMMA SendFailsClean ==
    ASSUME ClientInv, ServerInv, CleanInv, NEW c \in Clients, SendFails(c), Clean(c)'
    PROVE  GoodCall(c)'
<1>1. /\ client[c].at = "send" /\ Busy(c) /\ overlap' = overlap /\ store' = store /\ net' = net /\ work' = work
      /\ inbox' = inbox
    BY DEF SendFails, Busy, history
<1>2. InCall(client[c])
    BY <1>1, CalledIs
<1>3. PICK safe \in BOOLEAN : Proceed(c, client[c], TRUE, FALSE, {}, safe)
    BY CompositeAssumption DEF SendFails
<1>4. Goes(c, client[c], TRUE, FALSE, {}, safe)
    BY <1>2, <1>3, ProceedIs
<1>5. Clean(c)
    BY <1>1, <1>4, WasClean DEF Clean
<1>6. NoneServed /\ inbox[c] = <<>> /\ OnTrack(c, client[c], store)
    BY <1>1, <1>5 DEF CleanInv, GoodCall, GoesWell
<1>7. StaysOnTrack(c, client[c], TRUE, FALSE, {}, store)
    BY <1>1, <1>5, <1>6, CleanTodo DEF StaysAnyway, StaysOnTrack
<1>8. NoneServed' /\ inbox'[c] = <<>>
    BY <1>1, <1>6 DEF NoneServed
<1> QED
    BY <1>1, <1>4, <1>5, <1>7, <1>8, DoneClean

LEMMA TimeOutClean ==
    ASSUME ClientInv, NEW c \in Clients, TimeOut(c), Clean(c)'
    PROVE  FALSE
<1>1. client[c].at = "wait" /\ Busy(c) /\ overlap' = overlap
    BY DEF TimeOut, Busy, history
<1>2. InCall(client[c])
    BY <1>1, CalledIs
<1>3. PICK d : d = [client[c] EXCEPT !.late = TRUE]
    OBVIOUS
<1>4. d.late /\ DOMAIN d = DOMAIN client[c] /\ d.at = client[c].at /\ d.todo = client[c].todo /\ d.sent = client[c].sent
    BY <1>2, <1>3 DEF InCall
<1>5. InCall(d)
    BY <1>2, <1>4 DEF InCall
<1>6. PICK safe \in AllSafe : Proceed(c, d, TRUE, FALSE, {}, safe)
    BY <1>3 DEF TimeOut
<1>7. Goes(c, d, TRUE, FALSE, {}, safe)
    BY <1>5, <1>6, ProceedIs
<1> QED
    BY <1>1, <1>4, <1>7, WasClean

LEMMA ReceiveClean ==
    ASSUME ClientInv, ServerInv, CleanInv, NEW c \in Clients, Receive(c), Clean(c)'
    PROVE  GoodCall(c)'
<1> DEFINE a == Head(inbox[c])
           wrong == Now(c).step.com = "GET_SUBKEYS" /\ a.com # "GET_SUBKEYS"
<1>1. /\ client[c].at = "wait" /\ Busy(c) /\ overlap' = overlap /\ store' = store /\ net' = net /\ work' = work
      /\ inbox[c] # <<>> /\ inbox' = [inbox EXCEPT ![c] = Tail(@)]
    BY DEF Receive, Busy, history
<1>2. InCall(client[c])
    BY <1>1, CalledIs
<1>3. PICK safe \in BOOLEAN : Proceed(c, client[c], wrong, ~wrong /\ a.good, IF wrong THEN {} ELSE a.list, safe)
    BY CompositeAssumption DEF Receive
<1>4. PICK failed, good, list : failed = wrong /\ good = (~wrong /\ a.good) /\ list = IF wrong THEN {} ELSE a.list
    OBVIOUS
<1>5. Goes(c, client[c], failed, good, list, safe)
    BY <1>2, <1>3, <1>4, ProceedIs
<1>6. Clean(c)
    BY <1>1, <1>5, WasClean DEF Clean
<1>7. GoesWell(c)
    BY <1>6 DEF CleanInv, GoodCall
<1>8. Answered(c)
    BY <1>1, <1>7 DEF GoesWell, Lost, Asked, RenamingAt, Moves
<1>9. PICK b \in Responses :
         /\ inbox[c] = <<b>> /\ b.com = Head(client[c].todo).step.com
         /\ \/ Stops(Head(client[c].todo), FALSE, b.good)
            \/ net = {} /\ StaysOnTrack(c, client[c], FALSE, b.good, b.list, store)
    BY <1>8 DEF Answered
<1>10. a = b /\ Tail(inbox[c]) = <<>>
    BY <1>9, OneTask
<1>11. wrong = FALSE
    BY <1>9, <1>10 DEF Now
<1>12. failed = FALSE /\ good = b.good /\ list = b.list
    <2>1. b.good \in BOOLEAN
        BY DEF Responses
    <2> HIDE DEF wrong
    <2> QED
        BY <1>4, <1>10, <1>11, <2>1
<1>13. ~Stops(Head(client[c].todo), FALSE, b.good)
    BY <1>5, <1>12 DEF Goes, Clean
<1>14. net = {} /\ work = {} /\ StaysOnTrack(c, client[c], failed, good, list, store)
    BY <1>8, <1>9, <1>12, <1>13 DEF Answered, NoneAsked
<1>15. NoneServed' /\ inbox'[c] = <<>>
    BY <1>1, <1>10, <1>14 DEF NoneServed, ServerInv
<1> QED
    BY <1>1, <1>5, <1>6, <1>14, <1>15, DoneClean

LEMMA ClientStepClean ==
    ASSUME ClientInv, ServerInv, CleanInv, NEW c \in Clients, NEW x \in Clients, ClientStep(x), Clean(c)'
    PROVE  GoodCall(c)'
<1>1. x = c
    BY OtherClean
<1>2. CASE Send(c)
    BY <1>2, SendClean
<1>3. CASE SendFails(c)
    BY <1>3, SendFailsClean
<1>4. CASE TimeOut(c)
    BY <1>4, TimeOutClean
<1>5. CASE Receive(c)
    BY <1>5, ReceiveClean
<1>6. CASE Return(c)
    <2>1. client'[c].at = "rest"
        BY <1>6, ReturnIs DEF Rest
    <2> QED
        BY <2>1 DEF Clean, Busy
<1> QED
    BY <1>1, <1>2, <1>3, <1>4, <1>5, <1>6 DEF ClientStep

-----------------------------------------------------------------------------
(* The steps of the servers.                                               *)

\* A step that no client takes.
LEMMA ServedClean ==
    ASSUME CleanInv, NEW c \in Clients, client' = client, overlap' = overlap, Clean(c)'
    PROVE  Clean(c) /\ GoodCall(c) /\ (GoesWell(c)' => GoodCall(c)')
<1>1. Clean(c)
    BY DEF Clean, Busy
<1>2. GoodCall(c)
    BY <1>1 DEF CleanInv
<1>3. Alone(c)'
    BY <1>2 DEF GoodCall, Alone, Busy
<1> QED
    BY <1>1, <1>2, <1>3 DEF GoodCall

\* Nothing is served but for a call that waits.
LEMMA OnlyWhileWaiting ==
    ASSUME NEW c \in Clients, GoesWell(c), net # {} \/ work # {}
    PROVE  client[c].at = "wait" /\ (Lost(c) \/ Asked(c) \/ Answered(c) \/ \E w \in work : RenamingAt(c, w))
BY DEF GoesWell, NoneServed

\* The answer to the request of a call, when nothing else is under way.
LEMMA AnswerClean ==
    ASSUME ServerInv, NEW c \in Clients, client' = client, client[c].at = "wait", inbox[c] = <<>>,
           NEW r, r.from \in Clients, r.com \in TaskComs, r.com = Head(client[c].todo).step.com,
           NEW good \in BOOLEAN, NEW l \in SUBSET Keys, Answer(r, good, l) \/ UNCHANGED inbox,
           NoneAsked',
           Stops(Head(client[c].todo), FALSE, good)
              \/ (net' = {} /\ StaysOnTrack(c, client[c], FALSE, good, l, store'))
    PROVE  GoesWell(c)'
<1>1. CASE inbox'[c] = <<>>
    BY <1>1 DEF GoesWell, Lost
<1>2. CASE \E a \in Responses : inbox'[c] = <<a>> /\ a.com = r.com /\ a.good = good /\ a.list = l
    <2>1. Answered(c)'
        BY <1>2 DEF Answered
    <2> QED
        BY <2>1 DEF GoesWell
<1> QED
    BY <1>1, <1>2, ArrivesIs

LEMMA LostClean ==
    ASSUME ServerInv, NEW c \in Clients, client' = client, client[c].at = "wait", Lost(c), NEW r \in net, ServerStep(r)
    PROVE  GoesWell(c)'
<1>1. r.com = "SET_ALL" /\ work = {}
    BY DEF Lost, NoneAsked
<1>2. ServeSetAll(r)
    BY <1>1 DEF ServerStep, Serve, Refuse, RenSame, RenNothing, RenRead
<1>3. net' \subseteq net /\ work' = {} /\ inbox' = inbox
    BY <1>1, <1>2 DEF ServeSetAll, Waiting
<1>4. Lost(c)'
    BY <1>3 DEF Lost, NoneAsked
<1> QED
    BY <1>4 DEF GoesWell

LEMMA AnsweredClean ==
    ASSUME ServerInv, NEW c \in Clients, client' = client, client[c].at = "wait", Answered(c), NEW r \in net, ServerStep(r)
    PROVE  GoesWell(c)'
<1>1. r.com = "SET_ALL" /\ work = {}
    BY DEF Answered, NoneAsked
<1>2. ServeSetAll(r)
    BY <1>1 DEF ServerStep, Serve, Refuse, RenSame, RenNothing, RenRead
<1>3. net' \subseteq net /\ work' = {} /\ inbox' = inbox
    BY <1>1, <1>2 DEF ServeSetAll, Waiting
<1>4. PICK a \in Responses :
         inbox[c] = <<a>> /\ a.com = Head(client[c].todo).step.com /\ Stops(Head(client[c].todo), FALSE, a.good)
    BY DEF Answered
<1>5. NoneAsked'
    BY <1>3 DEF Answered, NoneAsked
<1>6. Answered(c)'
    BY <1>3, <1>4, <1>5 DEF Answered
<1> QED
    BY <1>6 DEF GoesWell

LEMMA RenamingClean ==
    ASSUME ServerInv, NEW c \in Clients, client' = client, client[c].at = "wait", NEW w \in work, RenamingAt(c, w),
           NEW r \in net, ServerStep(r)
    PROVE  GoesWell(c)'
<1>1. /\ work = {w} /\ w.at = "wait" /\ net = {r} /\ r.com = "SET_ALL" /\ Same(r, w)
      /\ store[w.old].val = client[c].before[w.old].val /\ r.to = w.new /\ r.arg.val = store[w.old].val
      /\ client[c].call.op = "ren" /\ client[c].todo = RenTasks(c, client[c].call)
      /\ inbox[c] = <<>> /\ w.old = client[c].call.key /\ w.new = client[c].call.sub
    BY DEF RenamingAt, Moves
<1>2. ServeSetAll(r)
    BY <1>1 DEF ServerStep, Serve, Refuse, RenSame, RenNothing, RenRead
<1>3. PICK x : x = [w EXCEPT !.at = "remove"]
    OBVIOUS
<1>4. w \in Renamings
    BY DEF ServerInv
<1>5. x.at = "remove" /\ x.old = w.old /\ x.new = w.new
    BY <1>3, <1>4 DEF Renamings
<1>6. Waiting(r) = {w}
    BY <1>1 DEF Waiting, Same
<1>7. work' = {x} /\ net' = {} /\ inbox' = inbox
    BY <1>1, <1>2, <1>3, <1>6 DEF ServeSetAll
<1>8. store'[w.new].val = r.arg.val
    BY <1>1, <1>2, AfterIs DEF ServeSetAll
<1>9. RenamingAt(c, x)'
    BY <1>1, <1>5, <1>7, <1>8 DEF RenamingAt, Moves
<1> QED
    BY <1>7, <1>9 DEF GoesWell

LEMMA AskedClean ==
    ASSUME ClientInv, ServerInv, CleanInv, NEW c \in Clients, Clean(c), client' = client, client[c].at = "wait", Asked(c),
           NEW r \in net, ServerStep(r)
    PROVE  GoesWell(c)'
<1> DEFINE d == client[c]
           t == Head(d.todo)
<1>1. /\ work = {} /\ inbox[c] = <<>> /\ OnTrack(c, d, store) /\ net = {r} /\ Carries(r, t)
      /\ r.com = t.step.com /\ r.to = t.to /\ r.arg = t.arg
    BY DEF Asked, Carries
<1>2. /\ d.todo \in Seq(Tasks) /\ d.todo # <<>> /\ store \in [Keys -> Elements]
      /\ StaysAnyway(c, d.call, d.todo, d.main, d.skipped, d.before, store)
    BY <1>1, CleanTodo
<1>3. Fits(d.call) /\ d.before \in [Keys -> Elements]
    BY DEF CleanInv, GoodCall
<1>4. t \in Tasks /\ r.com \in TaskComs /\ r.com # "SET_ALL" /\ r.from \in Clients
    <2>1. t \in Tasks
        BY <1>2
    <2>2. t.step.com \in TaskComs
        BY <2>1 DEF Tasks, Steps
    <2> QED
        BY <1>1, <2>1, <2>2, RequestIs DEF TaskComs
<1>5. TRUE \in BOOLEAN /\ FALSE \in BOOLEAN /\ {} \in SUBSET Keys
    OBVIOUS
<1>6. ASSUME r.com = "REN"
      PROVE  /\ d.call.op = "ren" /\ d.todo = RenTasks(c, d.call) /\ store[d.call.key].val = d.before[d.call.key].val
             /\ t.to = d.call.key /\ t.arg.key = d.call.sub
             /\ \A s2 : Renamed(d.call, d.before, s2) => StaysOnTrack(c, d, FALSE, TRUE, {}, s2)
             /\ Stops(t, FALSE, FALSE)
    <2>1. FirstIs(c, d.call, d.todo, d.before, store)
        BY <1>1, <1>2, <1>3, FirstRequest DEF OnTrack
    <2>2. d.call.op = "ren" /\ d.todo = RenTasks(c, d.call) /\ store[d.call.key].val = d.before[d.call.key].val
        BY <1>1, <1>6, <2>1 DEF FirstIs
    <2> QED
        BY <1>3, <2>2, RenTaskIs DEF StaysOnTrack
<1>7. ASSUME net' = {}, work' = work PROVE NoneAsked'
    BY <1>1, <1>7 DEF NoneAsked
<1>8. CASE Serve(r)
    <2>1. r.com # "REN" /\ net' = {} /\ work' = work /\ store' = After(r)
        BY <1>1, <1>8 DEF Serve
    <2>2. PICK l \in SUBSET Keys : l = IF r.com = "GET_SUBKEYS" THEN store[r.to].subs ELSE {}
        BY <1>2, RequestIs DEF Elements
    <2>3. Answer(r, Accepted(r), l) \/ UNCHANGED inbox
        BY <1>8, <2>2 DEF Serve
    <2>4. Makes(t, store, store', l)
        BY <1>1, <1>4, <2>1, <2>2, ServedMakes
    <2>5. store' \in [Keys -> Elements]
        BY <2>1, AfterIs
    <2>6. CASE Accepted(r)
        <3>1. Answer(r, TRUE, l) \/ UNCHANGED inbox
            <4>1. PICK g \in BOOLEAN : g = Accepted(r)
                <5>1. Accepted(r) \in BOOLEAN
                    BY Zenon DEF Accepted
                <5> QED
                    BY <5>1
            <4>2. g = TRUE
                BY <2>6, <4>1
            <4> QED
                BY <2>3, <4>1, <4>2
        <3>2. StaysOnTrack(c, d, FALSE, TRUE, l, store')
            BY <1>1, <1>2, <2>1, <2>4, <2>5 DEF StaysAnyway, StaysOnTrack
        <3> QED
            BY <1>1, <1>4, <1>5, <1>7, <2>1, <3>1, <3>2, AnswerClean
    <2>7. CASE ~Accepted(r)
        <3>1. r.com = "DEL_SUBKEYS"
            BY <2>7 DEF Accepted
        <3>2. Answer(r, FALSE, l) \/ UNCHANGED inbox
            <4>1. PICK g \in BOOLEAN : g = Accepted(r)
                <5>1. Accepted(r) \in BOOLEAN
                    BY Zenon DEF Accepted
                <5> QED
                    BY <5>1
            <4>2. g = FALSE
                BY <2>7, <4>1
            <4> QED
                BY <2>3, <4>1, <4>2
        <3>3. Stops(t, FALSE, FALSE)
            BY <1>1, <1>2, <1>3, <3>1, FirstRequest DEF OnTrack, FirstIs
        <3> QED
            BY <1>1, <1>4, <1>5, <1>7, <2>1, <3>2, <3>3, AnswerClean
    <2> QED
        BY <2>6, <2>7
<1>9. CASE Refuse(r)
    <2>1. net' = {} /\ work' = work /\ store' = store /\ (Answer(r, FALSE, {}) \/ UNCHANGED inbox)
        BY <1>1, <1>9 DEF Refuse
    <2>2. Stays(c, d.call, d.todo, d.main, d.skipped, d.before, FALSE, FALSE, {}, store)
        BY <1>2, <1>5 DEF StaysAnyway
    <2>3. StaysOnTrack(c, d, FALSE, FALSE, {}, store')
        BY <2>1, <2>2 DEF StaysOnTrack
    <2> QED
        BY <1>1, <1>4, <1>5, <1>7, <2>1, <2>3, AnswerClean
<1>10. CASE RenSame(r)
    <2>1. r.com = "REN" /\ r.to = r.arg.key /\ net' = {} /\ work' = work /\ store' = store /\ Answer(r, TRUE, {})
        BY <1>1, <1>10 DEF RenSame
    <2>2. Renamed(d.call, d.before, store')
        BY <1>1, <1>6, <2>1 DEF Renamed
    <2>3. StaysOnTrack(c, d, FALSE, TRUE, {}, store')
        BY <1>6, <2>1, <2>2
    <2> QED
        BY <1>1, <1>4, <1>5, <1>7, <2>1, <2>3, AnswerClean
<1>11. CASE RenNothing(r)
    <2>1. r.com = "REN" /\ net' = {} /\ work' = work /\ Answer(r, FALSE, {})
        BY <1>1, <1>11 DEF RenNothing
    <2> QED
        BY <1>1, <1>4, <1>5, <1>6, <1>7, <2>1, AnswerClean
<1>12. CASE RenRead(r)
    <2>1. /\ r.com = "REN" /\ inbox' = inbox /\ store' = store
        BY <1>12 DEF RenRead
    <2>2. PICK w : w = [old |-> r.to, new |-> r.arg.key, val |-> store[r.to].val, from |-> r.from, id |-> r.id,
                        com |-> "REN", at |-> "wait"]
        OBVIOUS
    <2>3. PICK a : a = [Nothing EXCEPT !.val = store[r.to].val, !.subs = store[r.to].subs]
        OBVIOUS
    <2>4. PICK s : s = [com |-> "SET_ALL", to |-> r.arg.key, arg |-> a, from |-> r.from, id |-> r.id, n |-> r.n]
        OBVIOUS
    <2>5. a.val = store[r.to].val
        BY <2>3 DEF Nothing
    <2>6. work' = {w} /\ net' = {s}
        BY <1>1, <1>12, <2>2, <2>3, <2>4 DEF RenRead
    <2>7. Moves(c, d.call, w)'
        BY <1>1, <1>6, <2>1, <2>2, <2>6 DEF Moves
    <2>8. s.com = "SET_ALL" /\ Same(s, w) /\ s.to = w.new /\ s.arg.val = store[w.old].val
        BY <2>2, <2>4, <2>5 DEF Same
    <2>9. w.at = "wait" /\ store[w.old].val = d.before[w.old].val
        BY <1>1, <1>6, <2>1, <2>2
    <2>10. RenamingAt(c, w)'
        BY <1>6, <2>1, <2>6, <2>7, <2>8, <2>9 DEF RenamingAt
    <2> QED
        BY <2>6, <2>10 DEF GoesWell
<1>13. ~ServeSetAll(r)
    BY <1>4 DEF ServeSetAll
<1> QED
    BY <1>8, <1>9, <1>10, <1>11, <1>12, <1>13 DEF ServerStep

-----------------------------------------------------------------------------
(* The steps of the renamings.                                             *)

LEMMA WorkerClean ==
    ASSUME ClientInv, ServerInv, CleanInv, NEW c \in Clients, client' = client, overlap' = overlap, Clean(c)',
           NEW w \in work, WorkerStep(w)
    PROVE  GoodCall(c)'
<1> DEFINE d == client[c]
           t == Head(d.todo)
<1>1. Clean(c) /\ GoodCall(c) /\ (GoesWell(c)' => GoodCall(c)')
    BY ServedClean
<1>2. d.at = "wait" /\ (Lost(c) \/ Asked(c) \/ Answered(c) \/ \E x \in work : RenamingAt(c, x))
    BY <1>1, OnlyWhileWaiting DEF GoodCall
<1>3. RenamingAt(c, w)
    <2>1. PICK x \in work : RenamingAt(c, x)
        BY <1>2 DEF Lost, Asked, Answered, NoneAsked
    <2>2. work = {x}
        BY <2>1 DEF RenamingAt, Moves
    <2> QED
        BY <2>1, <2>2
<1>4. /\ work = {w} /\ d.call.op = "ren" /\ d.todo = RenTasks(c, d.call) /\ inbox[c] = <<>>
      /\ w.old = d.call.key /\ w.new = d.call.sub /\ Fits(d.call)
    BY <1>1, <1>3 DEF RenamingAt, Moves, GoodCall
<1>5. /\ w.old \in Keys /\ w.new \in Keys /\ w.old # w.new /\ w.from \in Clients /\ w.com = "REN" /\ w.com \in TaskComs
      /\ store \in [Keys -> Elements]
    BY RenamingIs DEF TaskComs, ServerInv
<1>6. TRUE \in BOOLEAN /\ FALSE \in BOOLEAN /\ {} \in SUBSET Keys
    OBVIOUS
<1>7. /\ t.step.com = "REN" /\ Stops(t, FALSE, FALSE)
      /\ \A s2 : Renamed(d.call, d.before, s2) => StaysOnTrack(c, d, FALSE, TRUE, {}, s2)
    <2>1. PICK q, p : q = d.call /\ p = d.todo
        OBVIOUS
    <2>2. p = RenTasks(c, q) /\ Fits(q) /\ q.op = "ren"
        BY <1>4, <2>1
    <2>3. /\ Head(p).step.com = "REN" /\ Stops(Head(p), FALSE, FALSE)
          /\ \A s2 : Renamed(q, d.before, s2) => Stays(c, q, p, d.main, d.skipped, d.before, FALSE, TRUE, {}, s2)
        BY <2>2, RenTaskIs
    <2> QED
        BY <2>1, <2>3 DEF StaysOnTrack
<1>8. CASE RenFails(w)
    <2>1. /\ work' = {} /\ Answer(w, FALSE, {}) /\ net' \subseteq net
        BY <1>4, <1>8 DEF RenFails
    <2>2. \A r \in net : r.com = "SET_ALL"
        BY <1>3 DEF RenamingAt
    <2>3. NoneAsked'
        BY <2>1, <2>2 DEF NoneAsked
    <2> QED
        BY <1>1, <1>2, <1>4, <1>5, <1>6, <1>7, <2>1, <2>3, AnswerClean
<1>9. CASE RenRemove(w)
    <2>1. /\ w.at = "remove" /\ work' = {} /\ Answer(w, TRUE, {}) /\ net' = net /\ store' = [store EXCEPT ![w.old] = Absent]
        BY <1>4, <1>9 DEF RenRemove
    <2>2. net = {} /\ store[w.new].val = d.before[w.old].val
        BY <1>3, <2>1 DEF RenamingAt
    <2>3. NoneAsked'
        BY <2>1, <2>2 DEF NoneAsked
    <2>4. store'[w.new] = store[w.new] /\ store'[w.old] = Absent
        BY <1>5, <2>1
    <2>5. Renamed(d.call, d.before, store')
        BY <1>4, <2>2, <2>4 DEF Renamed, Absent
    <2>6. net' = {} /\ StaysOnTrack(c, d, FALSE, TRUE, {}, store')
        BY <1>7, <2>1, <2>2, <2>5
    <2> QED
        BY <1>1, <1>2, <1>4, <1>5, <1>6, <1>7, <2>1, <2>3, <2>6, AnswerClean
<1>10. CASE RenKeepsBoth(w)
    <2>1. /\ w.at = "remove" /\ work' = {} /\ Answer(w, FALSE, {}) /\ net' = net
        BY <1>4, <1>10 DEF RenKeepsBoth
    <2>2. NoneAsked'
        BY <1>3, <2>1 DEF RenamingAt, NoneAsked
    <2> QED
        BY <1>1, <1>2, <1>4, <1>5, <1>6, <1>7, <2>1, <2>2, AnswerClean
<1> QED
    BY <1>8, <1>9, <1>10 DEF WorkerStep

-----------------------------------------------------------------------------
(* The invariant, and the theorem.                                         *)

LEMMA ServerClean ==
    ASSUME ClientInv, ServerInv, CleanInv, NEW c \in Clients, client' = client, overlap' = overlap, Clean(c)',
           NEW r \in net, ServerStep(r)
    PROVE  GoodCall(c)'
<1>1. Clean(c) /\ GoodCall(c) /\ (GoesWell(c)' => GoodCall(c)')
    BY ServedClean
<1>2. client[c].at = "wait" /\ (Lost(c) \/ Asked(c) \/ Answered(c) \/ \E w \in work : RenamingAt(c, w))
    BY <1>1, OnlyWhileWaiting DEF GoodCall
<1> QED
    BY <1>1, <1>2, LostClean, AskedClean, AnsweredClean, RenamingClean

LEMMA CleanStep ==
    ASSUME ClientInv, ServerInv, IdInv, CleanInv, [Next]_vars
    PROVE  CleanInv'
<1> SUFFICES ASSUME NEW c \in Clients, Clean(c)' PROVE GoodCall(c)'
    BY DEF CleanInv
<1>1. ASSUME NEW x \in Clients, ClientStep(x) PROVE GoodCall(c)'
    BY <1>1, ClientStepClean
<1>2. ASSUME NEW x \in Clients, NEW q \in Offers(x), Begin(x, q) PROVE GoodCall(c)'
    BY <1>2, BeginClean
<1>3. ASSUME NEW r \in net, ServerStep(r) PROVE GoodCall(c)'
    <2>1. client' = client /\ overlap' = overlap
        BY <1>3 DEF ServerStep, Serve, Refuse, RenSame, RenNothing, RenRead, ServeSetAll, history
    <2> QED
        BY <1>3, <2>1, ServerClean
<1>4. ASSUME NEW w \in work, WorkerStep(w) PROVE GoodCall(c)'
    <2>1. client' = client /\ overlap' = overlap
        BY <1>4 DEF WorkerStep, RenFails, RenRemove, RenKeepsBoth, history
    <2> QED
        BY <1>4, <2>1, WorkerClean
<1>5. CASE UNCHANGED vars
    <2>1. client' = client /\ overlap' = overlap /\ store' = store /\ net' = net /\ work' = work /\ inbox' = inbox
        BY <1>5 DEF vars
    <2>2. GoodCall(c)
        BY <2>1 DEF CleanInv, Clean, Busy
    <2> QED
        BY <2>1, <2>2 DEF GoodCall, Alone, Busy, GoesWell, NoneServed, OnTrack, Lost, NoneAsked, Asked, Answered,
                          StaysOnTrack, RenamingAt, Moves
<1> QED
    BY <1>1, <1>2, <1>3, <1>4, <1>5 DEF Next

LEMMA CleanInvariant == Spec => []CleanInv
<1>1. Init => CleanInv
    <2> SUFFICES ASSUME Init, NEW c \in Clients PROVE ~Busy(c)
        BY DEF CleanInv, Clean
    <2> QED
        BY DEF Init, Rest, Busy
<1>2. RenameInv /\ CleanInv /\ [Next]_vars => CleanInv'
    BY CleanStep DEF RenameInv
<1> QED
    BY <1>1, <1>2, RenameInvariant, PTL DEF Spec

\* A call that sees no error and no timeout, with nobody else at work, has done all
\* it means to do when it returns: the requests of the call have reached their
\* keys in the order in which CommandSend of src/lib/k2hdkccom{addsubkey,
\* delsubkey,del,ren}.cc makes them, and nothing undoes them.
THEOREM SuccessIsCompleteHolds == Spec => SuccessIsComplete
<1>1. ClientInv /\ CleanInv /\ [Next]_vars =>
         [\A c \in Clients :
            Return(c) /\ Succeeded(client[c]) /\ ~client[c].late /\ c \notin overlap => Complete(c, client[c])]_vars
    <2> SUFFICES ASSUME ClientInv, CleanInv, NEW c \in Clients, Return(c), Succeeded(client[c]), ~client[c].late,
                        c \notin overlap
                 PROVE  Complete(c, client[c])
        OBVIOUS
    <2>1. client[c].at = "end" /\ client[c].ok /\ client[c].main
        BY DEF Return, Succeeded
    <2>2. GoodCall(c)
        BY <2>1 DEF CleanInv, Clean, Busy
    <2>3. client[c].todo = <<>> /\ OnTrack(c, client[c], store) /\ Fits(client[c].call)
        BY <2>1, <2>2 DEF GoodCall, GoesWell
    <2> QED
        BY <2>1, <2>3, EndIsComplete
<1>2. Spec => [](ClientInv /\ CleanInv)
    BY RenameInvariant, CleanInvariant, PTL DEF RenameInv
<1> QED
    BY <1>1, <1>2, PTL DEF Spec, SuccessIsComplete

-----------------------------------------------------------------------------
(* What an ADD_SUBKEY leaves, whatever fails and whatever it meets.        *)

\* Clients store values and add subkeys; nobody deletes or renames.
OnlyAdds == \A c \in Clients : \A q \in Offers(c) : q.op \in {"set", "addsub"}

HasValue(k) == store[k].val # None
NamesHaveValues == \A k \in Keys : \A s \in store[k].subs : HasValue(s)

\* While the request for the value k is awaited no other of the call is under
\* way, and a good answer means that it was served.
Stores(c, k) ==
    /\ \A r \in net : Own(r, c) => r.com = "SET" /\ r.to = k
    /\ \A i \in 1 .. Len(inbox[c]) : inbox[c][i].good => HasValue(k)

\* The value goes first: what is left of a call that has stored it is the list.
Listing(c, q, todo) ==
    q.op = "addsub" /\ HasValue(q.sub) /\ (todo = Tail(AddSubkeyTasks(c, q)) \/ todo = <<>>)
ValueFirst(c, q, todo) ==
    \/ q.op = "set" /\ (todo = SetTasks(c, q) \/ todo = <<>>)
    \/ q.op = "addsub" /\ todo = AddSubkeyTasks(c, q) /\ Stores(c, q.sub)
    \/ Listing(c, q, todo)

CallAdds(c) ==
    /\ Fits(client[c].call)
    /\ IF client[c].ok THEN ValueFirst(c, client[c].call, client[c].todo) ELSE client[c].at = "end"
Brings(r) ==
    \/ r.com = "SET" /\ r.arg.val # None
    \/ r.com = "ADD_SUBKEYS" /\ HasValue(r.arg.key)
AddInv ==
    /\ NamesHaveValues /\ work = {} /\ \A r \in net : Brings(r)
    /\ \A c \in Clients : Busy(c) => CallAdds(c)

\* The requests of the two calls, and what follows each.
Halts(t) == Stops(t, TRUE, FALSE) /\ Stops(t, FALSE, FALSE)
AddTasksAre(c, q, p) ==
    /\ p \in Seq(Tasks) /\ p # <<>> /\ Tail(p) \in Seq(Tasks) /\ Tail(p) # <<>>
    /\ Head(p).step.com = "SET" /\ Head(p).to = q.sub /\ Head(p).arg.val = c /\ Halts(Head(p))
    /\ Head(Tail(p)).step.com = "ADD_SUBKEYS" /\ Head(Tail(p)).arg.key = q.sub /\ Halts(Head(Tail(p)))
    /\ \A failed \in BOOLEAN : \A l, safe :
          Remaining(p, failed, l, safe) = Tail(p) /\ Remaining(Tail(p), failed, l, safe) = <<>>
LEMMA AddTasks ==
    ASSUME NEW c \in Clients, NEW q, Fits(q), q.op = "addsub"
    PROVE  AddTasksAre(c, q, AddSubkeyTasks(c, q))
<1>1. PICK t, u : t = Task(AddSubkeySteps[1], q.sub, Value(c)) /\ u = Task(AddSubkeySteps[2], q.key, Name(q.sub))
    OBVIOUS
<1>2. Of(t, "SET", "stop", "stop", FALSE, q.sub, Value(c)) /\ Of(u, "ADD_SUBKEYS", "stop", "stop", FALSE, q.key, Name(q.sub))
    BY <1>1, StepValues, TaskParts
<1>3. PICK p, v : p = AddSubkeyTasks(c, q) /\ v = <<u>>
    OBVIOUS
<1>4. p = <<t, u>>
    BY <1>1, <1>3 DEF AddSubkeyTasks
<1>5. Head(p) = t /\ Tail(p) = v /\ Head(v) = u /\ Tail(v) = <<>> /\ v # <<>>
    BY <1>3, <1>4, OneTask, TwoTasks
<1>6. p \in Seq(Tasks) /\ p # <<>>
    BY <1>3, TasksOfCall DEF TasksOf, Begins
<1>7. v \in Seq(Tasks)
    BY <1>5, <1>6
<1>8. Halts(t) /\ Halts(u)
    BY <1>2 DEF Halts, Stops, Of
<1>9. \A failed \in BOOLEAN : \A l, safe : Remaining(p, failed, l, safe) = v /\ Remaining(v, failed, l, safe) = <<>>
    BY <1>2, <1>5, <1>6, <1>7, NextIsTail DEF Of
<1>10. /\ t.step.com = "SET" /\ t.to = q.sub /\ t.arg.val = c
       /\ u.step.com = "ADD_SUBKEYS" /\ u.arg.key = q.sub
    BY <1>2, ValueIs DEF Of
<1>11. AddTasksAre(c, q, p)
    BY <1>5, <1>6, <1>7, <1>8, <1>9, <1>10 DEF AddTasksAre
<1> QED
    BY <1>3, <1>11

SetTaskIs(c, p) ==
    /\ p # <<>> /\ Head(p).step.com = "SET" /\ Head(p).arg.val = c /\ Stops(Head(p), TRUE, FALSE)
    /\ \A failed \in BOOLEAN : \A l, safe : Remaining(p, failed, l, safe) = <<>>
LEMMA SetTask ==
    ASSUME NEW c \in Clients, NEW q, Fits(q), q.op = "set"
    PROVE  SetTaskIs(c, SetTasks(c, q))
<1>1. PICK t : t = Task(One("SET")[1], q.key, Value(c))
    OBVIOUS
<1>2. Of(t, "SET", "stop", "ignore", TRUE, q.key, Value(c))
    BY <1>1, StepValues, TaskParts
<1>3. PICK p : p = SetTasks(c, q)
    OBVIOUS
<1>4. p = <<t>>
    BY <1>1, <1>3 DEF SetTasks
<1>5. Head(p) = t /\ Tail(p) = <<>>
    BY <1>4, OneTask
<1>6. p \in Seq(Tasks) /\ p # <<>>
    BY <1>3, TasksOfCall DEF TasksOf, Begins
<1>7. \A failed \in BOOLEAN : \A l, safe : Remaining(p, failed, l, safe) = <<>>
    BY <1>2, <1>5, <1>6, NextIsTail DEF Of
<1>8. Stops(t, TRUE, FALSE)
    BY <1>2 DEF Stops, Of
<1>9. t.step.com = "SET" /\ t.arg.val = c
    BY <1>2, ValueIs DEF Of
<1>10. SetTaskIs(c, p)
    BY <1>5, <1>6, <1>7, <1>8, <1>9 DEF SetTaskIs
<1> QED
    BY <1>3, <1>10

\* A request of a call is done with.
LEMMA AddGoesOn ==
    ASSUME NEW c \in Clients, NEW d, d.todo # <<>>, d.ok, Fits(d.call),
           NEW failed \in BOOLEAN, NEW good \in BOOLEAN, failed => ~good, NEW l, NEW safe,
           Goes(c, d, failed, good, l, safe),
           ValueFirst(c, d.call, d.todo),
           good /\ d.call.op = "addsub" => HasValue(d.call.sub)
    PROVE  LET e == client'[c] IN
           IF e.ok THEN (d.call.op = "set" /\ e.todo = <<>>) \/ Listing(c, d.call, e.todo) ELSE e.at = "end"
<1> DEFINE e == client'[c]
           q == d.call
<1>1. CASE Stops(Head(d.todo), failed, good)
    BY <1>1 DEF Goes
<1>2. CASE ~Stops(Head(d.todo), failed, good)
    <2>1. e.ok = d.ok /\ e.todo = Remaining(d.todo, failed, l, safe)
        BY <1>2 DEF Goes
    <2>2. CASE q.op = "set"
        <3>1. PICK p : p = SetTasks(c, q)
            OBVIOUS
        <3>2. SetTaskIs(c, p) /\ d.todo = p
            BY <2>2, <3>1, SetTask DEF ValueFirst, Listing
        <3>3. e.todo = <<>>
            BY <2>1, <3>2 DEF SetTaskIs
        <3> QED
            BY <2>1, <2>2, <3>3
    <2>3. CASE q.op = "addsub"
        <3>1. PICK p : p = AddSubkeyTasks(c, q)
            OBVIOUS
        <3>2. AddTasksAre(c, q, p)
            BY <2>3, <3>1, AddTasks
        <3>3. d.todo = p \/ d.todo = Tail(p)
            BY <2>3, <3>1 DEF ValueFirst, Listing
        <3>4. Halts(Head(d.todo)) /\ (e.todo = Tail(p) \/ e.todo = <<>>)
            BY <2>1, <3>2, <3>3 DEF AddTasksAre
        <3>5. good
            BY <1>2, <3>4 DEF Halts, Stops
        <3> QED
            BY <2>1, <2>3, <3>1, <3>4, <3>5 DEF Listing
    <2> QED
        BY <2>2, <2>3 DEF ValueFirst, Listing
<1> QED
    BY <1>1, <1>2

\* Values stay.
ValuesStay == \A k \in Keys : HasValue(k) => HasValue(k)'

\* One more response of a call, or none; a good one to SET means that the value
\* is there.
RespondsTo(c, r) ==
    \/ inbox'[c] = inbox[c]
    \/ /\ Own(r, c)
       /\ \E a : inbox'[c] = Append(inbox[c], a) /\ (a.good /\ r.com = "SET" => HasValue(r.to)')

\* A call goes on as it was while others take a step or its request is served.
LEMMA CallStays ==
    ASSUME ServerInv, NEW c \in Clients, CallAdds(c), client'[c] = client[c], left'[c] = left[c], ValuesStay,
           \A r \in net' : Own(r, c) => r \in net,
           inbox'[c] = inbox[c] \/ \E r \in net : RespondsTo(c, r)
    PROVE  CallAdds(c)'
<1> DEFINE q == client[c].call
           todo == client[c].todo
<1>1. Fits(client'[c].call)
    BY DEF CallAdds
<1>2. ASSUME client[c].ok, Fits(q), ValueFirst(c, q, todo) PROVE ValueFirst(c, q, todo)'
    <2>1. CASE q.op = "set" /\ (todo = SetTasks(c, q) \/ todo = <<>>)
        BY <2>1 DEF ValueFirst
    <2>2. CASE q.op = "addsub" /\ todo = AddSubkeyTasks(c, q) /\ Stores(c, q.sub)
        <3>1. PICK k \in Keys : k = q.sub
            BY <1>2, <2>2 DEF Fits
        <3>2. \A r \in net : Own(r, c) => r.com = "SET" /\ r.to = k
            BY <2>2, <3>1 DEF Stores
        <3>3. \A r \in net' : Own(r, c)' => r.com = "SET" /\ r.to = k
            BY <3>2 DEF Own
        <3>4. \A i \in 1 .. Len(inbox[c]) : inbox[c][i].good => HasValue(k)'
            BY <2>2, <3>1 DEF Stores, ValuesStay
        <3>5. \A i \in 1 .. Len(inbox'[c]) : inbox'[c][i].good => HasValue(k)'
            <4>1. CASE inbox'[c] = inbox[c]
                BY <3>4, <4>1
            <4>2. ASSUME NEW r \in net, RespondsTo(c, r), inbox'[c] # inbox[c]
                  PROVE  \A i \in 1 .. Len(inbox'[c]) : inbox'[c][i].good => HasValue(k)'
                <5>1. PICK a : inbox'[c] = Append(inbox[c], a) /\ (a.good /\ r.com = "SET" => HasValue(r.to)')
                    BY <4>2 DEF RespondsTo
                <5>2. r.com = "SET" /\ r.to = k
                    BY <3>2, <4>2 DEF RespondsTo
                <5>3. a.good => HasValue(k)'
                    BY <5>1, <5>2
                <5>4. PICK s \in Seq(Responses) : s = inbox[c]
                    <6>1. inbox[c] \in Seq(Responses)
                        BY DEF ServerInv
                    <6> QED
                        BY <6>1
                <5>5. /\ Len(Append(s, a)) = Len(s) + 1 /\ Len(s) \in Nat
                      /\ \A i \in 1 .. Len(s) + 1 : Append(s, a)[i] = IF i <= Len(s) THEN s[i] ELSE a
                    OBVIOUS
                <5> QED
                    BY <3>4, <5>1, <5>3, <5>4, <5>5
            <4> QED
                BY <4>1, <4>2
        <3>6. Stores(c, k)'
            BY <3>3, <3>5 DEF Stores
        <3> QED
            BY <2>2, <3>1, <3>6 DEF ValueFirst
    <2>3. CASE Listing(c, q, todo)
        <3>1. q.sub \in Keys
            BY <1>2, <2>3 DEF Fits, Listing
        <3> QED
            BY <2>3, <3>1 DEF ValueFirst, Listing, ValuesStay
    <2> QED
        BY <1>2, <2>1, <2>2, <2>3 DEF ValueFirst
<1> QED
    BY <1>1, <1>2 DEF CallAdds

\* The calls of the others, when a client takes a step.
LEMMA OthersAdd ==
    ASSUME ServerInv, AddInv, NEW x \in Clients, \A c \in Clients : c # x => client'[c] = client[c] /\ left'[c] = left[c] /\ inbox'[c] = inbox[c],
           store' = store, \A r \in net' : r \in net \/ r.from = x
    PROVE  /\ NamesHaveValues' /\ ValuesStay
           /\ \A c \in Clients : c # x /\ Busy(c)' => CallAdds(c)'
<1>1. NamesHaveValues' /\ ValuesStay
    BY DEF AddInv, NamesHaveValues, HasValue, ValuesStay
<1>2. ASSUME NEW c \in Clients, c # x, Busy(c)' PROVE CallAdds(c)'
    <2>1. CallAdds(c)
        BY <1>2 DEF AddInv, Busy
    <2>2. \A r \in net' : Own(r, c) => r \in net
        BY <1>2 DEF Own
    <2> QED
        BY <1>1, <1>2, <2>1, <2>2, CallStays
<1> QED
    BY <1>1, <1>2

LEMMA BeginAdds ==
    ASSUME OnlyAdds, ClientInv, ServerInv, IdInv, AddInv, NEW x \in Clients, NEW q \in Offers(x), Begin(x, q)
    PROVE  AddInv'
<1>1. PICK e : e = [at |-> "send", call |-> q, todo |-> TasksOf(x, q), sent |-> 0,
                    main |-> TRUE, ok |-> TRUE, late |-> FALSE, skipped |-> FALSE, before |-> store]
    OBVIOUS
<1>2. client' = [client EXCEPT ![x] = e] /\ ~Busy(x)
    BY <1>1 DEF Begin
<1>3. client'[x] = e /\ \A y \in Clients : y # x => client'[y] = client[y]
    BY <1>2, ClientChanges
<1>4. e.call = q /\ e.todo = TasksOf(x, q) /\ e.ok
    BY <1>1
<1>5. store' = store /\ net' = net /\ inbox' = inbox /\ left' = left /\ work' = work
    BY DEF Begin
<1>6. Fits(q) /\ q.op \in {"set", "addsub"}
    BY CompositeAssumption DEF Fits, OnlyAdds
<1>7. \A r \in net : ~Own(r, x)
    <2> SUFFICES ASSUME NEW r \in net, Own(r, x) PROVE FALSE
        OBVIOUS
    <2>1. r \in net \cup work /\ r.from = x /\ r.id = left[x] /\ left[x] \in Nat
        BY DEF Own, ClientInv
    <2>2. r.id > left[x] \/ Busy(x)
        BY <2>1 DEF IdInv
    <2> QED
        BY <1>2, <2>1, <2>2
<1>8. inbox[x] = <<>>
    BY <1>2 DEF IdInv
<1>9. q.op = "addsub" => Stores(x, q.sub)'
    BY <1>5, <1>7, <1>8 DEF Stores, Own
<1>10. ValueFirst(x, q, TasksOf(x, q))'
    BY <1>6, <1>9 DEF ValueFirst, TasksOf
<1>11. CallAdds(x)'
    BY <1>3, <1>4, <1>6, <1>10 DEF CallAdds
<1>12. NamesHaveValues' /\ \A c \in Clients : c # x /\ Busy(c)' => CallAdds(c)'
    BY <1>3, <1>5, OthersAdd
<1> QED
    BY <1>5, <1>11, <1>12 DEF AddInv, Brings, HasValue

LEMMA SendAdds ==
    ASSUME OnlyAdds, ClientInv, ServerInv, AddInv, NEW x \in Clients, Send(x)
    PROVE  AddInv'
<1>1. /\ client[x].at = "send" /\ InCall(client[x])
      /\ \A y \in Clients : y # x => client'[y] = client[y]
    BY SendIs
<1>2. PICK e : e = [client[x] EXCEPT !.at = "wait", !.sent = @ + 1]
    OBVIOUS
<1>3. client'[x] = e
    BY <1>2 DEF Send, ClientInv
<1>4. e.call = client[x].call /\ e.todo = client[x].todo /\ e.ok = client[x].ok
    BY <1>1, <1>2 DEF InCall
<1>5. store' = store /\ inbox' = inbox /\ left' = left /\ work' = work
    BY DEF Send
<1>6. PICK r : r = [com |-> Now(x).step.com, to |-> Now(x).to, arg |-> Now(x).arg,
                    from |-> x, id |-> left[x], n |-> client[x].sent]
    OBVIOUS
<1>7. net' = net \cup {r} /\ r.from = x
    BY <1>6 DEF Send
<1>8. CallAdds(x) /\ client[x].todo # <<>>
    BY <1>1 DEF AddInv, InCall, Busy
<1>0. PICK q, todo : q = client[x].call /\ todo = client[x].todo
    OBVIOUS
<1>9. client[x].ok /\ Fits(q) /\ ValueFirst(x, q, todo) /\ todo # <<>>
    BY <1>0, <1>1, <1>8 DEF CallAdds
<1>10. r.com = Head(todo).step.com /\ r.to = Head(todo).to /\ r.arg = Head(todo).arg
    BY <1>0, <1>6 DEF Now
<1>11. x # None
    BY CompositeAssumption
<1>12. Brings(r) /\ ValueFirst(x, q, todo)'
    <2>1. CASE q.op = "set"
        <3>1. PICK p : p = SetTasks(x, q)
            OBVIOUS
        <3>2. SetTaskIs(x, p) /\ todo = p
            BY <1>9, <2>1, <3>1, SetTask DEF ValueFirst, Listing
        <3>3. Brings(r)
            BY <1>10, <1>11, <3>2 DEF Brings, SetTaskIs
        <3> QED
            BY <2>1, <3>1, <3>2, <3>3 DEF ValueFirst
    <2>2. CASE q.op = "addsub" /\ todo = AddSubkeyTasks(x, q) /\ Stores(x, q.sub)
        <3>1. PICK p : p = AddSubkeyTasks(x, q)
            OBVIOUS
        <3>2. AddTasksAre(x, q, p)
            BY <1>9, <2>2, <3>1, AddTasks
        <3>3. r.com = "SET" /\ r.to = q.sub /\ r.arg.val = x
            BY <1>10, <2>2, <3>1, <3>2 DEF AddTasksAre
        <3>4. Stores(x, q.sub)'
            BY <1>5, <1>7, <2>2, <3>3 DEF Stores, Own, HasValue
        <3> QED
            BY <1>11, <2>2, <3>3, <3>4 DEF ValueFirst, Brings
    <2>3. CASE Listing(x, q, todo)
        <3>1. PICK p : p = AddSubkeyTasks(x, q)
            OBVIOUS
        <3>2. AddTasksAre(x, q, p)
            BY <1>9, <2>3, <3>1, AddTasks DEF Listing
        <3>3. todo = Tail(p) /\ HasValue(q.sub)
            BY <1>9, <2>3, <3>1 DEF Listing
        <3>4. r.com = "ADD_SUBKEYS" /\ r.arg.key = q.sub
            BY <1>10, <3>2, <3>3 DEF AddTasksAre
        <3> QED
            BY <1>5, <2>3, <3>3, <3>4 DEF ValueFirst, Listing, Brings, HasValue
    <2> QED
        BY <1>9, <2>1, <2>2, <2>3 DEF ValueFirst, Listing
<1>13. CallAdds(x)'
    BY <1>0, <1>3, <1>4, <1>9, <1>12 DEF CallAdds
<1>14. NamesHaveValues' /\ \A c \in Clients : c # x /\ Busy(c)' => CallAdds(c)'
    BY <1>1, <1>5, <1>7, OthersAdd
<1> QED
    BY <1>5, <1>7, <1>12, <1>13, <1>14 DEF AddInv, Brings, HasValue

\* A client has done with a request of the call d.
LEMMA DoneAdds ==
    ASSUME ServerInv, AddInv, NEW x \in Clients, Busy(x), client[x].at # "end",
           NEW d, d.call = client[x].call, d.todo = client[x].todo, d.ok = client[x].ok, d.todo # <<>>,
           NEW failed \in BOOLEAN, NEW good \in BOOLEAN, failed => ~good, NEW l, NEW safe,
           Goes(x, d, failed, good, l, safe),
           good => \E i \in 1 .. Len(inbox[x]) : inbox[x][i].good,
           store' = store, net' = net, left' = left, work' = work,
           \A c \in Clients : c # x => inbox'[c] = inbox[c]
    PROVE  AddInv'
<1>1. d.ok /\ Fits(d.call) /\ ValueFirst(x, d.call, d.todo)
    BY DEF AddInv, CallAdds
<1>2. good /\ d.call.op = "addsub" => HasValue(d.call.sub)
    BY <1>1 DEF ValueFirst, Stores, Listing
<1> DEFINE e == client'[x]
<1>3. IF e.ok THEN (d.call.op = "set" /\ e.todo = <<>>) \/ Listing(x, d.call, e.todo) ELSE e.at = "end"
    BY <1>1, <1>2, AddGoesOn
<1>4. e.call = d.call /\ \A c \in Clients : c # x => client'[c] = client[c]
    BY DEF Goes
<1>5. CallAdds(x)'
    BY <1>1, <1>3, <1>4 DEF CallAdds, ValueFirst, Listing, HasValue
<1>6. NamesHaveValues' /\ \A c \in Clients : c # x /\ Busy(c)' => CallAdds(c)'
    BY <1>4, OthersAdd
<1> QED
    BY <1>5, <1>6 DEF AddInv, Brings, HasValue

LEMMA SendFailsAdds ==
    ASSUME ClientInv, ServerInv, AddInv, NEW x \in Clients, SendFails(x)
    PROVE  AddInv'
<1>1. client[x].at = "send" /\ Busy(x) /\ UNCHANGED <<store, left, net, inbox, work>>
    BY DEF SendFails, Busy
<1>2. InCall(client[x]) /\ client[x].todo # <<>>
    BY <1>1, CalledIs DEF InCall
<1>3. PICK safe \in AllSafe : Proceed(x, client[x], TRUE, FALSE, {}, safe)
    BY DEF SendFails
<1>4. Goes(x, client[x], TRUE, FALSE, {}, safe)
    BY <1>2, <1>3, ProceedIs
<1> QED
    BY <1>1, <1>2, <1>4, DoneAdds

LEMMA TimeOutAdds ==
    ASSUME ClientInv, ServerInv, AddInv, NEW x \in Clients, TimeOut(x)
    PROVE  AddInv'
<1>1. client[x].at = "wait" /\ Busy(x) /\ UNCHANGED <<store, left, net, inbox, work>>
    BY DEF TimeOut, Busy
<1>2. InCall(client[x]) /\ client[x].todo # <<>>
    BY <1>1, CalledIs DEF InCall
<1>3. PICK d : d = [client[x] EXCEPT !.late = TRUE]
    OBVIOUS
<1>4. /\ DOMAIN d = DOMAIN client[x] /\ d.at = client[x].at /\ d.todo = client[x].todo /\ d.sent = client[x].sent
      /\ d.call = client[x].call /\ d.ok = client[x].ok
    BY <1>2, <1>3 DEF InCall
<1>5. InCall(d)
    BY <1>2, <1>4 DEF InCall
<1>6. PICK safe \in AllSafe : Proceed(x, d, TRUE, FALSE, {}, safe)
    BY <1>3 DEF TimeOut
<1>7. Goes(x, d, TRUE, FALSE, {}, safe)
    BY <1>5, <1>6, ProceedIs
<1> QED
    BY <1>1, <1>2, <1>4, <1>7, DoneAdds

LEMMA ReceiveAdds ==
    ASSUME ClientInv, ServerInv, AddInv, NEW x \in Clients, Receive(x)
    PROVE  AddInv'
<1> DEFINE a == Head(inbox[x])
           wrong == Now(x).step.com = "GET_SUBKEYS" /\ a.com # "GET_SUBKEYS"
<1>1. /\ client[x].at = "wait" /\ Busy(x) /\ UNCHANGED <<store, left, net, work>>
      /\ inbox[x] # <<>> /\ inbox' = [inbox EXCEPT ![x] = Tail(@)]
    BY DEF Receive, Busy
<1>2. InCall(client[x]) /\ client[x].todo # <<>>
    BY <1>1, CalledIs DEF InCall
<1>3. PICK safe \in AllSafe : Proceed(x, client[x], wrong, ~wrong /\ a.good, IF wrong THEN {} ELSE a.list, safe)
    BY DEF Receive
<1>4. PICK failed, good, list : failed = wrong /\ good = (~wrong /\ a.good) /\ list = IF wrong THEN {} ELSE a.list
    OBVIOUS
<1>5. Goes(x, client[x], failed, good, list, safe)
    BY <1>2, <1>3, <1>4, ProceedIs
<1>6. inbox \in [Clients -> Seq(Responses)]
    BY DEF ServerInv
<1>7. PICK s \in Seq(Responses) : s = inbox[x]
    <2>1. inbox[x] \in Seq(Responses)
        BY <1>6
    <2> QED
        BY <2>1
<1>8. 1 \in 1 .. Len(inbox[x]) /\ inbox[x][1] = a /\ a \in Responses
    BY <1>1, <1>7
<1>9. a.good \in BOOLEAN
    BY <1>8 DEF Responses
<1> HIDE DEF wrong
<1>10. failed \in BOOLEAN
    <2>1. wrong \in BOOLEAN
        BY DEF wrong
    <2> QED
        BY <1>4, <2>1
<1>11. good \in BOOLEAN
    BY <1>4, <1>9
<1>12. (failed => ~good) /\ (good => a.good)
    BY <1>4
<1>13. good => \E i \in 1 .. Len(inbox[x]) : inbox[x][i].good
    BY <1>8, <1>12
<1>14. \A c \in Clients : c # x => inbox'[c] = inbox[c]
    BY <1>1, <1>6
<1> QED
    BY <1>1, <1>2, <1>5, <1>10, <1>11, <1>12, <1>13, <1>14, DoneAdds

LEMMA ReturnAdds ==
    ASSUME ClientInv, ServerInv, AddInv, NEW x \in Clients, Return(x)
    PROVE  AddInv'
<1>1. /\ client'[x] = Rest
      /\ \A c \in Clients : c # x => client'[c] = client[c] /\ left'[c] = left[c]
    BY ReturnIs
<1>2. UNCHANGED <<store, net, work>> /\ \A c \in Clients : c # x => inbox'[c] = inbox[c]
    BY DEF Return, ServerInv
<1>3. NamesHaveValues' /\ \A c \in Clients : c # x /\ Busy(c)' => CallAdds(c)'
    BY <1>1, <1>2, OthersAdd
<1>4. ~Busy(x)'
    BY <1>1 DEF Busy, Rest
<1> QED
    BY <1>2, <1>3, <1>4 DEF AddInv, Brings, HasValue

\* A server answers, or not, and a good answer to SET means that the value is there.
LEMMA AnswerAdds ==
    ASSUME ServerInv, NEW r \in net, NEW good, NEW l, Answer(r, good, l) \/ UNCHANGED inbox,
           good /\ r.com = "SET" => HasValue(r.to)', NEW c \in Clients
    PROVE  inbox'[c] = inbox[c] \/ RespondsTo(c, r)
<1>1. PICK a : a = [com |-> r.com, good |-> good, list |-> l]
    OBVIOUS
<1>2. a.good = good
    BY <1>1
<1>3. CASE Answer(r, good, l) /\ Current(r)
    <2>1. inbox' = [inbox EXCEPT ![r.from] = Append(@, a)]
        BY <1>1, <1>3 DEF Answer
    <2>2. CASE c = r.from
        <3>1. inbox'[c] = Append(inbox[c], a)
            BY <2>1, <2>2 DEF ServerInv
        <3>2. Own(r, c)
            BY <1>3, <2>2 DEF Current, Own
        <3>3. a.good /\ r.com = "SET" => HasValue(r.to)'
            BY <1>2
        <3> QED
            BY <3>1, <3>2, <3>3 DEF RespondsTo
    <2>3. CASE c # r.from
        BY <2>1, <2>3 DEF ServerInv
    <2> QED
        BY <2>2, <2>3
<1>4. CASE UNCHANGED inbox \/ ~Current(r)
    BY <1>4 DEF Answer
<1> QED
    BY <1>3, <1>4

\* The calls, when a request is served.
LEMMA ServedAdds ==
    ASSUME ServerInv, AddInv, NEW r \in net, client' = client, left' = left, work' = work, net' = net \ {r},
           NamesHaveValues', ValuesStay,
           NEW good, NEW l, Answer(r, good, l) \/ UNCHANGED inbox, good /\ r.com = "SET" => HasValue(r.to)'
    PROVE  AddInv'
<1>1. ASSUME NEW c \in Clients, Busy(c)' PROVE CallAdds(c)'
    <2>1. CallAdds(c)
        BY <1>1 DEF AddInv, Busy
    <2>2. inbox'[c] = inbox[c] \/ RespondsTo(c, r)
        BY AnswerAdds
    <2> QED
        BY <2>1, <2>2, CallStays
<1>2. ASSUME NEW s \in net' PROVE Brings(s)'
    <2>1. s \in net /\ Brings(s)
        BY <1>2 DEF AddInv
    <2>2. CASE s.com = "ADD_SUBKEYS"
        <3>1. s.arg.key \in Keys
            BY <2>1, <2>2, RequestIs DEF NamesKey
        <3> QED
            BY <2>1, <2>2, <3>1 DEF Brings, ValuesStay
    <2> QED
        BY <2>1, <2>2 DEF Brings
<1> QED
    BY <1>1, <1>2 DEF AddInv

\* Lists only grow, by the key that a request brings.
LEMMA ListsGrow ==
    ASSUME ServerInv, AddInv, NEW r \in net, Serve(r)
    PROVE  \A k \in Keys :
              /\ store[k].subs \subseteq store'[k].subs
              /\ store'[k].subs \subseteq store[k].subs \cup (IF r.com = "ADD_SUBKEYS" THEN {r.arg.key} ELSE {})
<1>1. Brings(r) /\ r.com # "REN"
    BY DEF AddInv, Serve
<1>2. store' = After(r) /\ r.to \in Keys /\ store \in [Keys -> Elements]
    BY RequestIs DEF Serve, ServerInv
<1>3. \A k \in Keys : k # r.to => store'[k] = store[k]
    BY <1>1, <1>2, AfterIs
<1>4. /\ store[r.to].subs \subseteq store'[r.to].subs
      /\ store'[r.to].subs \subseteq store[r.to].subs \cup (IF r.com = "ADD_SUBKEYS" THEN {r.arg.key} ELSE {})
    <2>1. PICK d : d = store[r.to] /\ DOMAIN d = {"val", "subs"}
        <3>1. store[r.to] \in Elements
            BY <1>2
        <3>2. DOMAIN store[r.to] = {"val", "subs"}
            BY <3>1 DEF Elements
        <3> QED
            BY <3>2
    <2>2. CASE r.com = "SET"
        <3>1. PICK e : e = [d EXCEPT !.val = r.arg.val]
            OBVIOUS
        <3>2. store' = [store EXCEPT ![r.to] = e]
            BY <1>2, <2>1, <2>2, <3>1 DEF After, Put
        <3>3. e.subs = d.subs
            BY <2>1, <3>1
        <3> QED
            BY <1>2, <2>1, <3>2, <3>3
    <2>3. CASE r.com = "ADD_SUBKEYS"
        <3>1. PICK e : e = [d EXCEPT !.subs = @ \cup {r.arg.key}]
            OBVIOUS
        <3>2. store' = [store EXCEPT ![r.to] = e]
            BY <1>2, <2>1, <2>3, <3>1 DEF After
        <3>3. e.subs = d.subs \cup {r.arg.key}
            BY <2>1, <3>1
        <3> QED
            BY <1>2, <2>1, <2>3, <3>2, <3>3
    <2> QED
        BY <1>1, <2>2, <2>3 DEF Brings
<1> QED
    BY <1>3, <1>4

LEMMA ServeAdds ==
    ASSUME ClientInv, ServerInv, AddInv, NEW r \in net, Serve(r)
    PROVE  AddInv'
<1>1. Brings(r) /\ r.com # "REN"
    BY DEF AddInv, Serve
<1>2. /\ store' = After(r) /\ net' = net \ {r} /\ UNCHANGED <<client, left, work>>
      /\ r.to \in Keys /\ store \in [Keys -> Elements]
    BY RequestIs DEF Serve, ServerInv
<1>3. /\ \A k \in Keys : k # r.to => store'[k] = store[k]
      /\ store'[r.to].val = IF r.com = "SET" THEN r.arg.val ELSE store[r.to].val
    BY <1>1, <1>2, AfterIs DEF Brings
<1>4. \A k \in Keys : store'[k].subs \subseteq store[k].subs \cup (IF r.com = "ADD_SUBKEYS" THEN {r.arg.key} ELSE {})
    BY ListsGrow
<1>5. ValuesStay
    BY <1>1, <1>2, <1>3 DEF ValuesStay, HasValue, Brings
<1>6. NamesHaveValues'
    <2> SUFFICES ASSUME NEW k \in Keys, NEW s \in store'[k].subs PROVE HasValue(s)'
        BY DEF NamesHaveValues
    <2>1. ASSUME s \in store[k].subs PROVE HasValue(s)'
        <3>1. HasValue(s) /\ s \in Keys
            BY <1>2, <2>1 DEF AddInv, NamesHaveValues, Elements
        <3> QED
            BY <1>5, <3>1 DEF ValuesStay
    <2>2. ASSUME s \notin store[k].subs PROVE HasValue(s)'
        <3>1. r.com = "ADD_SUBKEYS" /\ s = r.arg.key
            BY <1>4, <2>2
        <3>2. HasValue(s) /\ s \in Keys
            BY <1>1, <3>1, RequestIs DEF Brings, NamesKey
        <3> QED
            BY <1>5, <3>2 DEF ValuesStay
    <2> QED
        BY <2>1, <2>2
<1>7. r.com = "SET" => HasValue(r.to)'
    BY <1>1, <1>3 DEF HasValue, Brings
<1>8. PICK good, l : Answer(r, good, l) \/ UNCHANGED inbox
    BY DEF Serve
<1> QED
    BY <1>2, <1>5, <1>6, <1>7, <1>8, ServedAdds

LEMMA RefuseAdds ==
    ASSUME ClientInv, ServerInv, AddInv, NEW r \in net, Refuse(r)
    PROVE  AddInv'
<1>1. UNCHANGED <<store, client, left, work>> /\ net' = net \ {r} /\ (Answer(r, FALSE, {}) \/ UNCHANGED inbox)
    BY DEF Refuse
<1>2. NamesHaveValues' /\ ValuesStay
    BY <1>1 DEF AddInv, NamesHaveValues, HasValue, ValuesStay
<1> QED
    BY <1>1, <1>2, ServedAdds

\* There is nothing to rename.
LEMMA AddsServe ==
    ASSUME AddInv, NEW r \in net, ServerStep(r)
    PROVE  Serve(r) \/ Refuse(r)
<1>1. Brings(r)
    BY DEF AddInv
<1> QED
    BY <1>1 DEF Brings, ServerStep, RenSame, RenNothing, RenRead, ServeSetAll

LEMMA AddStep ==
    ASSUME OnlyAdds, ClientInv, ServerInv, IdInv, AddInv, [Next]_vars
    PROVE  AddInv'
<1>1. ASSUME NEW x \in Clients, ClientStep(x) PROVE AddInv'
    BY <1>1, SendAdds, SendFailsAdds, TimeOutAdds, ReceiveAdds, ReturnAdds DEF ClientStep
<1>2. ASSUME NEW x \in Clients, NEW q \in Offers(x), Begin(x, q) PROVE AddInv'
    BY <1>2, BeginAdds
<1>3. ASSUME NEW r \in net, ServerStep(r) PROVE AddInv'
    BY <1>3, AddsServe, ServeAdds, RefuseAdds
<1>4. CASE UNCHANGED vars
    <2>1. UNCHANGED <<store, client, left, net, inbox, work>>
        BY <1>4 DEF vars
    <2> QED
        BY <2>1 DEF AddInv, NamesHaveValues, HasValue, Brings, Busy, CallAdds, ValueFirst, Stores, Own, Listing
<1> QED
    BY <1>1, <1>2, <1>3, <1>4 DEF Next, AddInv

LEMMA AddInit == Init /\ NamesHaveValues => AddInv
<1> SUFFICES ASSUME Init, NamesHaveValues PROVE AddInv
    OBVIOUS
<1>1. work = {} /\ net = {}
    BY DEF Init
<1>2. \A c \in Clients : ~Busy(c)
    BY DEF Init, Rest, Busy
<1> QED
    BY <1>1, <1>2 DEF AddInv

LEMMA AddInvariant == ASSUME OnlyAdds PROVE Spec /\ NamesHaveValues => []AddInv
<1>1. RenameInv /\ AddInv /\ [Next]_vars => AddInv'
    BY AddStep DEF RenameInv
<1> QED
    BY <1>1, AddInit, RenameInvariant, PTL DEF Spec

\* ADD_SUBKEY stores the value of the subkey before it names the subkey in the list
\* (K2hdkcComAddSubkey::CommandSend, src/lib/k2hdkccomaddsubkey.cc): however many
\* clients store values and add subkeys, whatever fails, is lost or served late, no
\* list ever names a key without a value, not even for a moment, if none does at
\* first.
THEOREM NamesHaveValuesHolds == OnlyAdds /\ Spec /\ NamesHaveValues => []NamesHaveValues
<1>1. ASSUME OnlyAdds PROVE Spec /\ NamesHaveValues => []AddInv
    BY <1>1, AddInvariant
<1>2. AddInv => NamesHaveValues
    BY DEF AddInv
<1>3. ASSUME OnlyAdds PROVE Spec /\ NamesHaveValues => []NamesHaveValues
    BY <1>1, <1>2, <1>3, PTL
<1> QED
    BY <1>3

-----------------------------------------------------------------------------
(* And which values are in no list.                                        *)

\* A call is under way that may still name k, or is none to be without a flaw.
Owed(k) ==
    flaws # {} \/ \E c \in Clients : Busy(c) /\ (client[c].call.op = "set" \/ client[c].call.sub = k)
Nowhere(k) == \A p \in Keys : k \notin store[p].subs
OwedInv ==
    /\ \A r \in net : r.com = "SET" => Owed(r.to)
    /\ \A s \in Keys \ Roots : HasValue(s) /\ Nowhere(s) => Owed(s)

CallsGoOn == \A c \in Clients : Busy(c) => Busy(c)' /\ client'[c].call = client[c].call

LEMMA StillOwed ==
    ASSUME CallsGoOn, flaws \subseteq flaws', NEW k, Owed(k)
    PROVE  Owed(k)'
BY DEF CallsGoOn, Owed

LEMMA CallsGo ==
    ASSUME ClientInv, ServerInv, NEW x \in Clients,
           Send(x) \/ SendFails(x) \/ TimeOut(x) \/ Receive(x) \/ \E q \in Offers(x) : Begin(x, q)
    PROVE  CallsGoOn /\ store' = store /\ flaws' = flaws
<1>1. store' = store /\ flaws' = flaws
    BY DEF Send, SendFails, TimeOut, Receive, Begin, history
<1>2. CASE \E q \in Offers(x) : Begin(x, q)
    <2>1. ~Busy(x) /\ \A y \in Clients : y # x => client'[y] = client[y]
        BY <1>2, BeginIs
    <2> QED
        BY <1>1, <2>1 DEF CallsGoOn, Busy
<1>3. CASE Send(x)
    <2>1. /\ InCall(client[x])
          /\ \A y \in Clients : y # x => client'[y] = client[y]
        BY <1>3, SendIs
    <2>2. PICK e : e = [client[x] EXCEPT !.at = "wait", !.sent = @ + 1]
        OBVIOUS
    <2>3. client'[x] = e
        BY <1>3, <2>2 DEF Send, ClientInv
    <2>4. e.call = client[x].call /\ e.at = "wait"
        BY <2>1, <2>2 DEF InCall
    <2> QED
        BY <1>1, <2>1, <2>3, <2>4 DEF CallsGoOn, Busy
<1>4. CASE SendFails(x) \/ TimeOut(x) \/ Receive(x)
    <2>1. Busy(x)
        BY <1>4 DEF SendFails, TimeOut, Receive, Busy
    <2>2. InCall(client[x])
        BY <2>1, CalledIs
    <2>3. PICK d : d = [client[x] EXCEPT !.late = TRUE]
        OBVIOUS
    <2>4. /\ DOMAIN d = DOMAIN client[x] /\ d.at = client[x].at /\ d.todo = client[x].todo /\ d.sent = client[x].sent
          /\ d.call = client[x].call
        BY <2>2, <2>3 DEF InCall
    <2>5. InCall(d)
        BY <2>2, <2>4 DEF InCall
    <2>6. \E f, failed, good, l, safe : (f = d \/ f = client[x]) /\ Proceed(x, f, failed, good, l, safe)
        BY <1>4, <2>3 DEF SendFails, TimeOut, Receive
    <2>7. PICK f, failed, good, l, safe : (f = d \/ f = client[x]) /\ Proceed(x, f, failed, good, l, safe)
        BY <2>6
    <2>8. InCall(f) /\ f.call = client[x].call
        BY <2>2, <2>4, <2>5, <2>7
    <2>9. Goes(x, f, failed, good, l, safe)
        BY <2>7, <2>8, ProceedIs
    <2> QED
        BY <1>1, <2>8, <2>9 DEF CallsGoOn, Busy, Goes
<1> QED
    BY <1>2, <1>3, <1>4

\* A call that returns without a flaw has stored its value and named its key.
LEMMA ReturnOwes ==
    ASSUME ClientInv, ServerInv, CleanInv, AddInv, OwedInv, NEW x \in Clients, Return(x)
    PROVE  OwedInv'
<1>1. /\ Busy(x) /\ client[x].at = "end" /\ \A c \in Clients : c # x => client'[c] = client[c]
      /\ UNCHANGED <<store, net>>
      /\ flaws' = flaws \cup (IF Flawless(client[x]) THEN {} ELSE {client[x].call.op})
                        \cup (IF x \in overlap THEN {"overlap"} ELSE {})
    BY ReturnIs DEF Return
<1>2. CASE Flawless(client[x]) /\ x \notin overlap
    <2>1. Clean(x) /\ client[x].main
        BY <1>1, <1>2 DEF Flawless, Succeeded, Clean
    <2>2. GoodCall(x)
        BY <2>1 DEF CleanInv
    <2>3. /\ net = {} /\ client[x].todo = <<>> /\ OnTrack(x, client[x], store) /\ Fits(client[x].call)
        BY <1>1, <2>2 DEF GoodCall, GoesWell, NoneServed
    <2>4. Complete(x, client[x])
        BY <2>1, <2>3, EndIsComplete
    <2>5. CallAdds(x) /\ client[x].ok /\ client[x].call.op # "set"
        BY <1>1, <1>2 DEF AddInv, Flawless, Succeeded
    <2>6. client[x].call.op = "addsub"
        BY <2>5 DEF CallAdds, ValueFirst, Listing
    <2>7. client[x].call.sub \in store[client[x].call.key].subs /\ client[x].call.key \in Keys
        BY <2>3, <2>4, <2>6 DEF Complete, Fits
    <2>8. ASSUME NEW s \in Keys \ Roots, HasValue(s)', Nowhere(s)' PROVE Owed(s)'
        <3>1. HasValue(s) /\ Nowhere(s)
            BY <1>1, <2>8 DEF HasValue, Nowhere
        <3>2. Owed(s) /\ client[x].call.sub # s
            BY <2>7, <3>1 DEF OwedInv, Nowhere
        <3> QED
            BY <1>1, <2>6, <3>2 DEF Owed, Busy
    <2> QED
        BY <1>1, <2>3, <2>8 DEF OwedInv
<1>3. CASE ~(Flawless(client[x]) /\ x \notin overlap)
    <2>1. flaws' # {}
        BY <1>1, <1>3
    <2> QED
        BY <2>1 DEF OwedInv, Owed
<1> QED
    BY <1>2, <1>3

\* The value that a request brings is owed a list.
LEMMA SendOwes ==
    ASSUME ClientInv, ServerInv, AddInv, NEW x \in Clients, Send(x), Now(x).step.com = "SET"
    PROVE  Owed(Now(x).to)
<1>1. client[x].at = "send" /\ InCall(client[x])
    BY SendIs
<1>2. CallAdds(x) /\ Busy(x) /\ client[x].todo # <<>>
    BY <1>1 DEF AddInv, InCall, Busy
<1>3. PICK q, todo : q = client[x].call /\ todo = client[x].todo
    OBVIOUS
<1>4. Fits(q) /\ ValueFirst(x, q, todo) /\ todo # <<>>
    BY <1>1, <1>2, <1>3 DEF CallAdds
<1>5. CASE q.op = "set"
    BY <1>2, <1>3, <1>5 DEF Owed
<1>6. CASE q.op = "addsub"
    <2>1. PICK p : p = AddSubkeyTasks(x, q)
        OBVIOUS
    <2>2. AddTasksAre(x, q, p)
        BY <1>4, <1>6, <2>1, AddTasks
    <2>3. todo = p \/ todo = Tail(p)
        BY <1>4, <1>6, <2>1 DEF ValueFirst, Listing
    <2>4. Head(todo).to = q.sub
        BY <1>3, <2>2, <2>3 DEF Now, AddTasksAre
    <2> QED
        BY <1>2, <1>3, <2>4 DEF Owed, Now
<1> QED
    BY <1>4, <1>5, <1>6 DEF ValueFirst, Listing

LEMMA ClientOwes ==
    ASSUME ClientInv, ServerInv, AddInv, OwedInv, NEW x \in Clients,
           Send(x) \/ SendFails(x) \/ TimeOut(x) \/ Receive(x) \/ \E q \in Offers(x) : Begin(x, q)
    PROVE  OwedInv'
<1>1. CallsGoOn /\ store' = store /\ flaws' = flaws
    BY CallsGo
<1>2. \A k : Owed(k) => Owed(k)'
    BY <1>1, StillOwed
<1>3. ASSUME NEW r \in net', r.com = "SET" PROVE Owed(r.to)
    <2>1. CASE r \in net
        BY <1>3, <2>1 DEF OwedInv
    <2>2. CASE r \notin net
        <3>1. Send(x)
            BY <2>2 DEF Send, SendFails, TimeOut, Receive, Begin
        <3>2. r.com = Now(x).step.com /\ r.to = Now(x).to
            BY <2>2, <3>1 DEF Send
        <3> QED
            BY <1>3, <3>1, <3>2, SendOwes
    <2> QED
        BY <2>1, <2>2
<1> QED
    BY <1>1, <1>2, <1>3 DEF OwedInv, HasValue, Nowhere

\* Lists only grow, and a value comes from a request.
LEMMA ServeOwes ==
    ASSUME ClientInv, ServerInv, AddInv, OwedInv, NEW r \in net, Serve(r) \/ Refuse(r)
    PROVE  OwedInv'
<1>1. UNCHANGED <<client, flaws>> /\ net' = net \ {r}
    BY DEF Serve, Refuse, history
<1>2. \A k : Owed(k) => Owed(k)'
    BY <1>1 DEF Owed, Busy
<1>3. ASSUME NEW s \in Keys \ Roots, HasValue(s)', Nowhere(s)' PROVE Owed(s)
    <2>1. CASE Refuse(r)
        BY <1>3, <2>1 DEF Refuse, OwedInv, HasValue, Nowhere
    <2>2. CASE Serve(r)
        <3>1. Brings(r) /\ r.com # "REN" /\ store' = After(r) /\ r.to \in Keys /\ store \in [Keys -> Elements]
            BY <2>2, RequestIs DEF AddInv, Serve, ServerInv
        <3>2. CASE r.com = "SET" /\ s = r.to
            BY <3>2 DEF OwedInv
        <3>3. CASE ~(r.com = "SET" /\ s = r.to)
            <4>1. HasValue(s)
                BY <1>3, <3>1, <3>3, AfterIs DEF HasValue, Brings
            <4>2. Nowhere(s)
                BY <1>3, <2>2, ListsGrow DEF Nowhere
            <4> QED
                BY <4>1, <4>2 DEF OwedInv
        <3> QED
            BY <3>2, <3>3
    <2> QED
        BY <2>1, <2>2
<1> QED
    BY <1>1, <1>2, <1>3 DEF OwedInv

LEMMA OwedStep ==
    ASSUME ClientInv, ServerInv, CleanInv, AddInv, OwedInv, [Next]_vars
    PROVE  OwedInv'
<1>1. ASSUME NEW x \in Clients, ClientStep(x) \/ \E q \in Offers(x) : Begin(x, q) PROVE OwedInv'
    BY <1>1, ClientOwes, ReturnOwes DEF ClientStep
<1>2. ASSUME NEW r \in net, ServerStep(r) PROVE OwedInv'
    BY <1>2, AddsServe, ServeOwes
<1>3. CASE UNCHANGED vars
    BY <1>3 DEF vars, OwedInv, Owed, Busy, HasValue, Nowhere
<1> QED
    BY <1>1, <1>2, <1>3 DEF Next, AddInv

\* While clients only store values and add subkeys, values and lists match whenever
\* nobody is at work (if they do at first): a value is in no list only if some call
\* has failed, has met another, or was a SET.
THEOREM ListsMatchAdding == OnlyAdds /\ Spec /\ NamesHaveValues /\ ListsMatch => []ListsMatch
<1>1. Init /\ ListsMatch => OwedInv
    <2> SUFFICES ASSUME Init, ListsMatch PROVE OwedInv
        OBVIOUS
    <2>1. work = {} /\ net = {}
        BY DEF Init
    <2>2. \A c \in Clients : ~Busy(c)
        BY DEF Init, Rest, Busy
    <2> QED
        BY <2>1, <2>2 DEF OwedInv, ListsMatch, Quiet, Owed, HasValue, Nowhere
<1>2. RenameInv /\ CleanInv /\ AddInv /\ OwedInv /\ [Next]_vars => OwedInv'
    BY OwedStep DEF RenameInv
<1>3. AddInv /\ OwedInv => ListsMatch
    BY DEF AddInv, NamesHaveValues, HasValue, OwedInv, Owed, Nowhere, ListsMatch, Quiet
<1>4. ASSUME OnlyAdds PROVE Spec /\ NamesHaveValues /\ ListsMatch => []ListsMatch
    <2>1. Spec /\ NamesHaveValues => []AddInv
        BY <1>4, AddInvariant
    <2> QED
        BY <1>1, <1>2, <1>3, <2>1, RenameInvariant, CleanInvariant, PTL DEF Spec
<1> QED
    BY <1>4
=============================================================================
