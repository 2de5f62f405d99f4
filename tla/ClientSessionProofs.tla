------------------------- MODULE ClientSessionProofs -------------------------
(***************************************************************************)
(* Proofs about ClientSession, for any number of threads, calls and        *)
(* message ids and any choice of functions.                                *)
(***************************************************************************)
EXTENDS ClientSession, SequenceTheorems, TLAPS

Rules == {"stop", "ignore"}
Coms == {"GET", "GET_DIRECT", "GET_SUBKEYS", "GET_ATTRS", "SET", "SET_DIRECT", "SET_SUBKEYS", "SET_ALL",
         "ADD_SUBKEYS", "DEL", "DEL_SUBKEYS", "REN", "QPUSH", "QPOP", "CAS_INIT", "CAS_GET", "CAS_SET",
         "CAS_INCDEC", "K2HSTATE"}
Steps == [com : Coms, onFail : Rules, onError : Rules, main : BOOLEAN]

\* What the proofs need to know of a function: its own request, if it has one,
\* is the only one, and where its failure stops the call so does an error,
\* unless the response code tells of it.
Sound(F) ==
    /\ F.steps \in Seq(Steps) /\ Len(F.steps) > 0
    /\ F.tests \in BOOLEAN /\ F.frees \in BOOLEAN
    /\ \A i, j \in DOMAIN F.steps : F.steps[i].main /\ F.steps[j].main => i = j
    /\ \A i \in DOMAIN F.steps :
           F.steps[i].onFail = "stop" =>
              F.steps[i].onError = "stop" \/ (F.code = "response" /\ F.steps[i].main)
    /\ F.code = "response" => \E i \in DOMAIN F.steps : F.steps[i].main /\ F.steps[i].onFail = "stop"

LEMMA SoundOne ==
    ASSUME NEW com \in Coms, NEW tests \in BOOLEAN, NEW frees \in BOOLEAN
    PROVE  Sound(Family(One(com), "response", tests, frees))
BY DEF Sound, Family, One, Step, Steps, Rules

\* Of several requests none is the function's own,
LEMMA SoundTwo ==
    ASSUME NEW a \in Steps, NEW b \in Steps, ~a.main, ~b.main,
           a.onFail = "stop" => a.onError = "stop", b.onFail = "stop" => b.onError = "stop",
           NEW cd, cd # "response"
    PROVE  Sound(Family(<<a, b>>, cd, TRUE, TRUE))
BY DEF Sound, Family

\* or one is.
LEMMA SoundThree ==
    ASSUME NEW w \in Seq(Steps), Len(w) = 3,
           \A i \in 1 .. 3 : w[i].onFail = "stop" => w[i].onError = "stop" \/ w[i].main,
           \E j \in 1 .. 3 : w[j].main /\ w[j].onFail = "stop" /\ \A i \in 1 .. 3 : w[i].main => i = j
    PROVE  Sound(Family(w, "response", TRUE, TRUE))
<1>1. DOMAIN w = 1 .. 3
    OBVIOUS
<1> QED
    BY <1>1 DEF Sound, Family

LEMMA SoundFamilies ==
    /\ Sound(Family(AddSubkeySteps, "made_up", TRUE, TRUE))
    /\ Sound(Family(DelSubkeySteps, "made_up", TRUE, TRUE))
    /\ Sound(Family(QDelSteps(2), "made_up", TRUE, TRUE))
    /\ Sound(Family(StateSteps(2), "made_up_on_failure", TRUE, TRUE))
    /\ Sound(Family(RenSteps(TRUE), "response", TRUE, TRUE))
    /\ Sound(Family(DelSteps(TRUE, FALSE), "response", TRUE, TRUE))
<1>1. Sound(Family(AddSubkeySteps, "made_up", TRUE, TRUE))
    <2> DEFINE a == Step("SET", "stop", "stop", FALSE)
               b == Step("ADD_SUBKEYS", "stop", "stop", FALSE)
    <2>1. a \in Steps /\ ~a.main /\ a.onError = "stop" /\ b \in Steps /\ ~b.main /\ b.onError = "stop"
        BY DEF Step, Steps, Coms, Rules
    <2>2. AddSubkeySteps = <<a, b>>
        BY DEF AddSubkeySteps
    <2> HIDE DEF a, b
    <2> QED
        BY <2>1, <2>2, SoundTwo
<1>2. Sound(Family(DelSubkeySteps, "made_up", TRUE, TRUE))
    <2> DEFINE a == Step("DEL", "ignore", "ignore", FALSE)
               b == Step("DEL_SUBKEYS", "stop", "stop", FALSE)
    <2>1. /\ a \in Steps /\ ~a.main /\ a.onFail = "ignore"
          /\ b \in Steps /\ ~b.main /\ b.onError = "stop"
        BY DEF Step, Steps, Coms, Rules
    <2>2. DelSubkeySteps = <<a, b>>
        BY DEF DelSubkeySteps
    <2> HIDE DEF a, b
    <2> QED
        BY <2>1, <2>2, SoundTwo
<1>3. Sound(Family(QDelSteps(2), "made_up", TRUE, TRUE))
    <2> DEFINE a == Step("QPOP", "stop", "stop", FALSE)
    <2>1. a \in Steps /\ ~a.main /\ a.onError = "stop"
        BY DEF Step, Steps, Coms, Rules
    <2>2. QDelSteps(2) = [i \in 1 .. 2 |-> a]
        BY DEF QDelSteps
    <2> HIDE DEF a
    <2>3. QDelSteps(2) = <<a, a>>
        BY <2>2
    <2> QED
        BY <2>1, <2>3, SoundTwo
<1>4. Sound(Family(StateSteps(2), "made_up_on_failure", TRUE, TRUE))
    <2> DEFINE a == Step("K2HSTATE", "ignore", "ignore", FALSE)
    <2>1. a \in Steps /\ ~a.main /\ a.onFail = "ignore"
        BY DEF Step, Steps, Coms, Rules
    <2>2. StateSteps(2) = [i \in 1 .. 2 |-> a]
        BY DEF StateSteps
    <2> HIDE DEF a
    <2>3. StateSteps(2) = <<a, a>>
        BY <2>2
    <2> QED
        BY <2>1, <2>3, SoundTwo
<1>5. Sound(Family(RenSteps(TRUE), "response", TRUE, TRUE))
    <2> DEFINE a == Step("REN", "stop", "stop", TRUE)
               b == Step("DEL_SUBKEYS", "stop", "stop", FALSE)
               c == Step("ADD_SUBKEYS", "stop", "stop", FALSE)
               w == RenSteps(TRUE)
    <2>1. /\ a \in Steps /\ a.main /\ a.onError = "stop" /\ a.onFail = "stop"
          /\ b \in Steps /\ ~b.main /\ b.onError = "stop"
          /\ c \in Steps /\ ~c.main /\ c.onError = "stop"
        BY DEF Step, Steps, Coms, Rules
    <2>2. w = <<a, b, c>>
        BY DEF RenSteps
    <2> HIDE DEF a, b, c, w
    <2>3. w \in Seq(Steps) /\ Len(w) = 3 /\ w[1] = a /\ w[2] = b /\ w[3] = c
        BY <2>1, <2>2
    <2>4. Sound(Family(w, "response", TRUE, TRUE))
        <3>1. \A i \in 1 .. 3 : w[i].onFail = "stop" => w[i].onError = "stop" \/ w[i].main
            BY <2>1, <2>3
        <3>2. w[1].main /\ w[1].onFail = "stop" /\ \A i \in 1 .. 3 : w[i].main => i = 1
            BY <2>1, <2>3
        <3>3. \E j \in 1 .. 3 : w[j].main /\ w[j].onFail = "stop" /\ \A i \in 1 .. 3 : w[i].main => i = j
            BY <3>2
        <3> QED
            BY <2>3, <3>1, <3>3, SoundThree
    <2> QED
        BY <2>4 DEF w
<1>6. Sound(Family(DelSteps(TRUE, FALSE), "response", TRUE, TRUE))
    <2> DEFINE a == Step("GET_SUBKEYS", "ignore", "ignore", FALSE)
               b == Step("DEL", "stop", "ignore", TRUE)
               c == Step("SET", "ignore", "ignore", FALSE)
               w == DelSteps(TRUE, FALSE)
    <2>1. /\ a \in Steps /\ ~a.main /\ a.onFail = "ignore"
          /\ b \in Steps /\ b.main /\ b.onFail = "stop"
          /\ c \in Steps /\ ~c.main /\ c.onFail = "ignore"
        BY DEF Step, Steps, Coms, Rules
    <2>2. w = (<<a>> \o <<b>>) \o <<c>>
        BY DEF DelSteps
    <2> HIDE DEF a, b, c, w
    <2>3. <<a>> \in Seq(Steps) /\ <<b>> \in Seq(Steps) /\ <<c>> \in Seq(Steps)
        BY <2>1
    <2>4. /\ <<a>> \o <<b>> \in Seq(Steps) /\ Len(<<a>> \o <<b>>) = 2
          /\ (<<a>> \o <<b>>)[1] = a /\ (<<a>> \o <<b>>)[2] = b
        BY <2>3, ConcatProperties
    <2> DEFINE v == <<a>> \o <<b>>
    <2> HIDE DEF v
    <2>5. v \in Seq(Steps) /\ Len(v) = 2 /\ v[1] = a /\ v[2] = b /\ w = v \o <<c>>
        BY <2>2, <2>4 DEF v
    <2>6. /\ w \in Seq(Steps) /\ Len(w) = 3
          /\ \A i \in 1 .. 3 : w[i] = IF i <= 2 THEN v[i] ELSE <<c>>[i - 2]
        <3>1. /\ v \o <<c>> \in Seq(Steps) /\ Len(v \o <<c>>) = Len(v) + Len(<<c>>)
              /\ \A i \in 1 .. Len(v) + Len(<<c>>) :
                     (v \o <<c>>)[i] = IF i <= Len(v) THEN v[i] ELSE <<c>>[i - Len(v)]
            BY <2>3, <2>5, ConcatProperties
        <3>2. Len(v) = 2 /\ Len(<<c>>) = 1 /\ w = v \o <<c>>
            BY <2>5
        <3> QED
            BY <3>1, <3>2
    <2>7. w[1] = a /\ w[2] = b /\ w[3] = c
        BY <2>5, <2>6
    <2>8. Sound(Family(w, "response", TRUE, TRUE))
        <3>1. \A i \in 1 .. 3 : w[i].onFail = "stop" => w[i].onError = "stop" \/ w[i].main
            BY <2>1, <2>7
        <3>2. w[2].main /\ w[2].onFail = "stop" /\ \A i \in 1 .. 3 : w[i].main => i = 2
            BY <2>1, <2>7
        <3>3. \E j \in 1 .. 3 : w[j].main /\ w[j].onFail = "stop" /\ \A i \in 1 .. 3 : w[i].main => i = j
            BY <3>2
        <3> QED
            BY <2>6, <3>1, <3>3, SoundThree
    <2> QED
        BY <2>8 DEF w
<1> QED
    BY <1>1, <1>2, <1>3, <1>4, <1>5, <1>6

LEMMA FunctionsSound == \A f \in DOMAIN Functions : Sound(Functions[f])
<1> DEFINE S(com) == Sound(Simple(com)) /\ Sound(Family(One(com), "response", TRUE, FALSE))
                     /\ Sound(Family(One(com), "response", FALSE, TRUE))
<1>1. \A com \in Coms : S(com)
    BY SoundOne DEF Simple
<1>2. /\ S("GET") /\ S("GET_DIRECT") /\ S("GET_SUBKEYS") /\ S("GET_ATTRS") /\ S("SET") /\ S("SET_DIRECT")
      /\ S("SET_SUBKEYS") /\ S("SET_ALL") /\ S("QPUSH") /\ S("QPOP") /\ S("CAS_INIT") /\ S("CAS_GET")
      /\ S("CAS_SET") /\ S("CAS_INCDEC")
    BY <1>1 DEF Coms
<1>3. /\ Sound(GetState) /\ Sound(GetValue) /\ Sound(GetDirect) /\ Sound(GetSubkeys) /\ Sound(GetAttrs)
      /\ Sound(SetValue) /\ Sound(SetDirect) /\ Sound(SetSubkeys) /\ Sound(SetSubkey) /\ Sound(SetAll)
      /\ Sound(Remove) /\ Sound(RemoveSubkey) /\ Sound(Rename) /\ Sound(QPush) /\ Sound(QPop)
      /\ Sound(QRemove) /\ Sound(CasInit) /\ Sound(CasGet) /\ Sound(CasSet) /\ Sound(CasIncDec)
    BY <1>2, SoundFamilies DEF GetState, GetValue, GetDirect,
        GetSubkeys, GetAttrs, SetValue, SetDirect, SetSubkeys, SetSubkey, SetAll, Remove, RemoveSubkey, Rename,
        QPush, QPop, QRemove, CasInit, CasGet, CasSet, CasIncDec
<1> QED
    BY <1>3 DEF Functions

\* The functions that differ from the others.
LEMMA FunctionCodes ==
    ASSUME NEW f \in DOMAIN Functions
    PROVE  /\ Functions[f].code = "made_up_on_failure" => f = "get_state"
           /\ ~Functions[f].frees => f = "get_subkeys"
           /\ f = "get_state" => DOMAIN Functions[f].steps = 1 .. 2 /\ Functions[f].code # "response"
BY DEF Functions, Family, GetState, GetValue, GetDirect, StateSteps, Simple,
    GetSubkeys, GetAttrs, SetValue, SetDirect, SetSubkeys, SetSubkey, SetAll, Remove, RemoveSubkey, Rename,
    QPush, QPop, QRemove, CasInit, CasGet, CasSet, CasIncDec
-----------------------------------------------------------------------------
\* Requests, responses, calls and results.
Kinds == UNION {ReceiveObject[com].answers : com \in Coms}
RequestRec == [call : Nat, step : Nat, com : Coms, msgid : 1 .. MaxMsgids]
Answers == [id : RequestRec, com : Coms, kind : Kinds]
CallRec == [id : 1 .. MaxCalls, f : DOMAIN Functions, pm : BOOLEAN, msgid : 1 .. MaxMsgids, step : Nat,
            at : {"send", "wait", "end"}, main : Answers \cup {None}, some : BOOLEAN, ok : BOOLEAN]
ResultRec == [id : 1 .. MaxCalls, f : DOMAIN Functions, pm : BOOLEAN, msgid : 0 .. MaxMsgids,
              ok : BOOLEAN, good : BOOLEAN]

Shape ==
    /\ handle \in [Threads -> 0 .. MaxMsgids]
    /\ code \in [Threads -> [call : 0 .. MaxCalls, good : BOOLEAN]]
    /\ call \in [Threads -> CallRec \cup {Idle}]
    /\ result \in [Threads -> ResultRec \cup {Idle}]
    /\ count \in 0 .. MaxCalls
    /\ opened \in Seq(DOMAIN Functions \cup {"handle"}) /\ Len(opened) <= MaxMsgids
    /\ open \subseteq 1 .. Len(opened) /\ late \subseteq 1 .. Len(opened) /\ alien \subseteq 1 .. Len(opened)
    /\ net \subseteq RequestRec
    /\ inbox \in [1 .. MaxMsgids -> Seq(Answers)]
    /\ served \subseteq [call : Nat, step : Nat]

InCall(t) == call[t].id # 0
IdInv ==
    /\ \A t \in Threads : call[t].id <= count /\ result[t].id <= count /\ code[t].call <= count
    /\ \A t, u \in Threads : t # u /\ InCall(t) => call[t].id # call[u].id
    /\ \A t, u \in Threads : InCall(t) => call[t].id # result[u].id
    /\ \A t, u \in Threads : t # u /\ result[t].id # 0 => result[t].id # result[u].id

MsgidInv ==
    /\ \A t \in Threads : handle[t] # 0 => handle[t] \in open
    /\ \A t \in Threads : InCall(t) => /\ call[t].step \in DOMAIN StepsOf(call[t])
                                       /\ call[t].msgid \in open
                                       /\ call[t].pm <=> call[t].msgid = handle[t]
                                       /\ ~call[t].pm => opened[call[t].msgid] = call[t].f
    /\ \A t, u \in Threads : t # u /\ handle[t] # 0 => handle[t] # handle[u]
    /\ \A t, u \in Threads : t # u /\ InCall(t) => call[t].msgid # handle[u]
    /\ \A t, u \in Threads : t # u /\ InCall(t) /\ InCall(u) => call[t].msgid # call[u].msgid

Waits(t, r) == InCall(t) /\ call[t].at = "wait" /\ r = RequestId(call[t])
ServedStep(id, i) == [call |-> id, step |-> i] \in served
AwaitedAnswer(a, m) ==
    /\ a.com = a.id.com /\ a.id.msgid = m
    /\ Good(a) => ServedStep(a.id.call, a.id.step)
    /\ \E t \in Threads : Waits(t, a.id)
WireInv ==
    /\ \A r \in net : r.msgid \notin late =>
          inbox[r.msgid] = <<>> /\ \E t \in Threads : Waits(t, r)
    /\ \A m \in (1 .. MaxMsgids) \ late :
          Len(inbox[m]) <= 1 /\ (inbox[m] # <<>> => AwaitedAnswer(Head(inbox[m]), m))

Passed(c, i) == i < c.step \/ (c.at = "end" /\ c.ok /\ i = c.step)
MainInv(c) ==
    \A i \in DOMAIN StepsOf(c) :
        Passed(c, i) /\ StepsOf(c)[i].onFail = "stop" /\ StepsOf(c)[i].main => c.main # None
ServedInv(c) ==
    /\ \A i \in DOMAIN StepsOf(c) :
           Passed(c, i) /\ StepsOf(c)[i].onFail = "stop" =>
              ServedStep(c.id, i) \/ (StepsOf(c)[i].main /\ Functions[c.f].code = "response" /\ ~Good(c.main))
    /\ c.f = "get_state" /\ c.some => \E i \in 1 .. 2 : ServedStep(c.id, i)
EndInv(c) == c.at = "end" /\ c.ok => c.step = Len(StepsOf(c))
CallInv(t) ==
    /\ MainInv(call[t]) /\ EndInv(call[t])
    /\ call[t].msgid \notin late => ServedInv(call[t])
    /\ call[t].pm /\ call[t].main # None => code[t] = [call |-> call[t].id, good |-> Good(call[t].main)]
CallsInv == \A t \in Threads : InCall(t) => CallInv(t)

SessionInv ==
    /\ Shape /\ crashed \in BOOLEAN /\ IdInv /\ MsgidInv /\ WireInv /\ CallsInv
    /\ AlienOnlyAfterTimeout /\ TrueMeansServed /\ CodeIsOwn
-----------------------------------------------------------------------------
LEMMA InitSession == Init => SessionInv
<1> SUFFICES ASSUME Init PROVE SessionInv
    OBVIOUS
<1> USE BoundsAssumption DEF Init, Idle
<1>1. Shape
    <2>1. NoCode \in [call : 0 .. MaxCalls, good : BOOLEAN]
        BY DEF NoCode
    <2>2. opened \in Seq(DOMAIN Functions \cup {"handle"}) /\ Len(opened) <= MaxMsgids
        OBVIOUS
    <2>3. inbox \in [1 .. MaxMsgids -> Seq(Answers)]
        OBVIOUS
    <2>4. open \subseteq 1 .. Len(opened) /\ late \subseteq 1 .. Len(opened) /\ alien \subseteq 1 .. Len(opened)
        OBVIOUS
    <2>5. code \in [Threads -> [call : 0 .. MaxCalls, good : BOOLEAN]]
        BY <2>1
    <2>6. /\ handle \in [Threads -> 0 .. MaxMsgids] /\ count \in 0 .. MaxCalls
          /\ call \in [Threads -> CallRec \cup {Idle}] /\ result \in [Threads -> ResultRec \cup {Idle}]
          /\ net \subseteq RequestRec /\ served \subseteq [call : Nat, step : Nat]
        OBVIOUS
    <2> QED
        BY <2>2, <2>3, <2>4, <2>5, <2>6 DEF Shape
<1>2. IdInv /\ MsgidInv
    BY DEF IdInv, MsgidInv, NoCode, InCall
<1>3. WireInv /\ CallsInv
    BY DEF WireInv, CallsInv, InCall
<1>4. AlienOnlyAfterTimeout /\ TrueMeansServed /\ CodeIsOwn
    BY DEF AlienOnlyAfterTimeout, TrueMeansServed, CodeIsOwn
<1>5. crashed \in BOOLEAN
    OBVIOUS
<1> QED
    BY <1>1, <1>2, <1>3, <1>4, <1>5 DEF SessionInv

\* What is left of a call c that goes on to the next request or stops.
Moved(c, d) ==
    /\ d \in CallRec /\ d.step \in DOMAIN StepsOf(c) /\ d.at # "wait"
    /\ d.id = c.id /\ d.f = c.f /\ d.pm = c.pm /\ d.msgid = c.msgid
    /\ d.at = "end" /\ d.ok => d.step = Len(StepsOf(c))

LEMMA AdvanceMoves ==
    ASSUME NEW c \in CallRec, c.step \in DOMAIN StepsOf(c)
    PROVE  /\ Moved(c, Advance(c)) /\ Advance(c).main = c.main /\ Advance(c).some = c.some
           /\ \A i \in DOMAIN StepsOf(c) : Passed(Advance(c), i) => i <= c.step
<1>1. StepsOf(c) \in Seq(Steps)
    BY FunctionsSound DEF CallRec, Sound, StepsOf
<1>2. DOMAIN StepsOf(c) = 1 .. Len(StepsOf(c)) /\ Len(StepsOf(c)) \in Nat /\ c.step \in Nat
    BY <1>1 DEF CallRec
<1>3. CASE c.step = Len(StepsOf(c))
    BY <1>2, <1>3 DEF Moved, Advance, CallRec, Passed
<1>4. CASE c.step # Len(StepsOf(c))
    <2>1. Advance(c) = [c EXCEPT !.at = "send", !.step = c.step + 1] /\ c.step + 1 \in DOMAIN StepsOf(c)
        BY <1>2, <1>4 DEF Advance
    <2> DEFINE d == [c EXCEPT !.at = "send", !.step = c.step + 1]
    <2>2. c.step + 1 \in Nat
        BY <1>2
    <2>3. d \in CallRec
        BY <2>2 DEF CallRec
    <2>4. /\ Advance(c) \in CallRec /\ Advance(c).step = c.step + 1 /\ Advance(c).at = "send"
          /\ Advance(c).id = c.id /\ Advance(c).f = c.f /\ Advance(c).pm = c.pm
          /\ Advance(c).msgid = c.msgid /\ Advance(c).main = c.main /\ Advance(c).some = c.some
        BY <1>2, <2>1, <2>3 DEF CallRec
    <2> QED
        BY <1>2, <2>1, <2>4 DEF Moved, Passed
<1> QED
    BY <1>3, <1>4

LEMMA StopMoves ==
    ASSUME NEW c \in CallRec, c.step \in DOMAIN StepsOf(c)
    PROVE  /\ Moved(c, Stop(c)) /\ Stop(c).main = c.main /\ Stop(c).some = c.some
           /\ \A i \in DOMAIN StepsOf(c) : Passed(Stop(c), i) => i < c.step
<1>1. StepsOf(c) \in Seq(Steps)
    BY FunctionsSound DEF CallRec, Sound, StepsOf
<1> QED
    BY <1>1 DEF Moved, Stop, CallRec, Passed

LEMMA GoMoves ==
    ASSUME NEW c \in CallRec, c.step \in DOMAIN StepsOf(c), NEW rule
    PROVE  /\ Moved(c, Go(c, rule)) /\ Go(c, rule).main = c.main /\ Go(c, rule).some = c.some
           /\ \A i \in DOMAIN StepsOf(c) :
                  Passed(Go(c, rule), i) => i < c.step \/ (i = c.step /\ rule = "ignore")
<1>1. CASE rule = "ignore"
    <2>1. StepsOf(c) \in Seq(Steps)
        BY FunctionsSound DEF CallRec, Sound, StepsOf
    <2>2. \A i \in DOMAIN StepsOf(c) : i <= c.step => i < c.step \/ i = c.step
        BY <2>1
    <2> QED
        BY <1>1, <2>2, AdvanceMoves DEF Go
<1>2. CASE rule # "ignore"
    BY <1>2, StopMoves DEF Go
<1> QED
    BY <1>1, <1>2

LEMMA StepTyped ==
    ASSUME NEW c \in CallRec, c.step \in DOMAIN StepsOf(c)
    PROVE  StepOf(c) \in Steps /\ RequestId(c) \in RequestRec
<1>1. StepsOf(c) \in Seq(Steps)
    BY FunctionsSound DEF CallRec, Sound, StepsOf
<1>2. StepOf(c) \in Steps
    BY <1>1 DEF StepOf
<1>3. StepOf(c).com \in Coms
    BY <1>2 DEF Steps
<1> QED
    BY <1>2, <1>3, BoundsAssumption DEF RequestId, RequestRec, CallRec

\* A call that has sent its request.
Sent(c) == [c EXCEPT !.at = "wait"]

LEMMA SentMoves ==
    ASSUME NEW c \in CallRec
    PROVE  /\ Sent(c) \in CallRec /\ Sent(c).at = "wait" /\ Sent(c).step = c.step /\ Sent(c).id = c.id
           /\ Sent(c).f = c.f /\ Sent(c).pm = c.pm /\ Sent(c).msgid = c.msgid /\ Sent(c).main = c.main
           /\ Sent(c).some = c.some /\ RequestId(Sent(c)) = RequestId(c)
BY DEF Sent, CallRec, RequestId, StepOf, StepsOf

\* A call c that takes a for the answer: as it is then, and where it goes.
Taken(c, a) == [c EXCEPT !.main = IF StepOf(c).main THEN a ELSE @, !.some = @ \/ Good(a)]
Answered(c, a) ==
    IF Insists[StepOf(c).com] /\ a.com # StepOf(c).com
    THEN Go([c EXCEPT !.main = Taken(c, a).main], StepOf(c).onFail)
    ELSE IF Good(a) THEN Advance(Taken(c, a)) ELSE Go(Taken(c, a), StepOf(c).onError)

LEMMA AnsweredMoves ==
    ASSUME NEW c \in CallRec, c.step \in DOMAIN StepsOf(c), NEW a \in Answers
    PROVE  /\ Moved(c, Answered(c, a))
           /\ Answered(c, a).main = IF StepOf(c).main THEN a ELSE c.main
           /\ Answered(c, a).some => c.some \/ Good(a)
           /\ \A i \in DOMAIN StepsOf(c) :
                  Passed(Answered(c, a), i) =>
                     \/ i < c.step
                     \/ i = c.step /\ (StepOf(c).onFail = "ignore" \/ Good(a) \/ StepOf(c).onError = "ignore")
<1> DEFINE d == Taken(c, a)
           e == [c EXCEPT !.main = d.main]
<1>1. StepOf(c) \in Steps
    BY StepTyped
<1>2. /\ d \in CallRec /\ d.main = IF StepOf(c).main THEN a ELSE c.main
      /\ d.some = (c.some \/ Good(a)) /\ StepsOf(d) = StepsOf(c)
      /\ d.step = c.step /\ d.id = c.id /\ d.f = c.f /\ d.pm = c.pm /\ d.msgid = c.msgid
    BY <1>1 DEF Taken, CallRec, StepsOf, Steps
<1>3. /\ e \in CallRec /\ e.main = d.main /\ e.some = c.some /\ StepsOf(e) = StepsOf(c)
      /\ e.step = c.step /\ e.id = c.id /\ e.f = c.f /\ e.pm = c.pm /\ e.msgid = c.msgid
    BY <1>2 DEF CallRec, StepsOf
<1> HIDE DEF d, e
<1>4. CASE Insists[StepOf(c).com] /\ a.com # StepOf(c).com
    <2>1. Answered(c, a) = Go(e, StepOf(c).onFail)
        BY <1>4 DEF Answered, d, e
    <2> QED
        BY <1>2, <1>3, <2>1, GoMoves DEF Moved
<1>5. CASE ~(Insists[StepOf(c).com] /\ a.com # StepOf(c).com) /\ Good(a)
    <2>1. Answered(c, a) = Advance(d)
        BY <1>5 DEF Answered, d
    <2>2. \A i \in DOMAIN StepsOf(c) : i <= c.step => i < c.step \/ i = c.step
        BY FunctionsSound DEF CallRec, Sound, StepsOf
    <2> QED
        BY <1>2, <1>5, <2>1, <2>2, AdvanceMoves DEF Moved
<1>6. CASE ~(Insists[StepOf(c).com] /\ a.com # StepOf(c).com) /\ ~Good(a)
    <2>1. Answered(c, a) = Go(d, StepOf(c).onError)
        BY <1>6 DEF Answered, d
    <2> DEFINE rule == StepOf(c).onError
               g == Go(d, rule)
    <2> HIDE DEF rule
    <2>2. /\ Moved(d, g) /\ g.main = d.main /\ g.some = d.some
          /\ \A i \in DOMAIN StepsOf(d) : Passed(g, i) => i < d.step \/ (i = d.step /\ rule = "ignore")
        BY <1>2, GoMoves
    <2> HIDE DEF g
    <2>3. Answered(c, a) = g
        BY <2>1 DEF rule, g
    <2> QED
        BY <1>2, <2>2, <2>3 DEF Moved, rule
<1> QED
    BY <1>4, <1>5, <1>6

LEMMA Active ==
    ASSUME Shape, MsgidInv, NEW t \in Threads, NEW phase, Asking(t, phase)
    PROVE  /\ call[t] \in CallRec /\ InCall(t) /\ call[t].step \in DOMAIN StepsOf(call[t])
           /\ call[t].at = phase /\ call[t].msgid \in 1 .. MaxMsgids /\ call[t].msgid \in open
<1>1. call[t] \in CallRec
    BY DEF Shape, Asking
<1>2. InCall(t)
    BY <1>1, BoundsAssumption DEF InCall, CallRec
<1> QED
    BY <1>1, <1>2 DEF MsgidInv, Asking, CallRec

\* The actions of a call in terms of the operators above.
LEMMA SendEffect ==
    ASSUME NEW t \in Threads, call \in [Threads -> CallRec \cup {Idle}], Send(t)
    PROVE  call' = [call EXCEPT ![t] = Sent(call[t])] /\ net' = net \cup {RequestId(call[t])}
BY DEF Send, Sent

LEMMA ReceiveEffect ==
    ASSUME NEW t \in Threads, Receive(t)
    PROVE  LET c == call[t]
               a == Head(inbox[c.msgid])
           IN  /\ Asking(t, "wait") /\ inbox[c.msgid] # <<>>
               /\ inbox' = [inbox EXCEPT ![c.msgid] = Tail(@)]
               /\ alien' = IF a.id = RequestId(c) THEN alien ELSE alien \cup {c.msgid}
               /\ call' = [call EXCEPT ![t] = Answered(c, a)]
               /\ code' = IF StepOf(c).main /\ c.pm
                          THEN [code EXCEPT ![t] = [call |-> c.id, good |-> Good(a)]] ELSE code
               /\ UNCHANGED <<handle, result, count, opened, open, net, late, served, crashed>>
BY DEF Receive, Answered, Taken

LEMMA OpensEffect ==
    ASSUME Shape, NEW what \in DOMAIN Functions \cup {"handle"}, NEW t, Opens(t, what)
    PROVE  /\ Fresh \in 1 .. MaxMsgids /\ Fresh = Len(opened')
           /\ opened' \in Seq(DOMAIN Functions \cup {"handle"}) /\ Len(opened') = Len(opened) + 1
           /\ open' = open \cup {Fresh} /\ open' \subseteq 1 .. Len(opened') /\ Fresh \notin open
           /\ opened'[Fresh] = what /\ \A m \in open : opened'[m] = opened[m]
<1> DEFINE S == DOMAIN Functions \cup {"handle"}
<1> HIDE DEF S
<1>1. opened \in Seq(S) /\ what \in S /\ open \subseteq 1 .. Len(opened) /\ MaxMsgids \in Nat
    BY BoundsAssumption DEF S, Shape
<1>2. Len(opened) \in Nat
    BY <1>1
<1>3. opened' = Append(opened, what) /\ open' = open \cup {Len(opened) + 1} /\ Len(opened) + 1 <= MaxMsgids
    BY DEF Opens, Fresh
<1>4. opened' \in Seq(S) /\ Len(opened') = Len(opened) + 1 /\ opened'[Len(opened) + 1] = what
    BY <1>1, <1>3
<1>5. \A m \in 1 .. Len(opened) : opened'[m] = opened[m]
    BY <1>1, <1>3
<1>6. open' \subseteq 1 .. Len(opened')
    <2>1. \A m \in open' : m \in Nat /\ 1 <= m /\ m <= Len(opened) + 1
        BY <1>1, <1>2, <1>3
    <2> QED
        BY <1>2, <1>4, <2>1
<1>7. Len(opened) + 1 \in 1 .. MaxMsgids /\ Len(opened) + 1 \notin open
    BY <1>1, <1>2, <1>3
<1>8. \A m \in open : opened'[m] = opened[m]
    BY <1>1, <1>5
<1> QED
    BY <1>3, <1>4, <1>6, <1>7, <1>8 DEF Fresh, S

LEMMA ClosesEffect ==
    ASSUME Shape, NEW m \in 1 .. MaxMsgids, Closes(m)
    PROVE  /\ open' = open \ {m} /\ net' = {r \in net : r.msgid # m} /\ open' \subseteq open /\ net' \subseteq net
           /\ inbox' \in [1 .. MaxMsgids -> Seq(Answers)] /\ inbox'[m] = <<>>
           /\ \A n \in 1 .. MaxMsgids : n # m => inbox'[n] = inbox[n]
<1>1. inbox' = [inbox EXCEPT ![m] = <<>>] /\ inbox \in [1 .. MaxMsgids -> Seq(Answers)]
    BY DEF Closes, Shape
<1>2. <<>> \in Seq(Answers)
    OBVIOUS
<1> QED
    BY <1>1, <1>2 DEF Closes

LEMMA NextShape == SessionInv /\ [Next]_vars => Shape'
<1> SUFFICES ASSUME SessionInv, [Next]_vars PROVE Shape'
    OBVIOUS
<1>0. Shape /\ MsgidInv
    BY DEF SessionInv
<1> USE <1>0, BoundsAssumption DEF Shape
<1>1. ASSUME NEW t \in Threads, OpenHandle(t) PROVE Shape'
    <2>1. Opens(t, "handle") /\ handle' = [handle EXCEPT ![t] = Fresh]
        BY <1>1 DEF OpenHandle
    <2>2. /\ Fresh \in 1 .. MaxMsgids /\ Fresh = Len(opened')
          /\ opened' \in Seq(DOMAIN Functions \cup {"handle"}) /\ Len(opened') = Len(opened) + 1
          /\ open' \subseteq 1 .. Len(opened')
        BY <2>1, OpensEffect
    <2>3. late \subseteq 1 .. Len(opened') /\ alien \subseteq 1 .. Len(opened')
        BY <2>2
    <2> QED
        BY <1>1, <2>1, <2>2, <2>3 DEF OpenHandle, wire
<1>2. ASSUME NEW t \in Threads, CloseHandle(t) PROVE Shape'
    <2>1. NoCode \in [call : 0 .. MaxCalls, good : BOOLEAN]
        BY DEF NoCode
    <2>2. Closes(handle[t]) /\ handle[t] \in 1 .. MaxMsgids
        BY <1>2 DEF CloseHandle
    <2>3. open' \subseteq open /\ net' \subseteq net /\ inbox' \in [1 .. MaxMsgids -> Seq(Answers)]
        BY <2>2, ClosesEffect
    <2>4. served' \subseteq served
        BY <1>2 DEF CloseHandle, Forget
    <2>5. /\ code' \in [Threads -> [call : 0 .. MaxCalls, good : BOOLEAN]]
          /\ handle' \in [Threads -> 0 .. MaxMsgids] /\ result' \in [Threads -> ResultRec \cup {Idle}]
        BY <1>2, <2>1 DEF CloseHandle
    <2> QED
        BY <1>2, <2>3, <2>4, <2>5 DEF CloseHandle
<1>3. ASSUME NEW t \in Threads, NEW f \in DOMAIN Functions, BeginPermanent(t, f) PROVE Shape'
    <2>1. NewCall(f, TRUE, handle[t]) \in CallRec /\ count + 1 \in 0 .. MaxCalls
        BY <1>3 DEF BeginPermanent, NewCall, CallRec
    <2>2. call' \in [Threads -> CallRec \cup {Idle}] /\ result' \in [Threads -> ResultRec \cup {Idle}]
        BY <1>3, <2>1 DEF BeginPermanent
    <2>3. served' \subseteq [call : Nat, step : Nat]
        BY <1>3 DEF BeginPermanent, Forget
    <2> QED
        BY <1>3, <2>1, <2>2, <2>3 DEF BeginPermanent
<1>4. ASSUME NEW t \in Threads, NEW f \in DOMAIN Functions, BeginOneTime(t, f) PROVE Shape'
    <2>1. NewCall(f, FALSE, Fresh) \in CallRec /\ count + 1 \in 0 .. MaxCalls
        BY <1>4 DEF BeginOneTime, NewCall, CallRec, Opens, Fresh
    <2>2. call' \in [Threads -> CallRec \cup {Idle}] /\ result' \in [Threads -> ResultRec \cup {Idle}]
        BY <1>4, <2>1 DEF BeginOneTime
    <2>3. served' \subseteq [call : Nat, step : Nat]
        BY <1>4 DEF BeginOneTime, Forget
    <2>4. f \in DOMAIN Functions /\ Opens(t, f)
        BY <1>4 DEF BeginOneTime
    <2>5. /\ Fresh \in 1 .. MaxMsgids /\ Fresh = Len(opened')
          /\ opened' \in Seq(DOMAIN Functions \cup {"handle"}) /\ Len(opened') = Len(opened) + 1
          /\ open' \subseteq 1 .. Len(opened')
        BY <2>4, OpensEffect
    <2>6. late \subseteq 1 .. Len(opened') /\ alien \subseteq 1 .. Len(opened')
        BY <2>5
    <2>7. count' = count + 1 /\ UNCHANGED <<handle, code, net, inbox, late, alien>>
        BY <1>4 DEF BeginOneTime
    <2> QED
        BY SMTT(30), <2>1, <2>2, <2>3, <2>5, <2>6, <2>7
<1>5. ASSUME NEW t \in Threads, NEW f \in DOMAIN Functions, OneTimeFails(t, f) PROVE Shape'
    <2>1. count' \in 1 .. MaxCalls /\ Returned(count', f, FALSE, 0, FALSE, FALSE) \in ResultRec
        BY <1>5 DEF OneTimeFails, Returned, ResultRec
    <2>2. served' \subseteq [call : Nat, step : Nat]
        BY <1>5 DEF OneTimeFails, Forget
    <2>3. result' \in [Threads -> ResultRec \cup {Idle}]
        BY <1>5, <2>1 DEF OneTimeFails
    <2>4. UNCHANGED <<handle, code, call, opened, open, net, inbox, late, alien>>
        BY <1>5 DEF OneTimeFails
    <2> QED
        BY SMTT(30), <2>1, <2>2, <2>3, <2>4
<1>6. ASSUME NEW t \in Threads, Send(t) PROVE Shape'
    <2>1. call[t] \in CallRec /\ call[t].step \in DOMAIN StepsOf(call[t])
        <3>1. Asking(t, "send")
            BY <1>6 DEF Send
        <3> QED
            BY <3>1, Active
    <2>2. call' \in [Threads -> CallRec \cup {Idle}] /\ net' \subseteq RequestRec
        BY <1>6, <2>1, StepTyped, SentMoves, SendEffect
    <2> QED
        BY <1>6, <2>2 DEF Send
<1>7. ASSUME NEW t \in Threads, SendFails(t) PROVE Shape'
    <2>1. Go(call[t], StepOf(call[t]).onFail) \in CallRec
        BY <1>7, Active, GoMoves DEF SendFails, Moved
    <2> QED
        BY <1>7, <2>1 DEF SendFails, wire
<1>8. ASSUME NEW t \in Threads, TimeOut(t) PROVE Shape'
    <2>1. Go(call[t], StepOf(call[t]).onFail) \in CallRec /\ call[t].msgid \in open
        BY <1>8, Active, GoMoves DEF TimeOut, Moved
    <2> QED
        BY <1>8, <2>1 DEF TimeOut
<1>9. ASSUME NEW t \in Threads, Receive(t) PROVE Shape'
    <2> DEFINE c == call[t]
               q == inbox[c.msgid]
               a == Head(q)
    <2>1. /\ c \in CallRec /\ c.step \in DOMAIN StepsOf(c) /\ c.msgid \in open
          /\ q \in Seq(Answers) /\ q # <<>>
        BY <1>9, Active DEF Receive
    <2>2. a \in Answers /\ Tail(q) \in Seq(Answers)
        BY <2>1
    <2>3. Answered(c, a) \in CallRec
        BY <2>1, <2>2, AnsweredMoves DEF Moved
    <2>4. [call |-> c.id, good |-> Good(a)] \in [call : 0 .. MaxCalls, good : BOOLEAN]
        BY <2>1 DEF CallRec, Good
    <2>5. code' \in [Threads -> [call : 0 .. MaxCalls, good : BOOLEAN]]
        BY ZenonT(60), <1>9, <2>4, ReceiveEffect
    <2>6. call' = [call EXCEPT ![t] = Answered(c, a)] /\ inbox' = [inbox EXCEPT ![c.msgid] = Tail(q)]
          /\ alien' \in {alien, alien \cup {c.msgid}}
        BY <1>9, ReceiveEffect
    <2>7. /\ call' \in [Threads -> CallRec \cup {Idle}] /\ inbox' \in [1 .. MaxMsgids -> Seq(Answers)]
          /\ alien' \subseteq 1 .. Len(opened)
        BY <2>1, <2>2, <2>3, <2>6
    <2> QED
        BY <1>9, <2>5, <2>7 DEF Receive
<1>10. ASSUME NEW t \in Threads, Return(t) PROVE Shape'
    <2> DEFINE c == call[t]
    <2>1. c \in CallRec /\ c.msgid \in 1 .. MaxMsgids
        BY <1>10, Active DEF Return
    <2>2. Succeeds(c) \in BOOLEAN
        BY <2>1 DEF Succeeds, CallRec
    <2> DEFINE g == IF Functions[c.f].code = "response" THEN c.main # None /\ Good(c.main) ELSE Succeeds(c)
    <2>8. g \in BOOLEAN
        BY <2>2 DEF Good
    <2> HIDE DEF g
    <2>3. Returned(c.id, c.f, c.pm, c.msgid, Succeeds(c), g) \in ResultRec
        BY <2>1, <2>2, <2>8 DEF Returned, ResultRec, CallRec
    <2>4. CodeAfter(t, c) \in [call : 0 .. MaxCalls, good : BOOLEAN]
        BY <2>1, <2>2 DEF CodeAfter, CallRec
    <2>5. /\ call' = [call EXCEPT ![t] = Idle] /\ result' = [result EXCEPT ![t] = Returned(c.id, c.f, c.pm, c.msgid, Succeeds(c), g)]
          /\ code' = [code EXCEPT ![t] = CodeAfter(t, c)]
          /\ UNCHANGED <<handle, count, opened, late, served, alien>>
          /\ UNCHANGED <<open, inbox, net>> \/ Closes(c.msgid)
        BY <1>10 DEF Return, g
    <2>6. /\ call' \in [Threads -> CallRec \cup {Idle}] /\ result' \in [Threads -> ResultRec \cup {Idle}]
          /\ code' \in [Threads -> [call : 0 .. MaxCalls, good : BOOLEAN]]
        BY <2>3, <2>4, <2>5
    <2>7. open' \subseteq open /\ net' \subseteq net /\ inbox' \in [1 .. MaxMsgids -> Seq(Answers)]
        BY <2>1, <2>5, ClosesEffect
    <2> QED
        BY <2>5, <2>6, <2>7
<1>11. ASSUME NEW r \in net, Serve(r) PROVE Shape'
    <2>1. r \in RequestRec /\ net' = net \ {r}
        BY <1>11 DEF Serve
    <2>2. PICK kind \in ReceiveObject[r.com].answers :
             /\ served' \in {served, served \cup {[call |-> r.call, step |-> r.step]}}
             /\ inbox' \in {inbox, [inbox EXCEPT ![r.msgid] = Append(@, [id |-> r, com |-> r.com, kind |-> kind])]}
        BY <1>11 DEF Serve
    <2>3. [id |-> r, com |-> r.com, kind |-> kind] \in Answers
        BY <2>1, <2>2 DEF RequestRec, Answers, Kinds
    <2> DEFINE x == [id |-> r, com |-> r.com, kind |-> kind]
    <2> HIDE DEF x
    <2>4. r.msgid \in 1 .. MaxMsgids /\ r.call \in Nat /\ r.step \in Nat /\ x \in Answers
        BY <2>1, <2>3 DEF RequestRec, x
    <2>5. inbox' \in {inbox, [inbox EXCEPT ![r.msgid] = Append(@, x)]}
        BY <2>2 DEF x
    <2>6. Append(inbox[r.msgid], x) \in Seq(Answers)
        BY <2>4
    <2>7. inbox' \in [1 .. MaxMsgids -> Seq(Answers)]
        BY <2>4, <2>5, <2>6
    <2>8. served' \subseteq [call : Nat, step : Nat]
        BY <2>2, <2>4
    <2> QED
        BY <1>11, <2>1, <2>7, <2>8 DEF Serve
<1>12. CASE UNCHANGED vars
    BY <1>12 DEF vars, wire
<1>13. \A t \in Threads : Offers(t, count) \subseteq DOMAIN Functions
    BY OffersAssumption
<1> QED
    BY <1>1, <1>2, <1>3, <1>4, <1>5, <1>6, <1>7, <1>8, <1>9, <1>10, <1>11, <1>12, <1>13 DEF Next, Begin, ClientStep

\* The steps of a running call but the last.
Goes(t) == Send(t) \/ SendFails(t) \/ TimeOut(t) \/ Receive(t)

LEMMA GoesEffect ==
    ASSUME Shape, MsgidInv, NEW t \in Threads, Goes(t)
    PROVE  /\ InCall(t)
           /\ \E e \in CallRec :
                 /\ call' = [call EXCEPT ![t] = e]
                 /\ e.step \in DOMAIN StepsOf(call[t])
                 /\ e.id = call[t].id /\ e.f = call[t].f /\ e.pm = call[t].pm /\ e.msgid = call[t].msgid
           /\ UNCHANGED <<handle, result, count, opened, open>>
           /\ code' = code \/ \E g \in BOOLEAN : code' = [code EXCEPT ![t] = [call |-> call[t].id, good |-> g]]
<1>0. call \in [Threads -> CallRec \cup {Idle}]
    BY DEF Shape
<1>1. CASE Send(t)
    <2>1. InCall(t) /\ call[t] \in CallRec /\ call[t].step \in DOMAIN StepsOf(call[t])
        BY <1>1, Active DEF Send
    <2> QED
        BY <1>0, <1>1, <2>1, SendEffect, SentMoves DEF Send
<1>2. CASE SendFails(t)
    <2>1. InCall(t) /\ Moved(call[t], Go(call[t], StepOf(call[t]).onFail))
        BY <1>2, Active, GoMoves DEF SendFails
    <2> QED
        BY <1>2, <2>1 DEF SendFails, Moved
<1>3. CASE TimeOut(t)
    <2>1. InCall(t) /\ Moved(call[t], Go(call[t], StepOf(call[t]).onFail))
        BY <1>3, Active, GoMoves DEF TimeOut
    <2> QED
        BY <1>3, <2>1 DEF TimeOut, Moved
<1>4. CASE Receive(t)
    <2> DEFINE a == Head(inbox[call[t].msgid])
    <2>1. /\ InCall(t) /\ call[t] \in CallRec /\ call[t].step \in DOMAIN StepsOf(call[t])
          /\ inbox[call[t].msgid] \in Seq(Answers) /\ inbox[call[t].msgid] # <<>>
        BY <1>4, Active DEF Receive, Shape
    <2>2. a \in Answers
        BY <2>1
    <2>3. Moved(call[t], Answered(call[t], a))
        BY <2>1, <2>2, AnsweredMoves
    <2>4. Good(a) \in BOOLEAN
        BY DEF Good
    <2> QED
        BY <1>4, <2>1, <2>3, <2>4, ReceiveEffect DEF Moved
<1> QED
    BY <1>1, <1>2, <1>3, <1>4 DEF Goes

\* What a call returns.
Result(c) ==
    Returned(c.id, c.f, c.pm, c.msgid, Succeeds(c),
             IF Functions[c.f].code = "response" THEN c.main # None /\ Good(c.main) ELSE Succeeds(c))

LEMMA ReturnEffect ==
    ASSUME Shape, MsgidInv, NEW t \in Threads, Return(t)
    PROVE  /\ call[t] \in CallRec /\ InCall(t) /\ call[t].at = "end" /\ ~crashed
           /\ call' = [call EXCEPT ![t] = Idle] /\ result' = [result EXCEPT ![t] = Result(call[t])]
           /\ Result(call[t]).id = call[t].id /\ Result(call[t]).pm = call[t].pm
           /\ Result(call[t]).f = call[t].f /\ Result(call[t]).msgid = call[t].msgid
           /\ Result(call[t]).ok = Succeeds(call[t])
           /\ code' = [code EXCEPT ![t] = CodeAfter(t, call[t])]
           /\ CodeAfter(t, call[t]).call \in {code[t].call, call[t].id}
           /\ UNCHANGED <<handle, count, opened, late, served, alien, crashed>>
           /\ \/ UNCHANGED <<open, inbox, net>>
                 /\ (call[t].pm \/ (~Functions[call[t].f].frees /\ ~Succeeds(call[t])))
              \/ Closes(call[t].msgid) /\ ~call[t].pm
<1>1. Asking(t, "end")
    BY DEF Return
<1>2. call[t] \in CallRec /\ InCall(t) /\ call[t].at = "end" /\ ~crashed
    BY <1>1, Active DEF Asking
<1> QED
    BY <1>2 DEF Return, Result, Returned, CodeAfter

LEMMA FirstStep ==
    ASSUME NEW f \in DOMAIN Functions, NEW pm, NEW m
    PROVE  NewCall(f, pm, m).step \in DOMAIN StepsOf(NewCall(f, pm, m)) /\ NewCall(f, pm, m).f = f
           /\ NewCall(f, pm, m).msgid = m
BY FunctionsSound DEF Sound, NewCall, StepsOf

LEMMA NextIds == SessionInv /\ [Next]_vars => IdInv'
<1> SUFFICES ASSUME SessionInv, [Next]_vars PROVE IdInv'
    OBVIOUS
<1>0. Shape /\ MsgidInv /\ IdInv
    BY DEF SessionInv
<1>a. /\ count \in 0 .. MaxCalls
      /\ \A t \in Threads : call[t].id \in Nat /\ result[t].id \in Nat /\ code[t].call \in Nat
      /\ call \in [Threads -> CallRec \cup {Idle}] /\ result \in [Threads -> ResultRec \cup {Idle}]
      /\ code \in [Threads -> [call : 0 .. MaxCalls, good : BOOLEAN]]
    BY <1>0, BoundsAssumption DEF Shape, CallRec, ResultRec, Idle
<1> USE <1>0, <1>a, BoundsAssumption DEF IdInv, InCall
<1>1. ASSUME NEW t \in Threads, OpenHandle(t) PROVE IdInv'
    BY <1>1 DEF OpenHandle
<1>2. ASSUME NEW t \in Threads, CloseHandle(t) PROVE IdInv'
    BY <1>2 DEF CloseHandle, NoCode, Idle
<1>3. ASSUME NEW t \in Threads, NEW f \in DOMAIN Functions, BeginPermanent(t, f) PROVE IdInv'
    BY <1>3 DEF BeginPermanent, NewCall, Idle, Free
<1>4. ASSUME NEW t \in Threads, NEW f \in DOMAIN Functions, BeginOneTime(t, f) PROVE IdInv'
    BY <1>4 DEF BeginOneTime, NewCall, Idle, Free
<1>5. ASSUME NEW t \in Threads, NEW f \in DOMAIN Functions, OneTimeFails(t, f) PROVE IdInv'
    BY <1>5 DEF OneTimeFails, Returned, Free, Idle
<1>6. ASSUME NEW t \in Threads, Goes(t) PROVE IdInv'
    <2>1. \A u \in Threads : call'[u].id = call[u].id /\ code'[u].call \in {code[u].call, call[u].id}
        BY <1>0, <1>6, GoesEffect
    <2>2. result' = result /\ count' = count
        BY <1>0, <1>6, GoesEffect
    <2>3. \A u \in Threads : call'[u].id <= count' /\ result'[u].id <= count' /\ code'[u].call <= count'
        BY <2>1, <2>2
    <2>4. \A u, v \in Threads : u # v /\ call'[u].id # 0 => call'[u].id # call'[v].id
        BY <2>1
    <2>5. \A u, v \in Threads : call'[u].id # 0 => call'[u].id # result'[v].id
        BY <2>1, <2>2
    <2>6. \A u, v \in Threads : u # v /\ result'[u].id # 0 => result'[u].id # result'[v].id
        BY <2>2
    <2> QED
        BY <2>3, <2>4, <2>5, <2>6
<1>7. ASSUME NEW t \in Threads, Return(t) PROVE IdInv'
    <2>1. /\ InCall(t) /\ call'[t].id = 0 /\ result'[t].id = call[t].id
          /\ \A u \in Threads : u # t => call'[u] = call[u] /\ result'[u] = result[u]
          /\ \A u \in Threads : code'[u].call \in {code[u].call, call[u].id}
          /\ count' = count
        <3>1. /\ InCall(t) /\ call' = [call EXCEPT ![t] = Idle] /\ result' = [result EXCEPT ![t] = Result(call[t])]
              /\ Result(call[t]).id = call[t].id /\ count' = count
              /\ code' = [code EXCEPT ![t] = CodeAfter(t, call[t])]
              /\ CodeAfter(t, call[t]).call \in {code[t].call, call[t].id}
            BY <1>0, <1>7, ReturnEffect
        <3>2. t \in DOMAIN call /\ t \in DOMAIN result /\ DOMAIN code = Threads
            BY <1>0 DEF Shape
        <3>3. call'[t].id = 0 /\ result'[t].id = call[t].id
            BY <3>1, <3>2 DEF Idle
        <3>4. \A u \in Threads : u # t => call'[u] = call[u] /\ result'[u] = result[u]
            BY <1>0, <3>1 DEF Shape
        <3>5. \A u \in Threads : code'[u].call \in {code[u].call, call[u].id}
            BY <3>1, <3>2
        <3> QED
            BY <3>1, <3>3, <3>4, <3>5
    <2>2. \A u \in Threads : call'[u].id <= count' /\ result'[u].id <= count' /\ code'[u].call <= count'
        BY <2>1
    <2>3. \A u, v \in Threads : u # v /\ call'[u].id # 0 => call'[u].id # call'[v].id
        BY <2>1
    <2>4. \A u, v \in Threads : call'[u].id # 0 => call'[u].id # result'[v].id
        BY <2>1
    <2>5. \A u, v \in Threads : u # v /\ result'[u].id # 0 => result'[u].id # result'[v].id
        BY <2>1
    <2> QED
        BY <2>2, <2>3, <2>4, <2>5
<1>8. ASSUME NEW r \in net, Serve(r) PROVE IdInv'
    BY <1>8 DEF Serve
<1>9. CASE UNCHANGED vars
    BY <1>9 DEF vars, wire
<1>10. \A t \in Threads : Offers(t, count) \subseteq DOMAIN Functions
    BY OffersAssumption DEF SessionInv, Shape
<1> QED
    BY <1>1, <1>2, <1>3, <1>4, <1>5, <1>6, <1>7, <1>8, <1>9, <1>10 DEF Next, Begin, ClientStep, Goes

LEMMA NextMsgids == SessionInv /\ [Next]_vars => MsgidInv'
<1> SUFFICES ASSUME SessionInv, [Next]_vars PROVE MsgidInv'
    OBVIOUS
<1>0. Shape /\ MsgidInv /\ IdInv
    BY DEF SessionInv
<1>a. /\ handle \in [Threads -> 0 .. MaxMsgids] /\ open \subseteq 1 .. Len(opened)
      /\ \A t \in Threads : IF InCall(t) THEN call[t] \in CallRec ELSE call[t] = Idle
      /\ call \in [Threads -> CallRec \cup {Idle}] /\ 0 \notin open
    BY <1>0, BoundsAssumption DEF Shape, CallRec, InCall, Idle
<1> USE <1>0, <1>a, BoundsAssumption DEF MsgidInv, InCall, Idle
<1>1. ASSUME NEW t \in Threads, OpenHandle(t) PROVE MsgidInv'
    <2>1. /\ Fresh \in 1 .. MaxMsgids /\ open' = open \cup {Fresh} /\ Fresh \notin open
          /\ \A m \in open : opened'[m] = opened[m]
        BY <1>0, <1>1, OpensEffect DEF OpenHandle
    <2> QED
        <3>1. /\ call' = call /\ ~InCall(t) /\ handle'[t] = Fresh /\ Fresh # 0
              /\ \A u \in Threads : u # t => handle'[u] = handle[u]
            BY <1>1, <2>1 DEF OpenHandle, Free
        <3>2. \A u \in Threads : /\ handle[u] # Fresh
                                 /\ InCall(u) => call[u].msgid # Fresh /\ opened'[call[u].msgid] = opened[call[u].msgid]
            BY <2>1, <3>1
        <3>3. \A u \in Threads : handle'[u] # 0 => handle'[u] \in open'
            BY <2>1, <3>1
        <3>4. ASSUME NEW u \in Threads, InCall(u)
              PROVE  /\ u # t /\ handle'[u] = handle[u] /\ call[u].msgid \in open'
                     /\ call[u].pm <=> call[u].msgid = handle'[u]
                     /\ ~call[u].pm => opened'[call[u].msgid] = call[u].f
            BY <2>1, <3>1, <3>2, <3>4
        <3>5. \A u, v \in Threads : u # v /\ handle'[u] # 0 => handle'[u] # handle'[v]
            BY <3>1, <3>2
        <3>6. \A u, v \in Threads : u # v /\ InCall(u) => call[u].msgid # handle'[v]
            BY <3>1, <3>2
        <3> QED
            BY <3>1, <3>3, <3>4, <3>5, <3>6
<1>2. ASSUME NEW t \in Threads, CloseHandle(t) PROVE MsgidInv'
    <2>1. handle[t] \in 1 .. MaxMsgids /\ Closes(handle[t])
        BY <1>2 DEF CloseHandle
    <2>2. open' = open \ {handle[t]}
        BY <1>0, <2>1, ClosesEffect
    <2> QED
        BY <1>2, <2>1, <2>2 DEF CloseHandle, Free
<1>3. ASSUME NEW t \in Threads, NEW f \in DOMAIN Functions, BeginPermanent(t, f) PROVE MsgidInv'
    <2>0. call' = [call EXCEPT ![t] = NewCall(f, TRUE, handle[t])]
        BY <1>3 DEF BeginPermanent
    <2>1. ~InCall(t) /\ handle[t] # 0 /\ UNCHANGED <<handle, opened, open>>
        BY <1>3 DEF BeginPermanent, Free
    <2>2. call'[t].pm /\ call'[t].msgid = handle[t] /\ \A u \in Threads : u # t => call'[u] = call[u]
        BY <2>0 DEF NewCall
    <2>3. call'[t].step \in DOMAIN StepsOf(call'[t])
        BY <2>0, FirstStep
    <2>5. ASSUME NEW u \in Threads, call'[u].id # 0
          PROVE  /\ call'[u].step \in DOMAIN StepsOf(call'[u]) /\ call'[u].msgid \in open'
                 /\ call'[u].pm <=> call'[u].msgid = handle'[u]
                 /\ ~call'[u].pm => opened'[call'[u].msgid] = call'[u].f
        <3>1. CASE u = t
            BY <2>1, <2>2, <2>3, <3>1
        <3>2. CASE u # t
            BY <2>1, <2>2, <2>3, <2>5, <3>2
        <3> QED
            BY <3>1, <3>2
    <2>6. \A u, v \in Threads : u # v /\ call'[u].id # 0 => call'[u].msgid # handle'[v]
        BY <2>1, <2>2, <2>3
    <2>7. \A u, v \in Threads : u # v /\ call'[u].id # 0 /\ call'[v].id # 0 => call'[u].msgid # call'[v].msgid
        BY <2>1, <2>2, <2>3
    <2> QED
        BY <2>1, <2>2, <2>3, <2>5, <2>6, <2>7
<1>4. ASSUME NEW t \in Threads, NEW f \in DOMAIN Functions, BeginOneTime(t, f) PROVE MsgidInv'
    <2>0. call' = [call EXCEPT ![t] = NewCall(f, FALSE, Fresh)]
        BY <1>4 DEF BeginOneTime
    <2>1. ~InCall(t) /\ Opens(t, f) /\ UNCHANGED handle
        BY <1>4 DEF BeginOneTime, Free
    <2>2. /\ Fresh \in 1 .. MaxMsgids /\ open' = open \cup {Fresh} /\ Fresh \notin open /\ opened'[Fresh] = f
          /\ \A m \in open : opened'[m] = opened[m]
        BY <1>0, <2>1, OpensEffect
    <2>3. /\ ~call'[t].pm /\ call'[t].msgid = Fresh /\ call'[t].f = f
          /\ \A u \in Threads : u # t => call'[u] = call[u]
        BY <2>0 DEF NewCall
    <2>4. call'[t].step \in DOMAIN StepsOf(call'[t])
        BY <2>0, FirstStep
    <2>5. ASSUME NEW u \in Threads, call'[u].id # 0
          PROVE  /\ call'[u].step \in DOMAIN StepsOf(call'[u]) /\ call'[u].msgid \in open'
                 /\ call'[u].pm <=> call'[u].msgid = handle'[u]
                 /\ ~call'[u].pm => opened'[call'[u].msgid] = call'[u].f
        <3>1. CASE u = t
            BY <2>1, <2>2, <2>3, <2>4, <3>1
        <3>2. CASE u # t
            <4>1. call'[u] = call[u] /\ InCall(u) /\ handle'[u] = handle[u]
                BY <2>1, <2>3, <2>5, <3>2
            <4>2. /\ call[u].step \in DOMAIN StepsOf(call[u]) /\ call[u].msgid \in open
                  /\ call[u].pm <=> call[u].msgid = handle[u]
                  /\ ~call[u].pm => opened[call[u].msgid] = call[u].f
                BY <4>1
            <4>3. call[u].msgid \in open' /\ opened'[call[u].msgid] = opened[call[u].msgid]
                BY <2>2, <4>2
            <4> QED
                BY <4>1, <4>2, <4>3
        <3> QED
            BY <3>1, <3>2
    <2>6. \A u, v \in Threads : u # v /\ call'[u].id # 0 => call'[u].msgid # handle'[v]
        BY <2>1, <2>2, <2>3, <2>4
    <2>7. \A u, v \in Threads : u # v /\ call'[u].id # 0 /\ call'[v].id # 0 => call'[u].msgid # call'[v].msgid
        BY <2>1, <2>2, <2>3, <2>4
    <2> QED
        BY <2>1, <2>2, <2>3, <2>4, <2>5, <2>6, <2>7
<1>5. ASSUME NEW t \in Threads, NEW f \in DOMAIN Functions, OneTimeFails(t, f) PROVE MsgidInv'
    BY <1>5 DEF OneTimeFails, Free
<1>6. ASSUME NEW t \in Threads, Goes(t) PROVE MsgidInv'
    BY <1>0, <1>6, GoesEffect DEF StepsOf
<1>7. ASSUME NEW t \in Threads, Return(t) PROVE MsgidInv'
    <2>1. /\ InCall(t) /\ call' = [call EXCEPT ![t] = Idle] /\ UNCHANGED <<handle, opened>>
          /\ call[t].msgid \in 1 .. MaxMsgids
          /\ open' = open \/ (open' = open \ {call[t].msgid} /\ ~call[t].pm)
        BY <1>0, <1>7, ReturnEffect, ClosesEffect DEF CallRec
    <2> QED
        BY <2>1
<1>8. ASSUME NEW r \in net, Serve(r) PROVE MsgidInv'
    BY <1>8 DEF Serve
<1>9. CASE UNCHANGED vars
    BY <1>9 DEF vars, wire
<1>10. \A t \in Threads : Offers(t, count) \subseteq DOMAIN Functions
    BY OffersAssumption DEF SessionInv, Shape
<1> QED
    BY <1>1, <1>2, <1>3, <1>4, <1>5, <1>6, <1>7, <1>8, <1>9, <1>10 DEF Next, Begin, ClientStep, Goes

LEMMA NextCrashed == SessionInv /\ [Next]_vars => (crashed \in BOOLEAN)'
<1> SUFFICES ASSUME SessionInv, [Next]_vars PROVE (crashed \in BOOLEAN)'
    OBVIOUS
<1>1. ASSUME NEW t \in Threads, NEW f, OneTimeFails(t, f) PROVE (crashed \in BOOLEAN)'
    <2>1. crashed' = ~Functions[f].tests
        BY <1>1 DEF OneTimeFails
    <2>2. (~Functions[f].tests) \in BOOLEAN
        BY ZenonT(20)
    <2> QED
        BY <2>1, <2>2, ZenonT(20)
<1>2. ASSUME crashed' = crashed PROVE (crashed \in BOOLEAN)'
    <2>1. crashed \in BOOLEAN
        BY ZenonT(20) DEF SessionInv
    <2> QED
        BY <1>2, <2>1, ZenonT(20)
<1>3. ASSUME NEW t \in Threads, OpenHandle(t) \/ CloseHandle(t) \/ ClientStep(t) PROVE crashed' = crashed
    BY <1>3 DEF OpenHandle, CloseHandle, ClientStep, Send, SendFails, TimeOut, Receive, Return
<1>4. ASSUME NEW t \in Threads, Begin(t), ~\E f \in Offers(t, count) : OneTimeFails(t, f) PROVE crashed' = crashed
    BY <1>4 DEF Begin, BeginPermanent, BeginOneTime
<1>5. ASSUME NEW r \in net, Serve(r) PROVE crashed' = crashed
    BY <1>5 DEF Serve
<1>6. CASE UNCHANGED vars
    <2>1. crashed' = crashed
        BY <1>6 DEF vars
    <2> QED
        BY <1>2, <2>1
<1> QED
    BY <1>1, <1>2, <1>3, <1>4, <1>5, <1>6, ZenonT(30) DEF Next

\* What was served stays known as long as it counts.
Keeps(id) == \A i : ServedStep(id, i) => [call |-> id, step |-> i] \in served'

LEMMA ForgetKeeps ==
    ASSUME Shape, IdInv, NEW t \in Threads, served' = Forget(t)
    PROVE  /\ \A u \in Threads : InCall(u) => Keeps(call[u].id)
           /\ \A u \in Threads : u # t /\ result[u].id # 0 => Keeps(result[u].id)
<1>1. ASSUME NEW id, id # result[t].id PROVE Keeps(id)
    BY <1>1 DEF Keeps, ServedStep, Forget
<1>2. \A u \in Threads : InCall(u) => call[u].id # result[t].id
    BY DEF IdInv
<1>3. \A u \in Threads : u # t /\ result[u].id # 0 => result[u].id # result[t].id
    BY DEF IdInv
<1> QED
    BY <1>1, <1>2, <1>3

LEMMA NextKeeps ==
    ASSUME SessionInv, [Next]_vars
    PROVE  /\ \A u \in Threads : InCall(u) => Keeps(call[u].id)
           /\ \A u \in Threads : result'[u] = result[u] /\ result[u].id # 0 => Keeps(result[u].id)
           /\ late \subseteq late'
<1> DEFINE Kept == /\ \A u \in Threads : InCall(u) => Keeps(call[u].id)
                   /\ \A u \in Threads : result'[u] = result[u] /\ result[u].id # 0 => Keeps(result[u].id)
<1>0. Shape /\ IdInv
    BY DEF SessionInv
<1>a. \A t \in Threads : Offers(t, count) \subseteq DOMAIN Functions
    BY OffersAssumption DEF SessionInv, Shape
<1>1. ASSUME served \subseteq served' PROVE Kept
    BY <1>1 DEF Keeps, ServedStep
<1>2. ASSUME NEW t \in Threads, served' = Forget(t), result'[t] = Idle \/ result'[t].id = count + 1 PROVE Kept
    <2>1. result'[t] = result[t] => result[t].id = 0
        <3>1. result[t].id <= count /\ count \in Nat
            BY <1>0 DEF IdInv, Shape
        <3> QED
            BY <1>2, <3>1 DEF Idle
    <2> QED
        BY <1>0, <1>2, <2>1, ForgetKeeps
<1>3. ASSUME NEW t \in Threads, OpenHandle(t) \/ ClientStep(t) PROVE served \subseteq served' /\ late \subseteq late'
    BY <1>3 DEF OpenHandle, ClientStep, Send, SendFails, TimeOut, Receive, Return, wire
<1>4. ASSUME NEW t \in Threads, CloseHandle(t) \/ Begin(t)
      PROVE  served' = Forget(t) /\ (result'[t] = Idle \/ result'[t].id = count + 1) /\ late \subseteq late'
    <2>1. result \in [Threads -> ResultRec \cup {Idle}]
        BY <1>0 DEF Shape
    <2>2. CASE CloseHandle(t)
        BY <2>1, <2>2 DEF CloseHandle
    <2>3. ASSUME NEW f, BeginPermanent(t, f)
          PROVE  served' = Forget(t) /\ result'[t] = Idle /\ late \subseteq late'
        BY <2>1, <2>3 DEF BeginPermanent
    <2>4. ASSUME NEW f, BeginOneTime(t, f)
          PROVE  served' = Forget(t) /\ result'[t] = Idle /\ late \subseteq late'
        BY <2>1, <2>4 DEF BeginOneTime
    <2>5. ASSUME NEW f, OneTimeFails(t, f)
          PROVE  served' = Forget(t) /\ result'[t].id = count + 1 /\ late \subseteq late'
        BY <2>1, <2>5 DEF OneTimeFails, Returned
    <2> QED
        BY <1>4, <1>a, <2>2, <2>3, <2>4, <2>5 DEF Begin
<1>5. ASSUME NEW r \in net, Serve(r) PROVE served \subseteq served' /\ late \subseteq late'
    BY <1>5 DEF Serve
<1>6. CASE UNCHANGED vars
    <2>1. served \subseteq served' /\ late \subseteq late'
        BY <1>6 DEF vars, wire
    <2> QED
        BY <1>1, <2>1
<1> QED
    BY <1>1, <1>2, <1>3, <1>4, <1>5, <1>6 DEF Next

\* A step that adds no request and no response, and leaves those who wait for
\* something alone.
Undisturbed(u) ==
    \/ call'[u] = call[u] \/ ~InCall(u) \/ call[u].at # "wait" \/ call[u].msgid \in late'
    \/ inbox'[call[u].msgid] = <<>> /\ \A r \in net' : r.msgid # call[u].msgid

LEMMA WaitsMsgid ==
    ASSUME NEW u, NEW r, Waits(u, r)
    PROVE  InCall(u) /\ call[u].at = "wait" /\ r.msgid = call[u].msgid /\ r.call = call[u].id
BY DEF Waits, RequestId

LEMMA WireKept ==
    ASSUME Shape, WireInv, net' \subseteq net, late \subseteq late',
           \A m \in (1 .. MaxMsgids) \ late' : inbox'[m] \in {inbox[m], <<>>},
           \A u \in Threads : Undisturbed(u), \A u \in Threads : InCall(u) => Keeps(call[u].id)
    PROVE  WireInv'
<1>1. ASSUME NEW u \in Threads, NEW r, Waits(u, r), r.msgid \notin late',
             r \in net' \/ inbox'[r.msgid] # <<>>
      PROVE  Waits(u, r)'
    <2>1. call'[u] = call[u]
        BY <1>1, WaitsMsgid DEF Undisturbed
    <2> QED
        BY <1>1, <2>1 DEF Waits, InCall, RequestId, StepOf, StepsOf
<1>2. ASSUME NEW r \in net', r.msgid \notin late'
      PROVE  inbox'[r.msgid] = <<>> /\ \E t \in Threads : Waits(t, r)'
    <2>1. inbox[r.msgid] = <<>> /\ \E t \in Threads : Waits(t, r)
        BY <1>2 DEF WireInv
    <2>2. PICK t \in Threads : Waits(t, r)
        BY <2>1
    <2>3. Waits(t, r)'
        BY <1>1, <1>2, <2>2
    <2>4. r.msgid = call[t].msgid /\ InCall(t)
        BY <2>2, WaitsMsgid
    <2>5. inbox'[r.msgid] = <<>>
        BY <1>2, <2>1 DEF Shape, RequestRec
    <2> QED
        BY <2>3, <2>5
<1>3. ASSUME NEW m \in (1 .. MaxMsgids) \ late', inbox'[m] # <<>>
      PROVE  Len(inbox'[m]) <= 1 /\ AwaitedAnswer(Head(inbox[m]), m)' /\ inbox'[m] = inbox[m]
    <2> DEFINE a == Head(inbox[m])
    <2>1. inbox'[m] = inbox[m] /\ m \notin late /\ m \notin late'
        BY <1>3
    <2>2. Len(inbox[m]) <= 1 /\ AwaitedAnswer(a, m)
        BY <1>3, <2>1 DEF WireInv
    <2>3. inbox'[m] = inbox[m] /\ a' = a
        BY <2>1
    <2>4. AwaitedAnswer(Head(inbox[m]), m)'
        <3> HIDE DEF a
        <3>1. PICK t \in Threads : Waits(t, a.id)
            BY <2>2 DEF AwaitedAnswer
        <3>2. a.id.msgid = m
            BY <2>2 DEF AwaitedAnswer
        <3>3. Waits(t, a.id)'
            <4> DEFINE r == a.id
            <4>0. r' = r
                BY <2>3
            <4> HIDE DEF r
            <4>1. Waits(t, r) /\ r.msgid = m
                BY <3>1, <3>2 DEF r
            <4>2. call'[t] = call[t]
                BY <1>3, <2>1, <4>1, WaitsMsgid DEF Undisturbed
            <4>3. Waits(t, r)'
                BY <4>0, <4>1, <4>2 DEF Waits, InCall, RequestId, StepOf, StepsOf
            <4> QED
                BY <2>3, <4>3 DEF r
        <3>4. Good(a) => [call |-> a.id.call, step |-> a.id.step] \in served'
            BY <2>2, <3>1, WaitsMsgid DEF Keeps, AwaitedAnswer
        <3> QED
            BY <2>2, <2>3, <3>3, <3>4 DEF a, ServedStep, AwaitedAnswer, Good
    <2> QED
        BY <2>1, <2>2, <2>4
<1>4. \A m \in (1 .. MaxMsgids) \ late' : Len(inbox'[m]) <= 1
    BY <1>3
<1>5. \A m \in (1 .. MaxMsgids) \ late' : inbox'[m] # <<>> => AwaitedAnswer(Head(inbox[m]), m)'
    BY <1>3
<1> QED
    BY <1>2, <1>4, <1>5 DEF WireInv

\* On a message id on which nothing timed out the answer is the one that was
\* asked for.
LEMMA OwnAnswer ==
    ASSUME Shape, MsgidInv, WireInv, NEW t \in Threads, Asking(t, "wait"),
           inbox[call[t].msgid] # <<>>, call[t].msgid \notin late
    PROVE  LET m == call[t].msgid
               a == Head(inbox[m])
           IN  /\ Tail(inbox[m]) = <<>> /\ \A r \in net : r.msgid # m
               /\ a.id = RequestId(call[t]) /\ a.com = StepOf(call[t]).com
               /\ Good(a) => ServedStep(call[t].id, call[t].step)
<1> DEFINE m == call[t].msgid
           a == Head(inbox[m])
<1>1. InCall(t) /\ m \in (1 .. MaxMsgids) \ late
    BY Active
<1>2. Len(inbox[m]) <= 1 /\ AwaitedAnswer(a, m)
    BY <1>1 DEF WireInv
<1>3. Tail(inbox[m]) = <<>>
    BY <1>1, <1>2 DEF Shape
<1>4. \A r \in net : r.msgid # m
    BY <1>1 DEF WireInv
<1>5. PICK u \in Threads : Waits(u, a.id)
    BY <1>2 DEF AwaitedAnswer
<1>6. a.id.msgid = m /\ a.com = a.id.com /\ (Good(a) => ServedStep(a.id.call, a.id.step))
    BY <1>2 DEF AwaitedAnswer
<1> HIDE DEF a
<1>7. u = t
    <2>1. InCall(u) /\ call[u].msgid = m
        BY <1>5, <1>6, WaitsMsgid
    <2> QED
        BY <1>1, <2>1 DEF MsgidInv
<1>8. a.id = RequestId(call[t])
    BY <1>5, <1>7 DEF Waits
<1>9. a.id.call = call[t].id /\ a.id.step = call[t].step /\ a.id.com = StepOf(call[t]).com
    BY <1>8 DEF RequestId
<1> QED
    BY <1>3, <1>4, <1>6, <1>8, <1>9 DEF a

LEMMA NextWire == SessionInv /\ [Next]_vars => WireInv'
<1> SUFFICES ASSUME SessionInv, [Next]_vars PROVE WireInv'
    OBVIOUS
<1>0. Shape /\ MsgidInv /\ IdInv /\ WireInv
    BY DEF SessionInv
<1>a. late \subseteq late' /\ \A u \in Threads : InCall(u) => Keeps(call[u].id)
    BY NextKeeps
<1>b. /\ inbox \in [1 .. MaxMsgids -> Seq(Answers)] /\ net \subseteq RequestRec
      /\ call \in [Threads -> CallRec \cup {Idle}]
    BY <1>0 DEF Shape
<1>1. ASSUME net' \subseteq net, \A m \in (1 .. MaxMsgids) \ late' : inbox'[m] \in {inbox[m], <<>>},
             \A u \in Threads : Undisturbed(u)
      PROVE  WireInv'
    BY <1>0, <1>1, <1>a, WireKept
<1>2. ASSUME NEW t \in Threads, OpenHandle(t) PROVE WireInv'
    BY <1>1, <1>2 DEF OpenHandle, wire, Undisturbed
<1>3. ASSUME NEW t \in Threads, CloseHandle(t) PROVE WireInv'
    <2>1. handle[t] \in 1 .. MaxMsgids /\ Closes(handle[t]) /\ call' = call
        BY <1>0, <1>3 DEF CloseHandle, Shape
    <2>2. net' \subseteq net /\ \A m \in 1 .. MaxMsgids : inbox'[m] \in {inbox[m], <<>>}
        BY <1>0, <2>1, ClosesEffect
    <2> QED
        BY <1>1, <2>1, <2>2 DEF Undisturbed
<1>4. ASSUME NEW t \in Threads, NEW f, BeginPermanent(t, f) \/ BeginOneTime(t, f) PROVE WireInv'
    <2>1. /\ ~InCall(t) /\ \A u \in Threads : u # t => call'[u] = call[u]
          /\ net' = net /\ inbox' = inbox
        <3>1. CASE BeginPermanent(t, f)
            BY <3>1, <1>b DEF BeginPermanent, Free, InCall, Idle
        <3>2. CASE BeginOneTime(t, f)
            BY <3>2, <1>b DEF BeginOneTime, Free, InCall, Idle
        <3> QED
            BY <1>4, <3>1, <3>2
    <2> QED
        BY <1>1, <2>1 DEF Undisturbed
<1>5. ASSUME NEW t \in Threads, NEW f, OneTimeFails(t, f) PROVE WireInv'
    BY <1>1, <1>5 DEF OneTimeFails, Undisturbed
<1>6. ASSUME NEW t \in Threads, Send(t) PROVE WireInv'
    <2> DEFINE q == RequestId(call[t])
               m == call[t].msgid
    <2>1. InCall(t) /\ call[t] \in CallRec /\ call[t].at = "send" /\ m \in 1 .. MaxMsgids
        BY <1>0, <1>6, Active DEF Send
    <2>2. /\ call' = [call EXCEPT ![t] = Sent(call[t])] /\ net' = net \cup {q}
          /\ UNCHANGED <<inbox, late, served>>
        BY <1>6, <1>b, SendEffect DEF Send
    <2>3. q' = q /\ Waits(t, q)'
        <3>1. call'[t] = Sent(call[t]) /\ RequestId(Sent(call[t])) = q /\ Sent(call[t]).at = "wait" /\ Sent(call[t]).id # 0
            BY <1>b, <2>1, <2>2, SentMoves DEF InCall
        <3> QED
            BY <3>1 DEF Waits, InCall, RequestId, StepOf, StepsOf
    <2>4. ASSUME NEW u \in Threads, NEW r \in RequestRec, Waits(u, r) PROVE Waits(u, r)'
        <3>1. call'[u] = call[u]
            BY <1>b, <2>1, <2>2, <2>4, WaitsMsgid
        <3> QED
            BY <2>4, <3>1 DEF Waits, InCall, RequestId, StepOf, StepsOf
    <2>5. m \notin late => inbox[m] = <<>>
        <3> SUFFICES ASSUME m \notin late, inbox[m] # <<>> PROVE FALSE
            OBVIOUS
        <3> DEFINE a == Head(inbox[m])
        <3>1. AwaitedAnswer(a, m)
            BY <1>0, <2>1 DEF WireInv
        <3> HIDE DEF a
        <3>2. PICK u \in Threads : Waits(u, a.id)
            BY <3>1 DEF AwaitedAnswer
        <3>3. InCall(u) /\ call[u].at = "wait" /\ call[u].msgid = m
            BY <3>1, <3>2, WaitsMsgid DEF AwaitedAnswer
        <3> QED
            BY <1>0, <2>1, <3>3 DEF MsgidInv
    <2>6. ASSUME NEW r \in net', r.msgid \notin late'
          PROVE  inbox'[r.msgid] = <<>> /\ \E u \in Threads : Waits(u, r)'
        <3>1. CASE r = q
            BY <2>2, <2>3, <2>5, <2>6, <3>1 DEF RequestId
        <3>2. CASE r \in net
            BY <1>0, <1>b, <2>2, <2>4, <2>6, <3>2 DEF WireInv
        <3> QED
            BY <2>2, <3>1, <3>2
    <2>7. ASSUME NEW n \in (1 .. MaxMsgids) \ late', inbox'[n] # <<>>
          PROVE  AwaitedAnswer(Head(inbox[n]), n)'
        <3> DEFINE a == Head(inbox[n])
        <3>1. AwaitedAnswer(a, n) /\ a' = a
            BY <1>0, <2>2, <2>7 DEF WireInv
        <3>2. a \in Answers
            BY <1>b, <2>2, <2>7
        <3> HIDE DEF a
        <3>3. PICK u \in Threads : Waits(u, a.id)
            BY <3>1 DEF AwaitedAnswer
        <3>4. ASSUME NEW r \in RequestRec, r = a.id PROVE Waits(u, r)'
            BY <2>4, <3>3, <3>4
        <3>5. Waits(u, a.id)'
            BY <3>1, <3>2, <3>4 DEF Answers
        <3> QED
            BY <2>2, <3>1, <3>5 DEF a, AwaitedAnswer, ServedStep, Good
    <2>8. \A n \in (1 .. MaxMsgids) \ late' : Len(inbox'[n]) <= 1
        BY <1>0, <2>2 DEF WireInv
    <2> QED
        BY <2>6, <2>7, <2>8 DEF WireInv
<1>7. ASSUME NEW t \in Threads, SendFails(t) PROVE WireInv'
    <2>1. /\ call[t].at = "send" /\ \A u \in Threads : u # t => call'[u] = call[u]
          /\ net' = net /\ inbox' = inbox
        BY <1>7, <1>b DEF SendFails, Asking, wire
    <2> QED
        BY <1>1, <2>1 DEF Undisturbed
<1>8. ASSUME NEW t \in Threads, TimeOut(t) PROVE WireInv'
    <2>1. /\ call[t].msgid \in late' /\ \A u \in Threads : u # t => call'[u] = call[u]
          /\ net' = net /\ inbox' = inbox
        BY <1>8, <1>b DEF TimeOut
    <2> QED
        BY <1>1, <2>1 DEF Undisturbed
<1>9. ASSUME NEW t \in Threads, Receive(t) PROVE WireInv'
    <2> DEFINE m == call[t].msgid
    <2>1. /\ Asking(t, "wait") /\ inbox[m] # <<>> /\ inbox' = [inbox EXCEPT ![m] = Tail(inbox[m])]
          /\ net' = net /\ late' = late /\ \A u \in Threads : u # t => call'[u] = call[u]
        BY <1>9, <1>b, ReceiveEffect
    <2>2. m \in 1 .. MaxMsgids
        BY <1>0, <2>1, Active
    <2>3. CASE m \notin late
        <3>1. inbox'[m] = <<>> /\ \A r \in net' : r.msgid # m
            BY <1>0, <1>b, <2>1, <2>2, <2>3, OwnAnswer
        <3>2. \A n \in (1 .. MaxMsgids) \ late' : inbox'[n] \in {inbox[n], <<>>}
            BY <1>b, <2>1, <3>1
        <3> QED
            BY <1>1, <2>1, <3>1, <3>2 DEF Undisturbed
    <2>4. CASE m \in late
        <3>1. \A n \in (1 .. MaxMsgids) \ late' : inbox'[n] = inbox[n]
            BY <1>b, <2>1, <2>4
        <3> QED
            BY <1>1, <2>1, <2>4, <3>1 DEF Undisturbed
    <2> QED
        BY <2>3, <2>4
<1>10. ASSUME NEW t \in Threads, Return(t) PROVE WireInv'
    <2>1. /\ call[t].at = "end" /\ \A u \in Threads : u # t => call'[u] = call[u]
          /\ call[t].msgid \in 1 .. MaxMsgids
          /\ UNCHANGED <<open, inbox, net>> \/ Closes(call[t].msgid)
        BY <1>0, <1>10, <1>b, ReturnEffect DEF CallRec
    <2>2. net' \subseteq net /\ \A n \in 1 .. MaxMsgids : inbox'[n] \in {inbox[n], <<>>}
        BY <1>0, <2>1, ClosesEffect
    <2> QED
        BY <1>1, <2>1, <2>2 DEF Undisturbed
<1>11. ASSUME NEW r \in net, Serve(r) PROVE WireInv'
    <2> DEFINE m == r.msgid
    <2>0. m \in 1 .. MaxMsgids /\ net' = net \ {r} /\ call' = call /\ late' = late
        BY <1>11, <1>b DEF Serve, RequestRec
    <2>1. PICK kind \in ReceiveObject[r.com].answers, arrives \in BOOLEAN :
             /\ served' = IF kind \notin {"error", "none"} /\ \E t \in Threads : call[t].id = r.call
                          THEN served \cup {[call |-> r.call, step |-> r.step]} ELSE served
             /\ inbox' = IF kind # "none" /\ arrives
                         THEN [inbox EXCEPT ![m] = Append(@, [id |-> r, com |-> r.com, kind |-> kind])]
                         ELSE inbox
        BY <1>11 DEF Serve
    <2> DEFINE x == [id |-> r, com |-> r.com, kind |-> kind]
    <2>2. \A n \in 1 .. MaxMsgids : n # m => inbox'[n] = inbox[n]
        BY <1>b, <2>1
    <2>3. CASE m \in late
        BY <1>1, <2>0, <2>2, <2>3 DEF Undisturbed
    <2>4. CASE m \notin late
        <3>1. PICK t \in Threads : Waits(t, r)
            BY <1>0, <2>4 DEF WireInv
        <3>2. inbox[m] = <<>>
            BY <1>0, <2>4 DEF WireInv
        <3>3. inbox'[m] = <<>> \/ (inbox'[m] = <<x>> /\ kind # "none")
            BY <1>b, <2>0, <2>1, <3>2
        <3>4. ASSUME NEW u, NEW q, q' = q, Waits(u, q) PROVE Waits(u, q)'
            BY <2>0, <3>4 DEF Waits, InCall, RequestId, StepOf, StepsOf
        <3>5. ASSUME NEW q \in net', q.msgid \notin late'
              PROVE  inbox'[q.msgid] = <<>> /\ \E u \in Threads : Waits(u, q)'
            <4>1. q \in net /\ q # r /\ q \in RequestRec
                BY <1>b, <2>0, <3>5
            <4>2. inbox[q.msgid] = <<>> /\ \E u \in Threads : Waits(u, q)
                BY <1>0, <2>0, <3>5, <4>1 DEF WireInv
            <4>3. PICK u \in Threads : Waits(u, q)
                BY <4>2
            <4>4. q.msgid # m
                <5>1. InCall(t) /\ InCall(u) /\ call[t].msgid = m /\ call[u].msgid = q.msgid
                    BY <3>1, <4>3, WaitsMsgid
                <5>2. q.msgid = m => t = u
                    BY <1>0, <5>1 DEF MsgidInv
                <5> QED
                    BY <3>1, <4>1, <4>3, <5>2 DEF Waits
            <4> QED
                BY <2>2, <3>4, <4>1, <4>2, <4>3, <4>4 DEF RequestRec
        <3>6. ASSUME NEW n \in (1 .. MaxMsgids) \ late' PROVE Len(inbox'[n]) <= 1
            <4>1. CASE n = m
                <5> HIDE DEF x
                <5>1. inbox'[n] = <<>> \/ inbox'[n] = <<x>>
                    BY <3>3, <4>1
                <5>2. Len(<<>>) <= 1 /\ Len(<<x>>) <= 1
                    OBVIOUS
                <5> QED
                    BY <5>1, <5>2, Zenon
            <4>2. CASE n # m
                BY <1>0, <2>0, <2>2, <4>2 DEF WireInv
            <4> QED
                BY <4>1, <4>2
        <3>7. ASSUME inbox'[m] # <<>> PROVE AwaitedAnswer(Head(inbox[m]), m)'
            <4>1. Head(inbox'[m]) = x /\ kind # "none"
                BY <3>3, <3>7
            <4>2. Good(x) => ServedStep(r.call, r.step)'
                BY <2>1, <3>1, <4>1, WaitsMsgid DEF Good, ServedStep
            <4>3. Waits(t, r)'
                BY <3>1, <3>4
            <4> QED
                BY <4>1, <4>2, <4>3 DEF AwaitedAnswer, Good, ServedStep
        <3>8. ASSUME NEW n \in (1 .. MaxMsgids) \ late', inbox'[n] # <<>>, n # m
              PROVE  AwaitedAnswer(Head(inbox[n]), n)'
            <4> DEFINE a == Head(inbox[n])
            <4>1. AwaitedAnswer(a, n) /\ a' = a
                BY <1>0, <2>0, <2>2, <3>8 DEF WireInv
            <4> HIDE DEF a
            <4>2. PICK u \in Threads : Waits(u, a.id)
                BY <4>1 DEF AwaitedAnswer
            <4>3. Waits(u, a.id)'
                BY <3>4, <4>1, <4>2
            <4>4. served \subseteq served'
                BY <2>1
            <4> QED
                BY <4>1, <4>3, <4>4 DEF a, AwaitedAnswer, ServedStep, Good
        <3> QED
            BY <3>3, <3>5, <3>6, <3>7, <3>8 DEF WireInv
    <2> QED
        BY <2>3, <2>4
<1>12. CASE UNCHANGED vars
    BY <1>1, <1>12 DEF vars, wire, Undisturbed
<1> QED
    BY <1>2, <1>3, <1>4, <1>5, <1>6, <1>7, <1>8, <1>9, <1>10, <1>11, <1>12 DEF Next, Begin, ClientStep

LEMMA CallKept ==
    ASSUME NEW u \in Threads, CallInv(u), call'[u] = call[u], code'[u] = code[u], Keeps(call[u].id),
           late \subseteq late'
    PROVE  CallInv(u)'
<1> DEFINE c == call[u]
<1>1. c' = c
    OBVIOUS
<1>2. c.msgid \notin late => ServedInv(c)
    BY DEF CallInv
<1>3. ServedInv(c) => ServedInv(c)'
    BY <1>1 DEF ServedInv, ServedStep, Keeps
<1> QED
    BY <1>1, <1>2, <1>3 DEF CallInv

\* A call that goes on without an answer.
LEMMA CallGoesOn ==
    ASSUME NEW t \in Threads, CallInv(t), NEW c \in CallRec, NEW d \in CallRec, call[t] = c, call'[t] = d,
           d.id = c.id /\ d.f = c.f /\ d.pm = c.pm /\ d.msgid = c.msgid /\ d.main = c.main /\ d.some = c.some,
           EndInv(d), \A i \in DOMAIN StepsOf(c) : Passed(d, i) /\ StepsOf(c)[i].onFail = "stop" => Passed(c, i),
           code'[t] = code[t], Keeps(c.id), late \subseteq late'
    PROVE  CallInv(t)'
<1>1. StepsOf(d) = StepsOf(c)
    BY DEF StepsOf
<1>2. MainInv(c) /\ (c.msgid \notin late => ServedInv(c))
      /\ (c.pm /\ c.main # None => code[t] = [call |-> c.id, good |-> Good(c.main)])
    BY DEF CallInv
<1>3. MainInv(d)
    BY <1>1, <1>2 DEF MainInv
<1>4. d.msgid \notin late' => ServedInv(d)'
    BY <1>1, <1>2 DEF ServedInv, ServedStep, Keeps
<1> QED
    BY <1>2, <1>3, <1>4 DEF CallInv

\* A call that takes an answer: if nothing timed out on its message id, its own.
LEMMA CallAnswered ==
    ASSUME NEW t \in Threads, CallInv(t), NEW c \in CallRec, NEW a \in Answers, c.step \in DOMAIN StepsOf(c),
           call[t] = c, call'[t] = Answered(c, a),
           code'[t] = IF StepOf(c).main /\ c.pm THEN [call |-> c.id, good |-> Good(a)] ELSE code[t],
           Keeps(c.id), late \subseteq late', c.msgid \notin late /\ Good(a) => ServedStep(c.id, c.step)
    PROVE  CallInv(t)'
<1> DEFINE d == Answered(c, a)
           s == StepsOf(c)
<1>0. /\ MainInv(c) /\ (c.msgid \notin late => ServedInv(c))
      /\ (c.pm /\ c.main # None => code[t] = [call |-> c.id, good |-> Good(c.main)])
    BY DEF CallInv
<1>1. /\ d \in CallRec /\ d.id = c.id /\ d.f = c.f /\ d.pm = c.pm /\ d.msgid = c.msgid /\ EndInv(d)
      /\ StepsOf(d) = s
    BY AnsweredMoves DEF Moved, EndInv, StepsOf
<1>2. d.main = (IF StepOf(c).main THEN a ELSE c.main) /\ (d.some => c.some \/ Good(a))
    BY AnsweredMoves
<1>3. \A i \in DOMAIN s :
         Passed(d, i) /\ s[i].onFail = "stop" =>
            i < c.step \/ (i = c.step /\ (Good(a) \/ s[i].onError = "ignore"))
    <2>1. StepOf(c) = s[c.step]
        BY DEF StepOf
    <2>2. \A i \in DOMAIN s :
             Passed(d, i) =>
                \/ i < c.step
                \/ i = c.step /\ (StepOf(c).onFail = "ignore" \/ Good(a) \/ StepOf(c).onError = "ignore")
        BY AnsweredMoves
    <2> HIDE DEF d, s
    <2> QED
        BY <2>1, <2>2
<1>4. a # None
    BY DEF Answers, None, Coms
<1>5. Sound(Functions[c.f]) /\ s = Functions[c.f].steps /\ StepOf(c) = s[c.step]
    BY FunctionsSound DEF CallRec, StepsOf, StepOf
<1> HIDE DEF d, s
<1>6. MainInv(d)
    <2> SUFFICES ASSUME NEW i \in DOMAIN s, Passed(d, i), s[i].onFail = "stop", s[i].main PROVE d.main # None
        BY <1>1 DEF MainInv
    <2>1. i < c.step \/ i = c.step
        BY <1>3
    <2>2. CASE i < c.step
        <3>1. c.main # None
            BY <1>0, <2>2 DEF MainInv, Passed, s
        <3> QED
            BY <1>2, <1>4, <3>1
    <2>3. CASE i = c.step
        BY <1>2, <1>4, <1>5, <2>3
    <2> QED
        BY <2>1, <2>2, <2>3
<1>7. ASSUME d.msgid \notin late' PROVE ServedInv(d)'
    <2>0. ServedInv(c) /\ (Good(a) => ServedStep(c.id, c.step))
        BY <1>0, <1>1, <1>7
    <2>1. ASSUME NEW i \in DOMAIN s, Passed(d, i), s[i].onFail = "stop",
                 ~(s[i].main /\ Functions[c.f].code = "response" /\ ~Good(d.main))
          PROVE  ServedStep(c.id, i)
        <3>1. i < c.step \/ (i = c.step /\ (Good(a) \/ s[i].onError = "ignore"))
            BY <1>3, <2>1
        <3>2. CASE i < c.step
            <4>1. Passed(c, i)
                BY <3>2 DEF Passed
            <4>2. ServedStep(c.id, i) \/ (s[i].main /\ Functions[c.f].code = "response" /\ ~Good(c.main))
                BY <2>0, <2>1, <4>1 DEF ServedInv, s
            <4>3. s[i].main => ~StepOf(c).main
                <5>1. c.step \in DOMAIN s /\ i # c.step
                    BY <3>2 DEF s, CallRec
                <5> QED
                    BY <1>5, <5>1 DEF Sound
            <4>4. s[i].main => d.main = c.main
                BY <1>2, <4>3
            <4> QED
                BY <2>1, <4>2, <4>4
        <3>3. CASE i = c.step /\ Good(a)
            BY <2>0, <3>3
        <3>4. CASE i = c.step /\ ~Good(a) /\ s[i].onError = "ignore"
            <4>1. Functions[c.f].code = "response" /\ s[i].main
                BY <1>5, <2>1, <3>4 DEF Sound
            <4> QED
                BY <1>2, <1>5, <2>1, <3>4, <4>1
        <3> QED
            BY <3>1, <3>2, <3>3, <3>4
    <2>2. ASSUME c.f = "get_state", d.some PROVE \E i \in 1 .. 2 : ServedStep(c.id, i)
        <3>1. DOMAIN s = 1 .. 2
            BY <1>5, <2>2, FunctionCodes DEF CallRec
        <3> QED
            BY <1>2, <2>0, <2>2, <3>1 DEF ServedInv, s
    <2>3. \A i : ServedStep(c.id, i) => ServedStep(c.id, i)'
        BY DEF Keeps, ServedStep
    <2> QED
        BY <1>1, <2>1, <2>2, <2>3 DEF ServedInv
<1>8. d.pm /\ d.main # None => code'[t] = [call |-> d.id, good |-> Good(d.main)]
    BY <1>0, <1>1, <1>2
<1>9. call'[t] = d /\ EndInv(d)
    BY <1>1 DEF d
<1> QED
    BY <1>6, <1>7, <1>8, <1>9 DEF CallInv

LEMMA NextCalls == SessionInv /\ [Next]_vars => CallsInv'
<1> SUFFICES ASSUME SessionInv, [Next]_vars PROVE CallsInv'
    OBVIOUS
<1>0. Shape /\ MsgidInv /\ IdInv /\ WireInv /\ CallsInv
    BY DEF SessionInv
<1>a. late \subseteq late' /\ \A u \in Threads : InCall(u) => Keeps(call[u].id)
    BY NextKeeps
<1>b. /\ call \in [Threads -> CallRec \cup {Idle}]
      /\ code \in [Threads -> [call : 0 .. MaxCalls, good : BOOLEAN]]
      /\ inbox \in [1 .. MaxMsgids -> Seq(Answers)]
    BY <1>0 DEF Shape
\* What a step leaves alone, and what is no longer a call.
<1>1. ASSUME NEW u \in Threads, call'[u] = call[u], code'[u] = code[u] PROVE InCall(u)' => CallInv(u)'
    <2>1. InCall(u)' => InCall(u)
        BY <1>1 DEF InCall
    <2>2. InCall(u) => CallInv(u)'
        BY <1>0, <1>1, <1>a, CallKept DEF CallsInv
    <2> QED
        BY <2>1, <2>2
<1>2. ASSUME NEW t \in Threads, \A u \in Threads : u # t => call'[u] = call[u] /\ code'[u] = code[u],
             InCall(t)' => CallInv(t)'
      PROVE  CallsInv'
    <2>1. ASSUME NEW u \in Threads PROVE InCall(u)' => CallInv(u)'
        <3>1. CASE u = t
            BY <1>2, <3>1
        <3>2. CASE u # t
            BY <1>1, <1>2, <3>2
        <3> QED
            BY <3>1, <3>2
    <2> QED
        BY <2>1 DEF CallsInv
<1>3. ASSUME call' = call, code' = code PROVE CallsInv'
    BY <1>1, <1>3 DEF CallsInv
<1>4. ASSUME NEW t \in Threads, OpenHandle(t) PROVE CallsInv'
    BY <1>3, <1>4 DEF OpenHandle
<1>5. ASSUME NEW t \in Threads, CloseHandle(t) PROVE CallsInv'
    <2>1. /\ \A u \in Threads : u # t => call'[u] = call[u] /\ code'[u] = code[u]
          /\ call'[t] = Idle
        BY <1>5, <1>b DEF CloseHandle, Free
    <2> QED
        BY <1>2, <2>1 DEF InCall, Idle
<1>6. ASSUME NEW t \in Threads, NEW f \in DOMAIN Functions, NEW pm, NEW m,
             call' = [call EXCEPT ![t] = NewCall(f, pm, m)], code' = code
      PROVE  CallsInv'
    <2> DEFINE c == NewCall(f, pm, m)
    <2>1. /\ \A u \in Threads : u # t => call'[u] = call[u] /\ code'[u] = code[u]
          /\ call'[t] = c
        BY <1>6, <1>b
    <2>2. c.f = f /\ c.step = 1 /\ c.at = "send" /\ c.main = None /\ c.some = FALSE
        BY DEF NewCall
    <2>3. StepsOf(c) \in Seq(Steps)
        BY <2>2, FunctionsSound DEF StepsOf, Sound
    <2> HIDE DEF c
    <2>4. \A i \in DOMAIN StepsOf(c) : ~Passed(c, i)
        BY <2>2, <2>3 DEF Passed
    <2>5. MainInv(c) /\ EndInv(c)
        BY <2>2, <2>4 DEF MainInv, EndInv
    <2>6. CallInv(t)'
        BY <2>1, <2>2, <2>4, <2>5 DEF CallInv, ServedInv
    <2> QED
        BY <1>2, <2>1, <2>6
<1>7. ASSUME NEW t \in Threads, NEW f \in DOMAIN Functions, BeginPermanent(t, f) PROVE CallsInv'
    BY <1>6, <1>7 DEF BeginPermanent
<1>8. ASSUME NEW t \in Threads, NEW f \in DOMAIN Functions, BeginOneTime(t, f) PROVE CallsInv'
    BY <1>6, <1>8 DEF BeginOneTime
<1>9. ASSUME NEW t \in Threads, NEW f \in DOMAIN Functions, OneTimeFails(t, f) PROVE CallsInv'
    BY <1>3, <1>9 DEF OneTimeFails
<1>10. ASSUME NEW t \in Threads, Send(t) PROVE CallsInv'
    <2> DEFINE c == call[t]
    <2>1. InCall(t) /\ c \in CallRec /\ c.at = "send"
        BY <1>0, <1>10, Active DEF Send
    <2>2. call' = [call EXCEPT ![t] = Sent(c)] /\ code' = code
        BY <1>10, <1>b, SendEffect DEF Send
    <2>3. \A i \in DOMAIN StepsOf(c) : Passed(Sent(c), i) => Passed(c, i)
        BY <2>1, SentMoves DEF Passed
    <2>4. EndInv(Sent(c))
        BY <2>1, SentMoves DEF EndInv
    <2>5. CallInv(t)'
        BY <1>0, <1>a, <1>b, <2>1, <2>2, <2>3, <2>4, SentMoves, CallGoesOn DEF CallsInv
    <2> QED
        BY <1>2, <1>b, <2>2, <2>5
<1>11. ASSUME NEW t \in Threads, SendFails(t) \/ TimeOut(t) PROVE CallsInv'
    <2> DEFINE c == call[t]
               rule == StepOf(c).onFail
               d == Go(c, rule)
    <2>1. InCall(t) /\ c \in CallRec /\ c.step \in DOMAIN StepsOf(c)
        BY <1>0, <1>11, Active DEF SendFails, TimeOut
    <2>2. call' = [call EXCEPT ![t] = d] /\ code' = code
        BY <1>11, <1>b DEF SendFails, TimeOut
    <2>3. /\ Moved(c, d) /\ d.main = c.main /\ d.some = c.some
          /\ \A i \in DOMAIN StepsOf(c) : Passed(d, i) => i < c.step \/ (i = c.step /\ rule = "ignore")
        BY <2>1, GoMoves
    <2>4. \A i \in DOMAIN StepsOf(c) : Passed(d, i) /\ StepsOf(c)[i].onFail = "stop" => Passed(c, i)
        BY <2>3 DEF StepOf, Passed
    <2> HIDE DEF d
    <2>5. EndInv(d)
        BY <2>3 DEF EndInv, Moved, StepsOf
    <2>6. CallInv(t)'
        BY <1>0, <1>a, <1>b, <2>1, <2>2, <2>3, <2>4, <2>5, CallGoesOn DEF CallsInv, Moved
    <2> QED
        BY <1>2, <1>b, <2>2, <2>6
<1>12. ASSUME NEW t \in Threads, Receive(t) PROVE CallsInv'
    <2> DEFINE c == call[t]
               a == Head(inbox[c.msgid])
    <2>1. /\ InCall(t) /\ c \in CallRec /\ c.step \in DOMAIN StepsOf(c) /\ c.msgid \in 1 .. MaxMsgids
          /\ Asking(t, "wait") /\ inbox[c.msgid] # <<>>
        BY <1>0, <1>12, Active DEF Receive
    <2>2. a \in Answers
        BY <1>b, <2>1
    <2>3. /\ call' = [call EXCEPT ![t] = Answered(c, a)]
          /\ code' = IF StepOf(c).main /\ c.pm
                     THEN [code EXCEPT ![t] = [call |-> c.id, good |-> Good(a)]] ELSE code
        BY <1>12, ReceiveEffect
    <2>4. c.msgid \notin late /\ Good(a) => ServedStep(c.id, c.step)
        BY <1>0, <2>1, OwnAnswer
    <2> HIDE DEF a
    <2>5. /\ call'[t] = Answered(c, a)
          /\ code'[t] = IF StepOf(c).main /\ c.pm THEN [call |-> c.id, good |-> Good(a)] ELSE code[t]
          /\ \A u \in Threads : u # t => call'[u] = call[u] /\ code'[u] = code[u]
        BY <1>b, <2>3
    <2>6. CallInv(t)'
        BY <1>0, <1>a, <2>1, <2>2, <2>4, <2>5, CallAnswered DEF CallsInv
    <2> QED
        BY <1>2, <2>5, <2>6
<1>13. ASSUME NEW t \in Threads, Return(t) PROVE CallsInv'
    <2>1. call' = [call EXCEPT ![t] = Idle] /\ code' = [code EXCEPT ![t] = CodeAfter(t, call[t])]
        BY <1>0, <1>13, ReturnEffect
    <2>2. /\ \A u \in Threads : u # t => call'[u] = call[u] /\ code'[u] = code[u]
          /\ call'[t] = Idle
        BY <1>b, <2>1
    <2> QED
        BY <1>2, <2>2 DEF InCall, Idle
<1>14. ASSUME NEW r \in net, Serve(r) PROVE CallsInv'
    BY <1>3, <1>14 DEF Serve
<1>15. CASE UNCHANGED vars
    BY <1>3, <1>15 DEF vars
<1>16. \A t \in Threads : Offers(t, count) \subseteq DOMAIN Functions
    BY <1>0, OffersAssumption DEF Shape
<1> QED
    BY <1>4, <1>5, <1>7, <1>8, <1>9, <1>10, <1>11, <1>12, <1>13, <1>14, <1>15, <1>16 DEF Next, Begin, ClientStep

LEMMA NextAlien == SessionInv /\ [Next]_vars => AlienOnlyAfterTimeout'
<1> SUFFICES ASSUME SessionInv, [Next]_vars PROVE AlienOnlyAfterTimeout'
    OBVIOUS
<1>0. Shape /\ MsgidInv /\ WireInv /\ alien \subseteq late /\ late \subseteq late'
    BY NextKeeps DEF SessionInv, AlienOnlyAfterTimeout
<1>1. ASSUME alien' = alien PROVE AlienOnlyAfterTimeout'
    BY <1>0, <1>1 DEF AlienOnlyAfterTimeout
<1>2. ASSUME NEW t \in Threads, OpenHandle(t) \/ CloseHandle(t) \/ Begin(t) PROVE alien' = alien
    BY <1>2 DEF OpenHandle, CloseHandle, Begin, BeginPermanent, BeginOneTime, OneTimeFails, wire
<1>3. ASSUME NEW t \in Threads, Send(t) \/ SendFails(t) \/ TimeOut(t) \/ Return(t) PROVE alien' = alien
    BY <1>3 DEF Send, SendFails, TimeOut, Return, wire
<1>4. ASSUME NEW t \in Threads, Receive(t) PROVE AlienOnlyAfterTimeout'
    <2> DEFINE m == call[t].msgid
               a == Head(inbox[m])
    <2>1. /\ Asking(t, "wait") /\ inbox[m] # <<>>
          /\ alien' = IF a.id = RequestId(call[t]) THEN alien ELSE alien \cup {m}
        BY <1>4, ReceiveEffect
    <2>2. m \notin late => a.id = RequestId(call[t])
        BY <1>0, <2>1, OwnAnswer
    <2> HIDE DEF a
    <2> QED
        BY <1>0, <2>1, <2>2 DEF AlienOnlyAfterTimeout
<1>5. ASSUME NEW r \in net, Serve(r) PROVE alien' = alien
    BY <1>5 DEF Serve
<1>6. CASE UNCHANGED vars
    BY <1>1, <1>6 DEF vars, wire
<1> QED
    BY <1>1, <1>2, <1>3, <1>4, <1>5, <1>6 DEF Next, ClientStep

\* A call that returns true has passed all its requests.
LEMMA AllPassed ==
    ASSUME Shape, MsgidInv, CallsInv, NEW t \in Threads, Return(t), Succeeds(call[t])
    PROVE  /\ CallInv(t) /\ call[t].ok /\ call[t] \in CallRec
           /\ \A i \in DOMAIN StepsOf(call[t]) : Passed(call[t], i)
<1>1. call[t] \in CallRec /\ InCall(t) /\ call[t].at = "end" /\ call[t].ok
    BY ReturnEffect DEF Succeeds
<1>2. CallInv(t)
    BY <1>1 DEF CallsInv
<1>3. call[t].step = Len(StepsOf(call[t]))
    BY <1>1, <1>2 DEF CallInv, EndInv
<1>4. StepsOf(call[t]) \in Seq(Steps)
    BY <1>1, FunctionsSound DEF CallRec, Sound, StepsOf
<1> DEFINE s == StepsOf(call[t])
<1> HIDE DEF s
<1>5. DOMAIN s = 1 .. Len(s) /\ Len(s) \in Nat
    BY <1>4 DEF s
<1>6. \A n \in Nat : \A i \in 1 .. n : i < n \/ i = n
    OBVIOUS
<1> QED
    BY <1>1, <1>2, <1>3, <1>5, <1>6 DEF Passed, s

\* What TrueMeansServed says of one result.
Vouched(r) ==
    (r # Idle /\ r.ok /\ r.good /\ r.msgid \notin late) =>
       /\ \A i \in DOMAIN Functions[r.f].steps :
             Functions[r.f].steps[i].onFail = "stop" => ServedStep(r.id, i)
       /\ r.f = "get_state" => \E i \in 1 .. 2 : ServedStep(r.id, i)

LEMMA VouchedAll == TrueMeansServed <=> \A t \in Threads : Vouched(result[t])
BY DEF TrueMeansServed, Vouched, ServedStep

LEMMA NextTrue == SessionInv /\ [Next]_vars => TrueMeansServed'
<1> SUFFICES ASSUME SessionInv, [Next]_vars PROVE TrueMeansServed'
    OBVIOUS
<1>0. /\ Shape /\ MsgidInv /\ IdInv /\ CallsInv /\ late \subseteq late'
      /\ \A u \in Threads : Vouched(result[u])
    BY NextKeeps, VouchedAll DEF SessionInv
<1>a. /\ result \in [Threads -> ResultRec \cup {Idle}]
      /\ \A u \in Threads : result'[u] = result[u] /\ result[u].id # 0 => Keeps(result[u].id)
    BY <1>0, NextKeeps DEF Shape
<1>1. ASSUME NEW u \in Threads, result'[u] = result[u] PROVE Vouched(result[u])'
    <2>1. CASE result[u] = Idle
        BY <1>1, <2>1 DEF Vouched
    <2>2. CASE result[u] # Idle
        <3>1. Keeps(result[u].id)
            BY <1>1, <1>a, <2>2 DEF ResultRec
        <3>2. \A i : ServedStep(result[u].id, i) => ServedStep(result[u].id, i)'
            BY <1>1, <3>1 DEF Keeps, ServedStep
        <3> DEFINE r == result[u]
        <3>3. r' = r /\ Vouched(r) /\ \A i : ServedStep(r.id, i) => ServedStep(r.id, i)'
            BY <1>0, <1>1, <3>2
        <3> HIDE DEF r
        <3>4. Vouched(r)'
            BY <1>0, <3>3 DEF Vouched
        <3> QED
            BY <3>4 DEF r
    <2> QED
        BY <2>1, <2>2
<1>2. ASSUME NEW t \in Threads, \A u \in Threads : u # t => result'[u] = result[u], Vouched(result[t])'
      PROVE  TrueMeansServed'
    <2>1. ASSUME NEW u \in Threads PROVE Vouched(result[u])'
        <3>1. CASE u = t
            BY <1>2, <3>1
        <3>2. CASE u # t
            BY <1>1, <1>2, <3>2
        <3> QED
            BY <3>1, <3>2
    <2>2. (\A u \in Threads : Vouched(result[u]))'
        BY <2>1
    <2>3. (TrueMeansServed <=> \A u \in Threads : Vouched(result[u]))'
        BY DEF TrueMeansServed, Vouched, ServedStep
    <2> QED
        BY <2>2, <2>3
<1>3. ASSUME result' = result PROVE TrueMeansServed'
    <2>1. (\A u \in Threads : Vouched(result[u]))'
        BY <1>1, <1>3
    <2>3. (TrueMeansServed <=> \A u \in Threads : Vouched(result[u]))'
        BY DEF TrueMeansServed, Vouched, ServedStep
    <2> QED
        BY <2>1, <2>3
<1>4. ASSUME NEW t \in Threads, result' = [result EXCEPT ![t] = Idle] PROVE TrueMeansServed'
    <2>1. Vouched(result[t])'
        BY <1>4, <1>a DEF Vouched
    <2> QED
        BY <1>2, <1>4, <1>a, <2>1
<1>5. ASSUME NEW t \in Threads, OpenHandle(t) \/ Goes(t) PROVE TrueMeansServed'
    BY <1>3, <1>5 DEF OpenHandle, Goes, Send, SendFails, TimeOut, Receive
<1>6. ASSUME NEW t \in Threads, NEW f, CloseHandle(t) \/ BeginPermanent(t, f) \/ BeginOneTime(t, f)
      PROVE  TrueMeansServed'
    BY <1>4, <1>6 DEF CloseHandle, BeginPermanent, BeginOneTime
<1>7. ASSUME NEW t \in Threads, NEW f, OneTimeFails(t, f) PROVE TrueMeansServed'
    <2>1. result' = [result EXCEPT ![t] = Returned(count', f, FALSE, 0, FALSE, FALSE)]
        BY <1>7 DEF OneTimeFails
    <2>2. result'[t].ok = FALSE /\ \A u \in Threads : u # t => result'[u] = result[u]
        BY <1>a, <2>1 DEF Returned
    <2>3. Vouched(result[t])'
        BY <2>2 DEF Vouched
    <2> QED
        BY <1>2, <2>2, <2>3
<1>8. ASSUME NEW t \in Threads, Return(t) PROVE TrueMeansServed'
    <2> DEFINE c == call[t]
               r == Result(c)
    <2>1. /\ result' = [result EXCEPT ![t] = r] /\ c \in CallRec
          /\ r.id = c.id /\ r.f = c.f /\ r.msgid = c.msgid /\ r.ok = Succeeds(c)
          /\ late' = late /\ served' = served
        BY <1>0, <1>8, ReturnEffect
    <2>2. r.good = IF Functions[c.f].code = "response" THEN c.main # None /\ Good(c.main) ELSE Succeeds(c)
        BY DEF Result, Returned
    <2> HIDE DEF r
    <2>3. ASSUME r.ok, r.good, r.msgid \notin late
          PROVE  /\ \A i \in DOMAIN Functions[r.f].steps :
                       Functions[r.f].steps[i].onFail = "stop" => ServedStep(r.id, i)
                 /\ r.f = "get_state" => \E i \in 1 .. 2 : ServedStep(r.id, i)
        <3>1. /\ CallInv(t) /\ \A i \in DOMAIN StepsOf(c) : Passed(c, i)
              /\ c.f = "get_state" => c.some
            BY <1>0, <1>8, <2>1, <2>3, AllPassed DEF Succeeds
        <3>2. ServedInv(c)
            BY <2>1, <2>3, <3>1 DEF CallInv
        <3>3. Functions[c.f].code = "response" => Good(c.main)
            BY <2>2, <2>3
        <3> QED
            BY <2>1, <3>1, <3>2, <3>3 DEF ServedInv, StepsOf
    <2>4. result'[t] = r /\ \A u \in Threads : u # t => result'[u] = result[u]
        BY <1>a, <2>1
    <2>5. Vouched(result[t])'
        BY <2>1, <2>3, <2>4 DEF Vouched, ServedStep
    <2> QED
        BY <1>2, <2>4, <2>5
<1>9. ASSUME NEW r \in net, Serve(r) PROVE TrueMeansServed'
    BY <1>3, <1>9 DEF Serve
<1>10. CASE UNCHANGED vars
    BY <1>3, <1>10 DEF vars
<1> QED
    BY <1>5, <1>6, <1>7, <1>8, <1>9, <1>10 DEF Next, Begin, ClientStep, Goes

\* What CodeIsOwn says of one thread.
Own(t) ==
    (result[t] # Idle /\ call[t] = Idle /\ result[t].pm /\ result[t].ok /\ result[t].f # "get_state") =>
       code[t] = [call |-> result[t].id, good |-> result[t].good]

LEMMA NextCode == SessionInv /\ [Next]_vars => CodeIsOwn'
<1> SUFFICES ASSUME SessionInv, [Next]_vars PROVE CodeIsOwn'
    OBVIOUS
<1>0. /\ Shape /\ MsgidInv /\ CallsInv
      /\ \A u \in Threads : Own(u)
    BY DEF SessionInv, CodeIsOwn, Own
<1>a. /\ result \in [Threads -> ResultRec \cup {Idle}] /\ call \in [Threads -> CallRec \cup {Idle}]
      /\ code \in [Threads -> [call : 0 .. MaxCalls, good : BOOLEAN]]
    BY <1>0 DEF Shape
<1>b. CodeIsOwn' <=> \A u \in Threads : Own(u)'
    BY DEF CodeIsOwn, Own
<1>1. ASSUME NEW u \in Threads, result'[u] = result[u], call'[u] = call[u], code'[u] = code[u] PROVE Own(u)'
    BY <1>0, <1>1 DEF Own
<1>2. ASSUME NEW t \in Threads, Own(t)',
             \A u \in Threads : u # t => result'[u] = result[u] /\ call'[u] = call[u] /\ code'[u] = code[u]
      PROVE  CodeIsOwn'
    <2>1. ASSUME NEW u \in Threads PROVE Own(u)'
        <3>1. CASE u = t
            BY <1>2, <3>1
        <3>2. CASE u # t
            BY <1>1, <1>2, <3>2
        <3> QED
            BY <3>1, <3>2
    <2> QED
        BY <1>b, <2>1
<1>3. ASSUME result' = result, call' = call, code' = code PROVE CodeIsOwn'
    BY <1>1, <1>3, <1>b
<1>4. ASSUME NEW t \in Threads, OpenHandle(t) PROVE CodeIsOwn'
    BY <1>3, <1>4 DEF OpenHandle
<1>5. ASSUME NEW t \in Threads, CloseHandle(t) PROVE CodeIsOwn'
    <2>1. /\ result'[t] = Idle
          /\ \A u \in Threads : u # t => result'[u] = result[u] /\ call'[u] = call[u] /\ code'[u] = code[u]
        BY <1>5, <1>a DEF CloseHandle
    <2> QED
        BY <1>2, <2>1 DEF Own
<1>6. ASSUME NEW t \in Threads, NEW f, BeginPermanent(t, f) \/ BeginOneTime(t, f) PROVE CodeIsOwn'
    <2>1. result' = [result EXCEPT ![t] = Idle] /\ code' = code /\ \E c : call' = [call EXCEPT ![t] = c]
        BY <1>6 DEF BeginPermanent, BeginOneTime
    <2>2. /\ result'[t] = Idle
          /\ \A u \in Threads : u # t => result'[u] = result[u] /\ call'[u] = call[u] /\ code'[u] = code[u]
        BY <1>a, <2>1
    <2> QED
        BY <1>2, <2>2 DEF Own
<1>7. ASSUME NEW t \in Threads, NEW f, OneTimeFails(t, f) PROVE CodeIsOwn'
    <2>1. result' = [result EXCEPT ![t] = Returned(count', f, FALSE, 0, FALSE, FALSE)] /\ code' = code /\ call' = call
        BY <1>7 DEF OneTimeFails
    <2>2. /\ result'[t].ok = FALSE
          /\ \A u \in Threads : u # t => result'[u] = result[u] /\ call'[u] = call[u] /\ code'[u] = code[u]
        BY <1>a, <2>1 DEF Returned
    <2> QED
        BY <1>2, <2>2 DEF Own
<1>8. ASSUME NEW t \in Threads, Goes(t) PROVE CodeIsOwn'
    <2>1. PICK e \in CallRec : call' = [call EXCEPT ![t] = e]
        BY <1>0, <1>8, GoesEffect
    <2>2. result' = result /\ (code' = code \/ \E g : code' = [code EXCEPT ![t] = g])
        BY <1>0, <1>8, GoesEffect
    <2>3. e # Idle
        BY BoundsAssumption DEF CallRec, Idle
    <2>4. /\ call'[t] # Idle
          /\ \A u \in Threads : u # t => result'[u] = result[u] /\ call'[u] = call[u] /\ code'[u] = code[u]
        BY <1>a, <2>1, <2>2, <2>3
    <2> QED
        BY <1>2, <2>4 DEF Own
<1>9. ASSUME NEW t \in Threads, Return(t) PROVE CodeIsOwn'
    <2> DEFINE c == call[t]
               r == Result(c)
    <2>1. /\ call' = [call EXCEPT ![t] = Idle] /\ result' = [result EXCEPT ![t] = r] /\ c \in CallRec
          /\ code' = [code EXCEPT ![t] = CodeAfter(t, c)]
          /\ r.id = c.id /\ r.f = c.f /\ r.pm = c.pm /\ r.ok = Succeeds(c)
        BY <1>0, <1>9, ReturnEffect
    <2>2. r.good = IF Functions[c.f].code = "response" THEN c.main # None /\ Good(c.main) ELSE Succeeds(c)
        BY DEF Result, Returned
    <2> HIDE DEF r
    <2>3. ASSUME r.pm, r.ok, r.f # "get_state" PROVE CodeAfter(t, c) = [call |-> r.id, good |-> r.good]
        <3>1. CallInv(t) /\ \A i \in DOMAIN StepsOf(c) : Passed(c, i)
            BY <1>0, <1>9, <2>1, <2>3, AllPassed
        <3>2. CASE Functions[c.f].code = "response"
            <4>1. PICK i \in DOMAIN StepsOf(c) : StepsOf(c)[i].main /\ StepsOf(c)[i].onFail = "stop"
                BY <2>1, <3>2, FunctionsSound DEF CallRec, Sound, StepsOf
            <4>2. c.main # None
                BY <3>1, <4>1 DEF CallInv, MainInv
            <4>3. code[t] = [call |-> c.id, good |-> Good(c.main)]
                BY <2>1, <2>3, <3>1, <4>2 DEF CallInv
            <4>4. r.good = Good(c.main)
                BY <2>2, <3>2, <4>2 DEF Good
            <4> QED
                BY <2>1, <3>2, <4>3, <4>4 DEF CodeAfter
        <3>3. CASE Functions[c.f].code # "response"
            <4>1. Functions[c.f].code # "made_up_on_failure"
                BY <2>1, <2>3, FunctionCodes DEF CallRec
            <4>2. r.good = TRUE /\ (Succeeds(c) \/ c.f = "get_state") = TRUE
                BY <2>1, <2>2, <2>3, <3>3 DEF Succeeds
            <4>3. CodeAfter(t, c) = [call |-> c.id, good |-> Succeeds(c) \/ c.f = "get_state"]
                BY <2>1, <2>3, <3>3, <4>1 DEF CodeAfter
            <4> QED
                BY <2>1, <4>2, <4>3
        <3> QED
            BY <3>2, <3>3
    <2>4. /\ result'[t] = r /\ code'[t] = CodeAfter(t, c)
          /\ \A u \in Threads : u # t => result'[u] = result[u] /\ call'[u] = call[u] /\ code'[u] = code[u]
        BY <1>a, <2>1
    <2>5. Own(t)'
        BY <2>3, <2>4 DEF Own
    <2> QED
        BY <1>2, <2>4, <2>5
<1>10. ASSUME NEW r \in net, Serve(r) PROVE CodeIsOwn'
    BY <1>3, <1>10 DEF Serve
<1>11. CASE UNCHANGED vars
    BY <1>3, <1>11 DEF vars
<1> QED
    BY <1>4, <1>5, <1>6, <1>7, <1>8, <1>9, <1>10, <1>11 DEF Next, Begin, ClientStep, Goes

LEMMA NextAccounted == SessionInv /\ MsgidsAccounted /\ [Next]_vars => MsgidsAccounted'
<1> SUFFICES ASSUME SessionInv, MsgidsAccounted, [Next]_vars PROVE MsgidsAccounted'
    OBVIOUS
<1>0. Shape /\ MsgidInv
    BY DEF SessionInv
<1>a. /\ handle \in [Threads -> 0 .. MaxMsgids] /\ open \subseteq 1 .. Len(opened) /\ 0 \notin open
      /\ call \in [Threads -> CallRec \cup {Idle}]
    BY <1>0 DEF Shape
<1>b. \A t \in Threads : Offers(t, count) \subseteq DOMAIN Functions
    BY <1>0, OffersAssumption DEF Shape
<1> DEFINE Held(m) == \/ \E t \in Threads : handle[t] = m
                      \/ \E t \in Threads : call[t] # Idle /\ call[t].msgid = m
                      \/ opened[m] = "get_subkeys"
<1>c. \A m \in open : Held(m)
    BY DEF MsgidsAccounted
<1> SUFFICES ASSUME NEW m \in open' PROVE Held(m)'
    BY DEF MsgidsAccounted
<1>1. ASSUME m \in open, handle' = handle, call' = call, opened' = opened PROVE Held(m)'
    BY <1>1, <1>c
<1>2. ASSUME NEW t \in Threads, OpenHandle(t) PROVE Held(m)'
    <2>1. /\ open' = open \cup {Fresh} /\ \A n \in open : opened'[n] = opened[n]
          /\ handle[t] = 0 /\ handle' = [handle EXCEPT ![t] = Fresh] /\ call' = call
        BY <1>0, <1>2, OpensEffect DEF OpenHandle
    <2>2. CASE m = Fresh
        BY <1>a, <2>1, <2>2
    <2>3. CASE m \in open
        BY <1>a, <1>c, <2>1, <2>3
    <2> QED
        BY <2>1, <2>2, <2>3
<1>3. ASSUME NEW t \in Threads, CloseHandle(t) PROVE Held(m)'
    <2>1. /\ open' = open \ {handle[t]} /\ handle' = [handle EXCEPT ![t] = 0] /\ call' = call /\ opened' = opened
        BY <1>3 DEF CloseHandle, Closes
    <2> QED
        BY <1>a, <1>c, <2>1
<1>4. ASSUME NEW t \in Threads, NEW f, BeginPermanent(t, f) PROVE Held(m)'
    <2>1. /\ call[t] = Idle /\ \A u \in Threads : u # t => call'[u] = call[u]
          /\ open' = open /\ handle' = handle /\ opened' = opened
        BY <1>4, <1>a DEF BeginPermanent, Free
    <2> QED
        BY <1>c, <2>1
<1>5. ASSUME NEW t \in Threads, NEW f \in DOMAIN Functions, BeginOneTime(t, f) PROVE Held(m)'
    <2>1. Opens(t, f) /\ call[t] = Idle /\ call' = [call EXCEPT ![t] = NewCall(f, FALSE, Fresh)] /\ handle' = handle
        BY <1>5 DEF BeginOneTime, Free
    <2>2. open' = open \cup {Fresh} /\ \A n \in open : opened'[n] = opened[n]
        BY <1>0, <2>1, OpensEffect
    <2>3. /\ call'[t].msgid = Fresh /\ call'[t].id # 0 /\ \A u \in Threads : u # t => call'[u] = call[u]
        BY <1>0, <1>a, <2>1, BoundsAssumption DEF NewCall, Shape
    <2>4. CASE m = Fresh
        <3>1. call'[t] # Idle
            BY <2>3 DEF Idle
        <3> QED
            BY <2>3, <2>4, <3>1
    <2>5. CASE m \in open
        BY <1>c, <2>1, <2>2, <2>3, <2>5
    <2> QED
        BY <2>2, <2>4, <2>5
<1>6. ASSUME NEW t \in Threads, NEW f, OneTimeFails(t, f) PROVE Held(m)'
    BY <1>1, <1>6 DEF OneTimeFails
<1>7. ASSUME NEW t \in Threads, Goes(t) PROVE Held(m)'
    <2>1. PICK e \in CallRec : call' = [call EXCEPT ![t] = e] /\ e.msgid = call[t].msgid
        BY <1>0, <1>7, GoesEffect
    <2>2. open' = open /\ handle' = handle /\ opened' = opened
        BY <1>0, <1>7, GoesEffect
    <2>3. e # Idle
        BY BoundsAssumption DEF CallRec, Idle
    <2> QED
        BY <1>a, <1>c, <2>1, <2>2, <2>3
<1>8. ASSUME NEW t \in Threads, Return(t) PROVE Held(m)'
    <2> DEFINE c == call[t]
    <2>1. /\ c \in CallRec /\ InCall(t) /\ call' = [call EXCEPT ![t] = Idle] /\ handle' = handle /\ opened' = opened
          /\ \/ open' = open /\ (c.pm \/ ~Functions[c.f].frees)
             \/ Closes(c.msgid)
        BY <1>0, <1>8, ReturnEffect
    <2>2. m \in open
        BY <2>1 DEF Closes
    <2>3. CASE \E u \in Threads : u # t /\ call[u] # Idle /\ call[u].msgid = m
        BY <1>a, <2>1, <2>3
    <2>4. CASE handle[t] = m \/ (\E u \in Threads : handle[u] = m) \/ opened[m] = "get_subkeys"
        BY <2>1, <2>4
    <2>5. CASE c.msgid = m
        <3>1. open' = open /\ (c.pm \/ ~Functions[c.f].frees)
            BY <2>1, <2>5 DEF Closes
        <3>2. CASE c.pm
            BY <1>0, <2>1, <2>5, <3>2 DEF MsgidInv
        <3>3. CASE ~c.pm
            <4>1. c.f = "get_subkeys"
                BY <2>1, <3>1, <3>3, FunctionCodes DEF CallRec
            <4> QED
                BY <1>0, <2>1, <2>5, <3>3, <4>1 DEF MsgidInv
        <3> QED
            BY <3>2, <3>3
    <2> QED
        BY <1>c, <2>2, <2>3, <2>4, <2>5
<1>9. ASSUME NEW r \in net, Serve(r) PROVE Held(m)'
    BY <1>1, <1>9 DEF Serve
<1>10. CASE UNCHANGED vars
    BY <1>1, <1>10 DEF vars
<1> QED
    BY <1>2, <1>3, <1>4, <1>5, <1>6, <1>7, <1>8, <1>9, <1>10, <1>b DEF Next, Begin, ClientStep, Goes

-----------------------------------------------------------------------------
LEMMA SessionInvariant == Spec => [](SessionInv /\ MsgidsAccounted)
<1>1. Init => SessionInv /\ MsgidsAccounted
    BY InitSession DEF Init, MsgidsAccounted
<1>2. SessionInv /\ MsgidsAccounted /\ [Next]_vars => (SessionInv /\ MsgidsAccounted)'
    BY NextShape, NextCrashed, NextIds, NextMsgids, NextWire, NextCalls, NextAlien, NextTrue, NextCode,
       NextAccounted DEF SessionInv
<1> QED
    BY <1>1, <1>2, PTL DEF Spec

\* The types (K2hdkcSlave, K2hdkcCommand): in particular a call is at one of its
\* requests and on a message id that is open.
THEOREM TypeCorrect == Spec => []TypeOK
<1>1. SessionInv => TypeOK
    <2> SUFFICES ASSUME SessionInv PROVE TypeOK
        OBVIOUS
    <2>0. Shape /\ IdInv /\ MsgidInv
        BY DEF SessionInv
    <2>1. crashed \in BOOLEAN
        BY DEF SessionInv
    <2>2. \A t \in Threads : CallType(call[t])
        <3> SUFFICES ASSUME NEW t \in Threads, call[t] # Idle PROVE CallType(call[t])
            BY DEF CallType
        <3>1. call[t] \in CallRec
            BY <2>0 DEF Shape
        <3>2. InCall(t)
            BY <3>1, BoundsAssumption DEF CallRec, InCall
        <3> QED
            BY <2>0, <3>1, <3>2 DEF CallType, CallRec, MsgidInv
    <2>3. \A t \in Threads : (handle[t] # 0 => handle[t] \in open) /\ code[t].call <= count /\ result[t].id <= count
        BY <2>0 DEF IdInv, MsgidInv
    <2>4. /\ handle \in [Threads -> 0 .. MaxMsgids] /\ count \in 0 .. MaxCalls
          /\ open \subseteq DOMAIN opened /\ late \subseteq DOMAIN opened /\ alien \subseteq DOMAIN opened
        BY <2>0 DEF Shape
    <2> QED
        BY <2>1, <2>2, <2>3, <2>4, Zenon DEF TypeOK
<1> QED
    BY <1>1, SessionInvariant, PTL

\* CommandSending compares nothing, and yet takes the response to another
\* request only on a message id on which a request has timed out before.
THEOREM AlienAfterTimeout == Spec => []AlienOnlyAfterTimeout
<1>1. SessionInv => AlienOnlyAfterTimeout
    BY DEF SessionInv
<1> QED
    BY <1>1, SessionInvariant, PTL

\* A call that returned true with a code of success, on a message id on which
\* nothing timed out, has had every request served that it depends on.
THEOREM SuccessWasServed == Spec => []TrueMeansServed
<1>1. SessionInv => TrueMeansServed
    BY DEF SessionInv
<1> QED
    BY <1>1, SessionInvariant, PTL

\* After a call with a handle that returned true the code of the handle is that
\* of this call (k2hdkc_get_lastres_code); only get_state may leave an older one.
THEOREM CodeBelongsToCall == Spec => []CodeIsOwn
<1>1. SessionInv => CodeIsOwn
    BY DEF SessionInv
<1> QED
    BY <1>1, SessionInvariant, PTL

\* No function but k2hdkc_get_subkeys leaves a message id open that nobody can
\* close any more.
THEOREM OnlyGetSubkeysLeaks == Spec => []MsgidsAccounted
BY SessionInvariant, PTL


-----------------------------------------------------------------------------
(* What a server finds in a request, for parts of any length.              *)

\* The request q for a command com, whose parts have the lengths n, is what the
\* server h expects: no part it reads is missing, reaches beyond the message or
\* lies over another one, and it works on the key that chose it.
Fitting(com, q, h, n) ==
    /\ h.invalid \subseteq q.needs /\ h.key = q.hash
    /\ DOMAIN q.at \subseteq PartNames /\ h.reads \subseteq DOMAIN q.at
    /\ \A p \in h.reads : q.at[p] \in Nat /\ q.at[p] + n[p] <= q.size
    /\ \A p, r \in h.reads : p # r => q.at[p] + n[p] <= q.at[r] \/ q.at[r] + n[r] <= q.at[p]
    /\ h.uses \subseteq q.sets \/ (com = "QPOP" /\ h.uses \ q.sets = {"check_attr"})

\* Each command on one key, and
LEMMA KeyCommandsFit ==
    ASSUME NEW n \in [PartNames -> Nat]
    PROVE  /\ DOMAIN SendKeyCommand(n) \subseteq DOMAIN ReceiveKeyCommand
           /\ \A com \in DOMAIN SendKeyCommand(n) : Fitting(com, SendKeyCommand(n)[com], ReceiveKeyCommand[com], n)
<1> USE DEF Fitting, PartNames, Request, Server
<1>1. Fitting("GET", GetRequest(n), GetServer, n)
    BY DEF GetRequest, GetServer
<1>2. Fitting("GET_DIRECT", GetDirectRequest(n), GetDirectServer, n)
    BY DEF GetDirectRequest, GetDirectServer
<1>3. Fitting("GET_SUBKEYS", GetSubkeysRequest(n), GetSubkeysServer, n)
    BY DEF GetSubkeysRequest, GetSubkeysServer
<1>4. Fitting("GET_ATTRS", GetAttrsRequest(n), GetAttrsServer, n)
    BY DEF GetAttrsRequest, GetAttrsServer
<1>5. Fitting("GET_ATTR", GetAttrRequest(n), GetAttrServer, n)
    BY DEF GetAttrRequest, GetAttrServer
<1>6. Fitting("SET", SetRequest(n), SetServer, n)
    BY DEF SetRequest, SetServer
<1>7. Fitting("SET_DIRECT", SetDirectRequest(n), SetDirectServer, n)
    BY DEF SetDirectRequest, SetDirectServer
<1>8. Fitting("SET_SUBKEYS", SetSubkeysRequest(n), SetSubkeysServer, n)
    BY DEF SetSubkeysRequest, SetSubkeysServer
<1>9. Fitting("SET_ALL", SetAllRequest(n), SetAllServer, n)
    BY DEF SetAllRequest, SetAllServer
<1>10. Fitting("ADD_SUBKEYS", AddSubkeysRequest(n), AddSubkeysServer, n)
    BY DEF AddSubkeysRequest, AddSubkeysServer
<1>11. Fitting("DEL", DelRequest(n), DelServer, n)
    BY DEF DelRequest, DelServer
<1>12. Fitting("DEL_SUBKEYS", DelSubkeysRequest(n), DelSubkeysServer, n)
    BY DEF DelSubkeysRequest, DelSubkeysServer
<1> HIDE DEF Fitting, PartNames, Request, Server
<1> QED
    BY <1>1, <1>2, <1>3, <1>4, <1>5, <1>6, <1>7, <1>8, <1>9, <1>10, <1>11, <1>12 DEF SendKeyCommand, ReceiveKeyCommand

\* each of the others.
LEMMA OtherCommandsFit ==
    ASSUME NEW n \in [PartNames -> Nat]
    PROVE  /\ DOMAIN SendOtherCommand(n) \subseteq DOMAIN ReceiveOtherCommand
           /\ \A com \in DOMAIN SendOtherCommand(n) : Fitting(com, SendOtherCommand(n)[com], ReceiveOtherCommand[com], n)
<1> USE DEF Fitting, PartNames, Request, Server
<1>1. Fitting("REN", RenRequest(n), RenServer, n)
    BY DEF RenRequest, RenServer
<1>2. Fitting("QPUSH", QPushRequest(n), QPushServer, n)
    BY DEF QPushRequest, QPushServer
<1>3. Fitting("QPOP", QPopRequest(n), QPopServer, n)
    BY DEF QPopRequest, QPopServer
<1>4. Fitting("CAS_INIT", CasInitRequest(n), CasInitServer, n)
    BY DEF CasInitRequest, CasInitServer
<1>5. Fitting("CAS_GET", CasGetRequest(n), CasGetServer, n)
    BY DEF CasGetRequest, CasGetServer
<1>6. Fitting("CAS_SET", CasSetRequest(n), CasSetServer, n)
    BY DEF CasSetRequest, CasSetServer
<1>7. Fitting("CAS_INCDEC", CasIncDecRequest(n), CasIncDecServer, n)
    BY DEF CasIncDecRequest, CasIncDecServer
<1>8. Fitting("REPL_KEY", ReplKeyRequest(n), ReplKeyServer, n)
    BY DEF ReplKeyRequest, ReplKeyServer
<1>9. Fitting("REPL_DEL", ReplDelRequest(n), ReplDelServer, n)
    BY DEF ReplDelRequest, ReplDelServer
<1>10. Fitting("K2HSTATE", K2hStateRequest(n), K2hStateServer, n)
    BY DEF K2hStateRequest, K2hStateServer
<1> HIDE DEF Fitting, PartNames, Request, Server
<1> QED
    BY <1>1, <1>2, <1>3, <1>4, <1>5, <1>6, <1>7, <1>8, <1>9, <1>10 DEF SendOtherCommand, ReceiveOtherCommand

\* No command is in both tables, so that putting them together hides none.
LEMMA TablesApart ==
    ASSUME NEW n
    PROVE  /\ DOMAIN SendKeyCommand(n) \cap DOMAIN SendOtherCommand(n) = {}
           /\ DOMAIN ReceiveKeyCommand \cap DOMAIN ReceiveOtherCommand = {}
           /\ DOMAIN SendKeyCommand(n) = DOMAIN SendKeyCommand(Zeros)
           /\ DOMAIN SendOtherCommand(n) = DOMAIN SendOtherCommand(Zeros)
           /\ Coms \subseteq DOMAIN SendKeyCommand(n) \cup DOMAIN SendOtherCommand(n)
BY DEF SendKeyCommand, SendOtherCommand, ReceiveKeyCommand, ReceiveOtherCommand, Coms

LEMMA TogetherIs ==
    ASSUME NEW f, NEW g, DOMAIN f \cap DOMAIN g = {}
    PROVE  /\ DOMAIN Together(f, g) = DOMAIN f \cup DOMAIN g
           /\ \A x \in DOMAIN f : Together(f, g)[x] = f[x]
           /\ \A x \in DOMAIN g : Together(f, g)[x] = g[x]
BY DEF Together

\* The class of each command, found in one table or in the other.
LEMMA SendObjectIs ==
    ASSUME NEW n
    PROVE  /\ DOMAIN SendObject(n) = DOMAIN SendKeyCommand(n) \cup DOMAIN SendOtherCommand(n)
           /\ \A com \in DOMAIN SendKeyCommand(n) : SendObject(n)[com] = SendKeyCommand(n)[com]
           /\ \A com \in DOMAIN SendOtherCommand(n) : SendObject(n)[com] = SendOtherCommand(n)[com]
<1>1. PICK f, g : f = SendKeyCommand(n) /\ g = SendOtherCommand(n)
    OBVIOUS
<1>2. DOMAIN f \cap DOMAIN g = {} /\ SendObject(n) = Together(f, g)
    BY <1>1, TablesApart DEF SendObject
<1>3. /\ DOMAIN Together(f, g) = DOMAIN f \cup DOMAIN g
      /\ \A x \in DOMAIN f : Together(f, g)[x] = f[x]
      /\ \A x \in DOMAIN g : Together(f, g)[x] = g[x]
    BY <1>2, TogetherIs
<1> QED
    BY <1>1, <1>2, <1>3

LEMMA ReceiveObjectIs ==
    /\ \A com \in DOMAIN ReceiveKeyCommand : ReceiveObject[com] = ReceiveKeyCommand[com]
    /\ \A com \in DOMAIN ReceiveOtherCommand : ReceiveObject[com] = ReceiveOtherCommand[com]
<1>1. PICK f, g : f = ReceiveKeyCommand /\ g = ReceiveOtherCommand
    OBVIOUS
<1>2. DOMAIN f \cap DOMAIN g = {} /\ ReceiveObject = Together(f, g)
    BY <1>1, TablesApart DEF ReceiveObject
<1>3. /\ DOMAIN Together(f, g) = DOMAIN f \cup DOMAIN g
      /\ \A x \in DOMAIN f : Together(f, g)[x] = f[x]
      /\ \A x \in DOMAIN g : Together(f, g)[x] = g[x]
    BY <1>2, TogetherIs
<1> QED
    BY <1>1, <1>2, <1>3

LEMMA AllFit ==
    ASSUME NEW n \in [PartNames -> Nat]
    PROVE  /\ DOMAIN SendObject(n) = DOMAIN SendObject(Zeros) /\ Coms \subseteq DOMAIN SendObject(n)
           /\ \A com \in DOMAIN SendObject(n) : Fitting(com, SendObject(n)[com], ReceiveObject[com], n)
<1>1. /\ DOMAIN SendObject(n) = DOMAIN SendKeyCommand(n) \cup DOMAIN SendOtherCommand(n)
      /\ DOMAIN SendObject(Zeros) = DOMAIN SendKeyCommand(Zeros) \cup DOMAIN SendOtherCommand(Zeros)
    BY SendObjectIs
<1>2. DOMAIN SendObject(n) = DOMAIN SendObject(Zeros) /\ Coms \subseteq DOMAIN SendObject(n)
    BY <1>1, TablesApart
<1>3. ASSUME NEW com \in DOMAIN SendObject(n)
      PROVE  Fitting(com, SendObject(n)[com], ReceiveObject[com], n)
    <2>1. CASE com \in DOMAIN SendKeyCommand(n)
        <3>1. com \in DOMAIN ReceiveKeyCommand
            BY <2>1, KeyCommandsFit
        <3>2. SendObject(n)[com] = SendKeyCommand(n)[com]
            BY <2>1, SendObjectIs
        <3>3. ReceiveObject[com] = ReceiveKeyCommand[com]
            BY <3>1, ReceiveObjectIs
        <3> QED
            BY <2>1, <3>2, <3>3, KeyCommandsFit
    <2>2. CASE com \in DOMAIN SendOtherCommand(n)
        <3>1. com \in DOMAIN ReceiveOtherCommand
            BY <2>2, OtherCommandsFit
        <3>2. SendObject(n)[com] = SendOtherCommand(n)[com]
            BY <2>2, SendObjectIs
        <3>3. ReceiveObject[com] = ReceiveOtherCommand[com]
            BY <3>1, ReceiveObjectIs
        <3> QED
            BY <2>2, <3>2, <3>3, OtherCommandsFit
    <2> QED
        BY <1>1, <2>1, <2>2
<1> QED
    BY <1>2, <1>3

\* What TLC evaluates with parts of length 0 and 1 is a case of this.
LEMMA EveryCommandUnderstood == \A com \in DOMAIN SendObject(Zeros) : Understood(com)
<1> SUFFICES ASSUME NEW com \in DOMAIN SendObject(Zeros), NEW l \in Lengths(com)
             PROVE  LET n == Together(l, Zeros)
                        q == SendObject(n)[com]
                        h == ReceiveObject[com]
                        Part(p) == {x \in 0 .. q.size : q.at[p] <= x /\ x < q.at[p] + n[p]}
                    IN  /\ h.invalid \subseteq q.needs
                        /\ h.reads \subseteq DOMAIN q.at
                        /\ \A p \in h.reads : q.at[p] + n[p] <= q.size
                        /\ \A p, r \in h.reads : p # r => Part(p) \cap Part(r) = {}
                        /\ h.uses \subseteq q.sets \/ (com = "QPOP" /\ h.uses \ q.sets = {"check_attr"})
                        /\ h.key = q.hash
    BY DEF Understood
<1> DEFINE n == Together(l, Zeros)
           q == SendObject(n)[com]
           h == ReceiveObject[com]
           Part(p) == {x \in 0 .. q.size : q.at[p] <= x /\ x < q.at[p] + n[p]}
<1>1. Zeros \in [PartNames -> Nat]
    BY DEF Zeros
<1>2. DOMAIN SendObject(Zeros)[com].at \subseteq PartNames
    BY <1>1, AllFit DEF Fitting
<1>3. n \in [PartNames -> Nat]
    <2>1. l \in [DOMAIN SendObject(Zeros)[com].at -> 0 .. 1]
        BY DEF Lengths
    <2> QED
        BY <1>1, <1>2, <2>1 DEF Together
<1> HIDE DEF n
<1>4. Fitting(com, q, h, n)
    BY <1>3, AllFit
<1> HIDE DEF q, h
<1>5. \A p, r \in h.reads : p # r => Part(p) \cap Part(r) = {}
    <2> SUFFICES ASSUME NEW p \in h.reads, NEW r \in h.reads, p # r, NEW x \in Part(p), x \in Part(r)
                 PROVE  FALSE
        OBVIOUS
    <2>1. /\ q.at[p] \in Nat /\ q.at[r] \in Nat /\ p \in PartNames /\ r \in PartNames
          /\ q.at[p] + n[p] <= q.at[r] \/ q.at[r] + n[r] <= q.at[p]
        BY <1>4 DEF Fitting
    <2>2. x \in Int /\ q.at[p] <= x /\ x < q.at[p] + n[p] /\ q.at[r] <= x /\ x < q.at[r] + n[r]
        OBVIOUS
    <2>3. n[p] \in Nat /\ n[r] \in Nat
        BY <1>3, <2>1
    <2> QED
        BY <2>1, <2>2, <2>3
<1>6. /\ h.invalid \subseteq q.needs
      /\ h.reads \subseteq DOMAIN q.at
      /\ \A p \in h.reads : q.at[p] + n[p] <= q.size
      /\ h.uses \subseteq q.sets \/ (com = "QPOP" /\ h.uses \ q.sets = {"check_attr"})
      /\ h.key = q.hash
    BY <1>4 DEF Fitting
<1> QED
    BY <1>5, <1>6 DEF n, q, h

\* A server finds in every request of a client what the client has put there,
\* and nothing it needs is missing but check_attr in QPOP: the sending half of
\* each src/lib/k2hdkccom*.cc fits its receiving half.
THEOREM RequestsUnderstood == Spec => []RequestUnderstood
<1>1. SessionInv => RequestUnderstood
    <2> SUFFICES ASSUME SessionInv, NEW r \in net PROVE r.com \in UnderstoodCommands
        BY DEF RequestUnderstood
    <2>1. r.com \in Coms
        BY DEF SessionInv, Shape, RequestRec
    <2>2. Zeros \in [PartNames -> Nat]
        BY DEF Zeros
    <2>3. r.com \in DOMAIN SendObject(Zeros)
        BY <2>1, <2>2, AllFit
    <2> QED
        BY <2>3, EveryCommandUnderstood DEF UnderstoodCommands
<1> QED
    BY <1>1, SessionInvariant, PTL

\* The same whatever lengths the parts of the request have.
THEOREM RequestsFitAtAnyLength ==
    Spec => [](\A r \in net, n \in [PartNames -> Nat] :
                  Fitting(r.com, SendObject(n)[r.com], ReceiveObject[r.com], n))
<1>1. SessionInv => \A r \in net, n \in [PartNames -> Nat] :
                       Fitting(r.com, SendObject(n)[r.com], ReceiveObject[r.com], n)
    BY AllFit DEF SessionInv, Shape, RequestRec
<1> QED
    BY <1>1, SessionInvariant, PTL
=============================================================================
