------------------------------ MODULE Commands ------------------------------
(***************************************************************************)
(* The commands of k2hdkc as messages: for each of src/lib/k2hdkccom*.cc   *)
(* the half that builds the request and takes the response (CommandSend,   *)
(* GetResponseData), the half that reads the request and builds the        *)
(* response (CommandProcessing, MakeResponse...), the two factories of     *)
(* src/lib/k2hdkccombase.cc that choose the class of a command, and the    *)
(* commands that a client carries out as several requests.                 *)
(*                                                                         *)
(* The two halves are translated apart from each other: nothing here makes *)
(* them agree.  What the handlers do to the keys is in KeyCommands,        *)
(* DkcQueue and CompositeCommands.                                         *)
(*                                                                         *)
(* A request is a header followed by the parts (key, value, ...) one after *)
(* the other, each found by an offset and a length.  n[p] is the length of *)
(* part p, and offsets are counted from the end of the header.             *)
(***************************************************************************)
EXTENDS Naturals, Sequences

PartNames == {"key", "val", "attrs", "attr", "subkeys", "subkey", "oldkey", "newkey",
              "oldval", "newval", "prefix", "encpass"}

\* What a client puts into a request of a command: the offset of each part
\* (at), the length of all parts (size), the part whose hash chooses the
\* server (hash), the other fields it sets, the parts and fields without which
\* it refuses to send (needs), and whether it insists on a response of the same
\* command (own) or takes any.
Request(com, at, size, hash, sets, needs, own) ==
    [com |-> com, at |-> at, size |-> size, hash |-> hash, sets |-> sets, needs |-> needs, own |-> own]

\* What a server makes of it: the part that is the key (or the name) it works
\* on, the parts and fields it reads, those without which it answers INVAL, and
\* the kinds of answer it may give.
Server(key, reads, uses, invalid, answers) ==
    [key |-> key, reads |-> reads, uses |-> uses, invalid |-> invalid, answers |-> answers]

\* Kinds of answer: data, a success without data, an error; or none at all.
Found   == {"data", "nodata", "error"}
Changed == {"done", "error"}

-----------------------------------------------------------------------------
(* Reading.                                                                *)

GetRequest(n) ==
    Request("GET", [key |-> 0, encpass |-> n.key], n.key + n.encpass, "key", {"check_attr"}, {"key"}, TRUE)
GetServer == Server("key", {"key", "encpass"}, {"check_attr"}, {"key"}, Found)

GetDirectRequest(n) ==
    Request("GET_DIRECT", [key |-> 0], n.key, "key",
            {"val_pos", "val_length"}, {"key", "val_pos", "val_length"}, TRUE)
GetDirectServer ==
    Server("key", {"key"}, {"val_pos", "val_length"}, {"key", "val_pos", "val_length"}, Found)

GetSubkeysRequest(n) ==
    Request("GET_SUBKEYS", [key |-> 0], n.key, "key", {"check_attr"}, {"key"}, TRUE)
GetSubkeysServer == Server("key", {"key"}, {"check_attr"}, {"key"}, Found)

GetAttrsRequest(n) == Request("GET_ATTRS", [key |-> 0], n.key, "key", {}, {"key"}, TRUE)
GetAttrsServer == Server("key", {"key"}, {}, {"key"}, Found)

GetAttrRequest(n) ==
    Request("GET_ATTR", [key |-> 0, attr |-> n.key], n.key + n.attr, "key", {}, {"key", "attr"}, TRUE)

\* A key that has attributes, but not this one, gets no answer: byAttr is null
\* and no response is set.
GetAttrServer == Server("key", {"key", "attr"}, {}, {"key", "attr"}, Found \cup {"none"})

CasGetRequest(n) ==
    Request("CAS_GET", [key |-> 0, encpass |-> n.key], n.key + n.encpass, "key", {"check_attr"}, {"key"}, TRUE)
CasGetServer == Server("key", {"key", "encpass"}, {"check_attr"}, {"key"}, Found)

\* The sender of QPOP does not set check_attr.
QPopRequest(n) ==
    Request("QPOP", [prefix |-> 0, encpass |-> n.prefix], n.prefix + n.encpass,
            "prefix", {"fifo", "keyqueue"}, {}, TRUE)
QPopServer == Server("prefix", {"prefix", "encpass"}, {"fifo", "keyqueue", "check_attr"}, {}, Found)

\* K2HSTATE goes to the server of a given hash and id, and only from a slave.
K2hStateRequest(n) ==
    Request("K2HSTATE", <<>>, 0, "base_hash", {"chmpxid", "base_hash"}, {}, TRUE)
K2hStateServer == Server("base_hash", {}, {"chmpxid", "base_hash"}, {}, {"data", "error"})

-----------------------------------------------------------------------------
(* Writing: the client takes any response that has a code.                 *)

SetRequest(n) ==
    Request("SET", [key |-> 0, val |-> n.key, attrs |-> n.key + n.val, encpass |-> n.key + n.val + n.attrs],
            n.key + n.val + n.attrs + n.encpass, "key",
            {"expire", "enable_expire", "rm_subkeylist", "queue_type"}, {"key", "queue_type"}, FALSE)
SetServer ==
    Server("key", {"key", "val", "attrs", "encpass"},
           {"expire", "enable_expire", "rm_subkeylist", "queue_type"}, {"key"}, Changed)

SetDirectRequest(n) ==
    Request("SET_DIRECT", [key |-> 0, val |-> n.key], n.key + n.val, "key",
            {"val_pos"}, {"key", "val", "val_pos"}, FALSE)
SetDirectServer == Server("key", {"key", "val"}, {"val_pos"}, {"key", "val"}, Changed)

SetSubkeysRequest(n) ==
    Request("SET_SUBKEYS", [key |-> 0, subkeys |-> n.key], n.key + n.subkeys, "key", {}, {"key"}, FALSE)
SetSubkeysServer == Server("key", {"key", "subkeys"}, {}, {"key"}, Changed)

\* Mutant: the attributes are put where the subkeys are.
SetAllRequestOverlaps(n) ==
    Request("SET_ALL", [key |-> 0, val |-> n.key, subkeys |-> n.key + n.val, attrs |-> n.key + n.val],
            n.key + n.val + n.subkeys + n.attrs, "key", {}, {"key"}, FALSE)

SetAllRequest(n) ==
    Request("SET_ALL", [key |-> 0, val |-> n.key, subkeys |-> n.key + n.val, attrs |-> n.key + n.val + n.subkeys],
            n.key + n.val + n.subkeys + n.attrs, "key", {}, {"key"}, FALSE)
SetAllServer == Server("key", {"key", "val", "subkeys", "attrs"}, {}, {"key"}, Changed)

AddSubkeysRequest(n) ==
    Request("ADD_SUBKEYS", [key |-> 0, subkey |-> n.key], n.key + n.subkey, "key",
            {"check_attr"}, {"key", "subkey"}, FALSE)
AddSubkeysServer == Server("key", {"key", "subkey"}, {"check_attr"}, {"key", "subkey"}, Changed)

DelSubkeysRequest(n) ==
    Request("DEL_SUBKEYS", [key |-> 0, subkey |-> n.key], n.key + n.subkey, "key",
            {"check_attr"}, {"key", "subkey"}, FALSE)
DelSubkeysServer == Server("key", {"key", "subkey"}, {"check_attr"}, {"key", "subkey"}, Changed)

DelRequest(n) == Request("DEL", [key |-> 0], n.key, "key", {}, {"key"}, FALSE)
DelServer == Server("key", {"key"}, {}, {"key"}, Changed)

RenRequest(n) ==
    Request("REN", [oldkey |-> 0, newkey |-> n.oldkey, encpass |-> n.oldkey + n.newkey],
            n.oldkey + n.newkey + n.encpass, "oldkey", {"check_attr"}, {"oldkey", "newkey"}, FALSE)
RenServer ==
    Server("oldkey", {"oldkey", "newkey", "encpass"}, {"check_attr"}, {"oldkey", "newkey"}, Changed)

QPushRequest(n) ==
    Request("QPUSH",
            [prefix |-> 0, key |-> n.prefix, val |-> n.prefix + n.key, attrs |-> n.prefix + n.key + n.val,
             encpass |-> n.prefix + n.key + n.val + n.attrs],
            n.prefix + n.key + n.val + n.attrs + n.encpass, "prefix",
            {"expire", "enable_expire", "check_attr", "fifo"}, {"val"}, FALSE)
QPushServer ==
    Server("prefix", {"prefix", "key", "val", "attrs", "encpass"},
           {"expire", "enable_expire", "check_attr", "fifo"}, {"val"}, Changed)

CasInitRequest(n) ==
    Request("CAS_INIT", [key |-> 0, val |-> n.key, encpass |-> n.key + n.val], n.key + n.val + n.encpass,
            "key", {"expire", "enable_expire"}, {"key", "val"}, FALSE)
CasInitServer ==
    Server("key", {"key", "val", "encpass"}, {"expire", "enable_expire"}, {"key", "val"}, Changed)

CasSetRequest(n) ==
    Request("CAS_SET",
            [key |-> 0, oldval |-> n.key, newval |-> n.key + n.oldval, encpass |-> n.key + n.oldval + n.newval],
            n.key + n.oldval + n.newval + n.encpass, "key",
            {"expire", "enable_expire", "check_attr"}, {"key", "oldval", "newval"}, FALSE)
CasSetServer ==
    Server("key", {"key", "oldval", "newval", "encpass"},
           {"expire", "enable_expire", "check_attr"}, {"key", "oldval", "newval"}, Changed)

CasIncDecRequest(n) ==
    Request("CAS_INCDEC", [key |-> 0, encpass |-> n.key], n.key + n.encpass, "key",
            {"expire", "enable_expire", "check_attr", "increment"}, {"key"}, FALSE)
CasIncDecServer ==
    Server("key", {"key", "encpass"}, {"expire", "enable_expire", "check_attr", "increment"}, {"key"}, Changed)

\* Sent by servers to servers, and not waited for.
ReplKeyRequest(n) ==
    Request("REPL_KEY", [key |-> 0, val |-> n.key, subkeys |-> n.key + n.val, attrs |-> n.key + n.val + n.subkeys],
            n.key + n.val + n.subkeys + n.attrs, "key", {"hash", "subhash", "ts"}, {"key"}, FALSE)
ReplKeyServer ==
    Server("key", {"key", "val", "subkeys", "attrs"}, {"hash", "subhash", "ts"}, {"key"}, Changed)

ReplDelRequest(n) ==
    Request("REPL_DEL", [key |-> 0], n.key, "key", {"hash", "subhash", "ts"}, {"key"}, FALSE)
ReplDelServer == Server("key", {"key"}, {"ts"}, {"key"}, Changed)

\* Commands of several requests are carried out by the client.  A server that
\* is sent one does nothing and sets no response, so that none is sent.
Unserved == Server("key", {}, {}, {}, {"none"})
AddSubkeyServer == Unserved
DelSubkeyServer == Unserved
QDelServer == Unserved

-----------------------------------------------------------------------------
(* The factories: the class of a command by its number.                    *)

\* Two functions in one, as @@ of module TLC, which the proof system cannot expand.
Together(f, g) == [x \in DOMAIN f \cup DOMAIN g |-> IF x \in DOMAIN f THEN f[x] ELSE g[x]]

\* For sending.  STATE and the other commands of several requests have an
\* object of their own too, but build no request.
SendKeyCommand(n) ==
    [GET |-> GetRequest(n), GET_DIRECT |-> GetDirectRequest(n), GET_SUBKEYS |-> GetSubkeysRequest(n),
     GET_ATTRS |-> GetAttrsRequest(n), GET_ATTR |-> GetAttrRequest(n), SET |-> SetRequest(n),
     SET_DIRECT |-> SetDirectRequest(n), SET_SUBKEYS |-> SetSubkeysRequest(n), SET_ALL |-> SetAllRequest(n),
     ADD_SUBKEYS |-> AddSubkeysRequest(n), DEL |-> DelRequest(n), DEL_SUBKEYS |-> DelSubkeysRequest(n)]

SendOtherCommand(n) ==
    [REN |-> RenRequest(n), QPUSH |-> QPushRequest(n), QPOP |-> QPopRequest(n), CAS_INIT |-> CasInitRequest(n),
     CAS_GET |-> CasGetRequest(n), CAS_SET |-> CasSetRequest(n), CAS_INCDEC |-> CasIncDecRequest(n),
     REPL_KEY |-> ReplKeyRequest(n), REPL_DEL |-> ReplDelRequest(n), K2HSTATE |-> K2hStateRequest(n)]

SendObject(n) == Together(SendKeyCommand(n), SendOtherCommand(n))

\* For receiving.  STATE has none.
ReceiveKeyCommand ==
    [GET |-> GetServer, GET_DIRECT |-> GetDirectServer, GET_SUBKEYS |-> GetSubkeysServer,
     GET_ATTRS |-> GetAttrsServer, GET_ATTR |-> GetAttrServer, SET |-> SetServer,
     SET_DIRECT |-> SetDirectServer, SET_SUBKEYS |-> SetSubkeysServer, SET_ALL |-> SetAllServer,
     ADD_SUBKEYS |-> AddSubkeysServer, ADD_SUBKEY |-> AddSubkeyServer, DEL |-> DelServer,
     DEL_SUBKEYS |-> DelSubkeysServer, DEL_SUBKEY |-> DelSubkeyServer]

ReceiveOtherCommand ==
    [REN |-> RenServer, QPUSH |-> QPushServer, QPOP |-> QPopServer, QDEL |-> QDelServer,
     CAS_INIT |-> CasInitServer, CAS_GET |-> CasGetServer, CAS_SET |-> CasSetServer,
     CAS_INCDEC |-> CasIncDecServer, REPL_KEY |-> ReplKeyServer, REPL_DEL |-> ReplDelServer,
     K2HSTATE |-> K2hStateServer]

ReceiveObject == Together(ReceiveKeyCommand, ReceiveOtherCommand)

-----------------------------------------------------------------------------
(* The commands of a client as the requests they consist of.               *)

\* A request of a command: what becomes of the command when it fails (cannot be
\* sent, is not answered, or not by a response of its own where that is
\* insisted on) and when it is answered by an error; and whether it is the
\* command's own request, whose response is that of the command (main).
Step(com, onFail, onError, main) == [com |-> com, onFail |-> onFail, onError |-> onError, main |-> main]

\* A command of one request succeeds with any response: the caller has to look
\* at the response code.
One(com) == <<Step(com, "stop", "ignore", TRUE)>>

\* Mutant: goes on although the value could not be set.
AddSubkeyStepsIgnoring == <<Step("SET", "stop", "ignore", FALSE), Step("ADD_SUBKEYS", "stop", "stop", FALSE)>>

\* The value of the subkey first, then the list of the key.
AddSubkeySteps == <<Step("SET", "stop", "stop", FALSE), Step("ADD_SUBKEYS", "stop", "stop", FALSE)>>

\* The subkey first, whatever comes of it, then the list of the key.
DelSubkeySteps == <<Step("DEL", "ignore", "ignore", FALSE), Step("DEL_SUBKEYS", "stop", "stop", FALSE)>>

\* The list is read, the key deleted, and a placeholder set when not all nodes
\* are safe; only the deletion counts.  (The keys of the list are deleted in the
\* same way in between: CompositeCommands.)
DelSteps(subkeys, allsafe) ==
    (IF subkeys THEN <<Step("GET_SUBKEYS", "ignore", "ignore", FALSE)>> ELSE <<>>)
    \o <<Step("DEL", "stop", "ignore", TRUE)>>
    \o (IF allsafe THEN <<>> ELSE <<Step("SET", "ignore", "ignore", FALSE)>>)

\* The key is renamed; with a parent, and unless that was an error, its list is
\* changed by two more requests.
RenSteps(parent) ==
    IF parent
    THEN <<Step("REN", "stop", "stop", TRUE), Step("DEL_SUBKEYS", "stop", "stop", FALSE),
           Step("ADD_SUBKEYS", "stop", "stop", FALSE)>>
    ELSE One("REN")

\* An element after the other is popped.
QDelSteps(count) == [i \in 1 .. count |-> Step("QPOP", "stop", "stop", FALSE)]

\* A request to each server node; those that do not answer are left out.
StateSteps(nodes) == [i \in 1 .. nodes |-> Step("K2HSTATE", "ignore", "ignore", FALSE)]
=============================================================================
