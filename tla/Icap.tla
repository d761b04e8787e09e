-------------------------------- MODULE Icap --------------------------------
(***************************************************************************)
(* One ICAP connection: internal/icap, which frames the transactions of an *)
(* existing proxy, and internal/proxy/icap.go, which turns each into one   *)
(* run of the addon pipeline.                                              *)
(*                                                                         *)
(* A message is what the client means to send: its method, the parts that  *)
(* its Encapsulated header lists, its body in bytes and what of it to send *)
(* as a preview.  The wire carries heads, chunks and zero chunks; a chunk  *)
(* is the bytes of the body it carries, `from` (exclusive) to `to`.        *)
(***************************************************************************)
EXTENDS Integers, Sequences, FiniteSets, FiniteSetsExt, SequencesExt

CONSTANTS
    Messages,       \* what clients send
    MaxBodyBytes, MaxHeaderBytes,
    TrustClientIPHeader, NormalizeAcceptEncoding,
    Peer,           \* the address of the client proxy
    NoTxn           \* req.State before the handler was called

VARIABLES
    client,     \* of the client proxy: idle, waiting or gone
    msg,        \* the message it is sending
    wire,       \* what it has sent and the server has not read
    reply,      \* what the server has sent and it has not read
    pc,         \* of ServeConn
    req,        \* the icap.Request: its body so far, and what of it is known
    txn         \* req.State: the icapTxn, with what its phases have done

vars == <<client, msg, wire, reply, pc, req, txn>>

-----------------------------------------------------------------------------
(* Heads: the parts lie in the order of their offsets, however listed, and *)
(* a part is as long as the way to the next.                               *)

Bodies == {"req-body", "res-body", "opt-body", "null-body"}
ParseEncapsulated(m) == SetToSortSeq(ToSet(m.encapsulated), LAMBDA x, y : x.offset < y.offset)
HeadParts(m) ==
    LET parts == ParseEncapsulated(m)
    IN  SelectSeq(parts, LAMBDA x : x.name \notin Bodies /\ \A y \in ToSet(parts) : y.name \in Bodies => x.offset < y.offset)
BodyParts(m) == {x \in ToSet(m.encapsulated) : x.name \in Bodies}
Malformed(m) ==
    LET parts == ParseEncapsulated(m)
    IN  \E i \in DOMAIN HeadParts(m) :
            ~(/\ i < Len(parts) /\ parts[i].name \in {"req-hdr", "res-hdr"}
              /\ parts[i + 1].offset - parts[i].offset <= MaxHeaderBytes)

Named(m)   == {x.name : x \in ToSet(HeadParts(m))}
HasBody(m) == BodyParts(m) # {} /\ (CHOOSE x \in BodyParts(m) : \A y \in BodyParts(m) : x.offset <= y.offset).name # "null-body"

NoReply   == [kind |-> "none"]
NoRequest == [body |-> 0, complete |-> FALSE, truncated |-> FALSE, stage |-> "head"]

-----------------------------------------------------------------------------
(* The client proxy                                                        *)

(* The bytes of a body after the first a up to the b-th may be cut into    *)
(* chunks in any way, here by where the chunks end.  The zero chunk at the *)
(* end of a preview that is the whole body says so.                        *)
Item(kind, from, to, ieof) == [kind |-> kind, from |-> from, to |-> to, ieof |-> ieof]
IcapHead == Item("head", 0, 0, FALSE)
Cuts(a, b) ==
    {s \in UNION {[1..k -> a + 1..b] : k \in 0..b - a} :
        /\ \A i \in 2..Len(s) : s[i - 1] < s[i]
        /\ IF s = <<>> THEN a = b ELSE s[Len(s)] = b}
Sent(a, s, ieof) ==
    [i \in 1..Len(s) + 1 |->
        LET from == IF i = 1 THEN a ELSE s[i - 1]
        IN  IF i <= Len(s) THEN Item("chunk", from, s[i], FALSE) ELSE Item("last", from, from, ieof)]
Chunked(a, b, ieof) == {Sent(a, s, ieof) : s \in Cuts(a, b)}
Previewed(m) == IF m.preview < m.bytes THEN m.preview ELSE m.bytes
FirstPart(m) ==
    IF ~HasBody(m) THEN {<<>>}
    ELSE IF m.preview >= 0 THEN Chunked(0, Previewed(m), m.preview >= m.bytes)
    ELSE Chunked(0, m.bytes, FALSE)

Send(m) ==
    /\ client = "idle" /\ pc # "closed"
    /\ client' = "waiting" /\ msg' = m
    /\ \E body \in FirstPart(m) : wire' = <<IcapHead>> \o body
    /\ UNCHANGED <<reply, pc, req, txn>>

Continues ==
    /\ client = "waiting" /\ reply.kind = "continue"
    /\ reply' = NoReply
    /\ IF msg.preview >= msg.bytes THEN wire' = wire
       ELSE \E rest \in Chunked(msg.preview, msg.bytes, FALSE) : wire' = wire \o rest
    /\ UNCHANGED <<client, msg, pc, req, txn>>

Receive ==
    /\ client = "waiting"
    /\ reply.kind \notin {"none", "continue"} \/ (reply = NoReply /\ pc = "closed")
    /\ client' = IF pc = "closed" THEN "gone" ELSE "idle"
    /\ reply' = NoReply
    /\ UNCHANGED <<msg, wire, pc, req, txn>>

(* The client goes away: what it had not sent yet never arrives.           *)
Hangup ==
    /\ client # "gone" /\ client' = "gone"
    /\ \E n \in 0..Len(wire) : wire' = SubSeq(wire, 1, n)
    /\ UNCHANGED <<msg, reply, pc, req, txn>>

-----------------------------------------------------------------------------
(* The bridge to the pipeline                                              *)

(* requestPhase, once per transaction; a CONNECT meets the host gate only. *)
Outcomes(m) == IF m.connect THEN {"pass", "block"} ELSE {"pass", "block", "modified"}
ClientIP(m) == IF TrustClientIPHeader /\ m.clientIP # "" THEN m.clientIP ELSE Peer
BugRunsAgain(t, m, o) ==
    IF "req-hdr" \notin Named(m) THEN NoTxn
    ELSE [ip |-> ClientIP(m), blocked |-> o = "block",
          modified |-> o = "modified" \/ (NormalizeAcceptEncoding /\ m.acceptEncoding /\ ~m.connect),
          requests |-> IF t = NoTxn THEN 1 ELSE t.requests + 1,
          finished |-> IF t = NoTxn THEN FALSE ELSE t.finished,
          responses |-> IF t = NoTxn THEN 0 ELSE t.responses, judged |-> IF t = NoTxn THEN "nothing" ELSE t.judged]
RequestPhase(t, m, o) ==
    IF t # NoTxn \/ "req-hdr" \notin Named(m) THEN t
    ELSE [ip |-> ClientIP(m), blocked |-> o = "block",
          modified |-> o = "modified" \/ (NormalizeAcceptEncoding /\ m.acceptEncoding /\ ~m.connect),
          requests |-> 1, finished |-> FALSE, responses |-> 0, judged |-> "nothing"]

(* What is known of a transaction, whatever phases have run.               *)
Transactions ==
    [ip : {ClientIP(m) : m \in Messages}, blocked : BOOLEAN, modified : BOOLEAN, requests : Nat,
     finished : BOOLEAN, responses : Nat, judged : {"nothing", "whole", "part"}]

(* The response phase, which writes the flow's row in the log.             *)
Finish(t, body) ==
    IF t.finished THEN t ELSE [t EXCEPT !.finished = TRUE, !.responses = @ + 1, !.judged = body]

More          == [kind |-> "more"]
NoContent     == [kind |-> "204"]
BlockPage     == [kind |-> "block"]
Handed(b)     == [kind |-> "handed", body |-> b]     \* the message that came, as it came
Rewritten(b)  == [kind |-> "rewritten", body |-> b]  \* the same, changed by an addon
Does(t, answer) == [txn |-> t, answer |-> answer]

Reqmod(t, m, r, complete) ==
    CASE t = NoTxn                 -> Does(t, NoContent)
      [] t # NoTxn /\ t.blocked    -> Does(Finish(t, "nothing"), BlockPage)
      [] t # NoTxn /\ ~t.blocked /\ ~t.modified -> Does(t, NoContent)
      [] OTHER -> Does(t, IF HasBody(m) /\ ~complete THEN More ELSE Rewritten(r.body))

Oversize(m, r) == (m.declared /\ m.bytes > MaxBodyBytes) \/ r.truncated
Readable(m)    == m.encoding = "identity" \/ (m.encoding = "gzip" /\ HasBody(m))
Respmod(t, m, r, complete, changed) ==
    CASE t = NoTxn \/ "res-hdr" \notin Named(m) -> Does(t, NoContent)
      [] t # NoTxn /\ "res-hdr" \in Named(m) /\ t.blocked -> Does(Finish(t, "nothing"), BlockPage)
      [] OTHER ->
           IF Oversize(m, r) THEN Does(Finish(t, "nothing"), NoContent)
           ELSE IF HasBody(m) /\ ~complete THEN Does(t, More)
           ELSE IF ~Readable(m) THEN Does(Finish(t, "nothing"), NoContent)
           ELSE Does(Finish(t, IF r.body = m.bytes THEN "whole" ELSE "part"),
                     IF r.truncated \/ ~changed THEN NoContent ELSE Rewritten(r.body))

(* One call of the handler: what the addons make of it is theirs to say.   *)
Handle(complete) ==
    {IF msg.method = "REQMOD" THEN Reqmod(RequestPhase(txn, msg, o), msg, req, complete)
     ELSE Respmod(RequestPhase(txn, msg, o), msg, req, complete, changed) :
        o \in Outcomes(msg), changed \in BOOLEAN}

-----------------------------------------------------------------------------
(* The server                                                              *)

MethodsForService(words) ==
    IF "resp" \in words THEN {"RESPMOD"} ELSE IF "req" \in words THEN {"REQMOD"} ELSE {"REQMOD", "RESPMOD"}

(* writeResponse and the end of the turn.  A 204 nobody offered to take    *)
(* becomes the message itself, with the body that was read.                *)
EchoUnmodified(m, r) == Handed(IF Named(m) = {} THEN 0 ELSE r.body)
Answer(a) ==
    /\ reply' = IF a.kind = "204" /\ ~msg.allow204 /\ msg.method # "OPTIONS" THEN EchoUnmodified(msg, req) ELSE a
    /\ pc' = IF msg.close THEN "closed" ELSE "head"

ReadRequestHead ==
    /\ pc = "head" /\ wire # <<>> /\ wire[1].kind = "head"
    /\ wire' = Tail(wire) /\ txn' = NoTxn
    /\ \/ Malformed(msg) /\ reply' = [kind |-> "400"] /\ pc' = "closed" /\ req' = NoRequest
       \/ /\ ~Malformed(msg)
          /\ \/ /\ msg.method = "OPTIONS" /\ req' = NoRequest
                /\ Answer([kind |-> "options", methods |-> MethodsForService(msg.service)])
             \/ msg.method = "OTHER" /\ req' = NoRequest /\ Answer([kind |-> "501"])
             \/ /\ msg.method \in {"REQMOD", "RESPMOD"} /\ UNCHANGED reply
                /\ IF ~HasBody(msg) THEN pc' = "modify" /\ req' = NoRequest
                   ELSE pc' = "body" /\ req' = [NoRequest EXCEPT !.stage = IF msg.preview >= 0 THEN "preview" ELSE "all"]
    /\ UNCHANGED <<client, msg>>

(* readChunkedBody: what is over the limit is read and dropped.            *)
Room == MaxBodyBytes - req.body
ReadChunk ==
    /\ pc = "body" /\ wire # <<>> /\ wire[1].kind = "chunk"
    /\ wire' = Tail(wire)
    /\ LET size == wire[1].to - wire[1].from
       IN  req' = [req EXCEPT !.body = @ + (IF size <= Room THEN size ELSE Room), !.truncated = @ \/ size > Room]
    /\ UNCHANGED <<client, msg, reply, pc, txn>>
ReadLast ==
    /\ pc = "body" /\ wire # <<>> /\ wire[1].kind = "last"
    /\ wire' = Tail(wire)
    /\ req' = [req EXCEPT !.complete = IF req.stage = "preview" THEN wire[1].ieof ELSE req.stage = "all"]
    /\ pc' = IF req.stage = "preview" THEN "preview" ELSE "modify"
    /\ UNCHANGED <<client, msg, reply, txn>>

(* The handler wants the rest of the body; a preview that was all of it  *)
(* has none.                                                               *)
AskForMore ==
    IF req.complete THEN pc' = "modify" /\ UNCHANGED <<reply, req>>
    ELSE reply' = [kind |-> "continue"] /\ pc' = "body" /\ req' = [req EXCEPT !.stage = "rest"]
Preview ==
    /\ pc = "preview"
    /\ \E d \in Handle(req.complete) :
          /\ txn' = d.txn
          /\ IF d.answer.kind = "more" THEN AskForMore ELSE Answer(d.answer) /\ UNCHANGED req
    /\ UNCHANGED <<client, msg, wire>>

CallModify ==
    /\ pc = "modify"
    /\ \E d \in Handle(TRUE) : txn' = d.txn /\ Answer(d.answer)
    /\ UNCHANGED <<client, msg, wire, req>>

(* A read that meets the end of the connection, or waits for too long.     *)
Close ==
    /\ pc \in {"head", "body"} /\ wire = <<>>
    /\ pc' = "closed"
    /\ UNCHANGED <<client, msg, wire, reply, req, txn>>

-----------------------------------------------------------------------------
Init ==
    /\ client = "idle" /\ msg \in Messages /\ wire = <<>> /\ reply = NoReply
    /\ pc = "head" /\ req = NoRequest /\ txn = NoTxn
ServerNext ==
    \/ ReadRequestHead \/ ReadChunk \/ ReadLast \/ Preview \/ CallModify \/ Close
Next == (\E m \in Messages : Send(m)) \/ Continues \/ Receive \/ Hangup \/ ServerNext
Spec == Init /\ [][Next]_vars

-----------------------------------------------------------------------------
(* Properties                                                              *)

Answered == reply.kind \in {"204", "block", "handed", "rewritten"}
Filtered == msg.method = "REQMOD" \/ "res-hdr" \in Named(msg)
User(m)  == IF m.clientIP # "" /\ TrustClientIPHeader THEN m.clientIP ELSE Peer

(* However a transaction is previewed and chunked, the request phase runs  *)
(* once, for the user the client proxy names, and no addon sees a part of  *)
(* a body; the flow of every response and of every block is logged, once.  *)
Current == pc \notin {"head", "closed"} \/ Answered
PhasesOnce ==
    txn # NoTxn /\ Current =>
        /\ txn.requests = 1 /\ txn.ip = User(msg) /\ txn.judged # "part"
        /\ IF Answered /\ Filtered /\ (txn.blocked \/ msg.method = "RESPMOD")
           THEN txn.responses = 1 ELSE txn.responses \in {0, 1}

(* What the policy decides is what the client proxy is told: a block page  *)
(* exactly for what is blocked, every rewritten request, and a response    *)
(* rewritten only when all of it was there.                                *)
Heeded ==
    txn # NoTxn /\ Answered /\ Filtered =>
        /\ reply.kind = "block" <=> txn.blocked
        /\ msg.method = "REQMOD" /\ txn.modified /\ ~txn.blocked => reply.kind = "rewritten"
        /\ msg.method = "RESPMOD" /\ reply.kind = "rewritten" => reply.body = msg.bytes

(* The server begins a transaction where the client began one, and the two *)
(* never wait for each other.                                              *)
InStep ==
    /\ pc = "head" /\ wire # <<>> => wire[1].kind = "head"
    /\ pc \in {"head", "body"} /\ wire = <<>> /\ reply = NoReply => client # "waiting"

TransactionSound == PhasesOnce /\ Heeded /\ InStep

(* A client proxy that takes a 204 and is handed a message instead is      *)
(* handed all of it: server.go says a body that was truncated cannot be    *)
(* handed back faithfully.                                                 *)
HandedBackWhole ==
    Answered /\ msg.allow204 /\ reply.kind = "rewritten" => reply.body = msg.bytes
=============================================================================
