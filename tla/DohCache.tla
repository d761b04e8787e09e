------------------------------ MODULE DohCache ------------------------------
(***************************************************************************)
(* addons.DohFilter: requests ask the policy's resolver for the A and the  *)
(* AAAA records of their host at the same time, and share what it said for *)
(* as long as it said it for.  Nothing joins lookups of one host that run  *)
(* together: each stores its own verdict when it comes back.               *)
(*                                                                         *)
(* One resolver, and one host that is looked up; the others only meet the  *)
(* lists of the policy.  Times are in units of the shortest lifetime.      *)
(***************************************************************************)
EXTENDS Integers, Sequences, FiniteSetsExt, Functions

CONSTANTS
    Requests,           \* goroutines with a request for the host
    Messages,           \* the resolver's answers: [nx, ede, records]
    Configs,            \* the policy's doh section, for the host
    BlockAddrs,         \* sinkholes and block pages
    EdeBlockCodes,
    DefaultTTL, FailTTL, MaxTTL, Timeout,
    Nothing,
    MaxClock            \* bound

VARIABLES
    clock, cfg,
    entry,      \* dohCache of the host and resolver: [blocked, expires]
    look,       \* per request: [waits, now]
    verdict,    \* history: what the last step told a request: [blocked, asked, looked]
    said        \* history: what lookups came to, while it may be kept: [blocked, began, ends]

vars == <<clock, cfg, entry, look, verdict, said>>

Idle == [waits |-> FALSE, now |-> 0]
Init ==
    /\ clock = 0 /\ cfg \in Configs /\ entry = Nothing
    /\ look = [r \in Requests |-> Idle]
    /\ verdict = Nothing /\ said = {}

-----------------------------------------------------------------------------
(* classifyDoh: the first message that blocks decides, whichever came first*)

Signal(m) == m.nx \/ m.ede \in EdeBlockCodes
Sinks(rr) == rr.addr \in BlockAddrs
AtLeast1(t) == IF t < 1 THEN 1 ELSE t

(* The records up to the one that blocks bound the lifetime; records with  *)
(* a lifetime of zero do not.                                              *)
Bounds(m) == {AtLeast1(m.records[i].ttl) : i \in {j \in DOMAIN m.records : m.records[j].ttl > 0}}
FirstSink(m) == LET sinks == {i \in DOMAIN m.records : Sinks(m.records[i])}
                IN  IF sinks = {} THEN 0 ELSE Min(sinks)
Blocks(m) == Signal(m) \/ FirstSink(m) # 0
BlockTTL(m) == IF Signal(m) THEN DefaultTTL ELSE AtLeast1(m.records[FirstSink(m)].ttl)

BugLastMessage(msgs) ==
    LET m == msgs[Len(msgs)]
    IN  [blocked |-> Blocks(m), ttl |-> IF Blocks(m) THEN BlockTTL(m) ELSE Min(Bounds(m) \cup {DefaultTTL})]
Classify(msgs) ==
    LET blocking == {i \in DOMAIN msgs : Blocks(msgs[i])}
    IN  IF blocking # {}
        THEN [blocked |-> TRUE, ttl |-> BlockTTL(msgs[Min(blocking)])]
        ELSE [blocked |-> FALSE, ttl |-> Min({DefaultTTL} \cup UNION {Bounds(msgs[i]) : i \in DOMAIN msgs})]

-----------------------------------------------------------------------------
(* HandleRequest and queryDoh                                              *)

ShouldFilter ==
    CASE cfg.include # Nothing -> cfg.include
      [] cfg.include = Nothing /\ cfg.exclude # Nothing -> ~cfg.exclude
      [] OTHER -> TRUE

Tell(b, asked, looked) == verdict' = [blocked |-> b, asked |-> asked, looked |-> looked]

(* An allowed or spliced request is not asked about, nor is one that the   *)
(* lists of the policy leave out.                                          *)
Skip(r) ==
    /\ ~look[r].waits /\ (~cfg.enabled \/ ~ShouldFilter)
    /\ Tell(FALSE, clock, FALSE)
    /\ UNCHANGED <<clock, cfg, entry, look, said>>
BugAnyAge(now) == entry # Nothing
Fresh(now) == entry # Nothing /\ now < entry.expires
Ask(r) ==
    /\ ~look[r].waits /\ cfg.enabled /\ ShouldFilter
    /\ \/ Fresh(clock) /\ Tell(entry.blocked, clock, TRUE) /\ UNCHANGED look
       \/ /\ ~Fresh(clock) /\ verdict' = Nothing
          /\ look' = [look EXCEPT ![r] = [waits |-> TRUE, now |-> clock]]
    /\ UNCHANGED <<clock, cfg, entry, said>>

(* What comes back for the two types, in either order: a message each, or  *)
(* a failure.                                                              *)
Outcomes == {<<>>} \cup {<<m>> : m \in Messages} \cup {<<m, n>> : m \in Messages, n \in Messages}

(* What the resolver means by a message, and how long one may go by a set  *)
(* of them.                                                                *)
SaysBlocked(m) == m.nx \/ m.ede \in EdeBlockCodes \/ \E i \in DOMAIN m.records : m.records[i].addr \in BlockAddrs
Lifetime(ms) ==
    LET ttls == UNION {{m.records[i].ttl : i \in DOMAIN m.records} : m \in ms}
    IN  IF ms = {} THEN FailTTL ELSE Min({MaxTTL, Max({1, DefaultTTL} \cup ttls)})

(* The lifetime counts from the moment the request asked.                  *)
Store(r, msgs) ==
    LET now == look[r].now
        c == Classify(msgs)
        e == IF msgs = <<>> THEN [blocked |-> FALSE, expires |-> now + FailTTL]
             ELSE [blocked |-> c.blocked, expires |-> now + Min({c.ttl, MaxTTL})]
        ms == Range(msgs)
    IN  /\ look[r].waits
        /\ entry' = e /\ look' = [look EXCEPT ![r] = Idle]
        /\ Tell(e.blocked, now, TRUE)
        /\ said' = said \cup {[blocked |-> \E m \in ms : SaysBlocked(m), began |-> now, ends |-> now + Lifetime(ms)]}
        /\ UNCHANGED <<clock, cfg>>

(* A lookup ends within the client's timeout.                              *)
Tick ==
    /\ clock < MaxClock /\ clock' = clock + 1
    /\ \A r \in Requests : look[r].waits => clock - look[r].now < Timeout
    /\ verdict' = Nothing /\ said' = {g \in said : clock' < g.ends}
    /\ UNCHANGED <<cfg, entry, look>>

Next ==
    \/ \E r \in Requests : Skip(r) \/ Ask(r) \/ \E msgs \in Outcomes : Store(r, msgs)
    \/ Tick
Spec == Init /\ [][Next]_vars

-----------------------------------------------------------------------------
(* Properties                                                              *)

(* Every verdict is one the resolver gave: to this request, or to a lookup *)
(* that began no longer ago than its answer may be kept.  A host that the  *)
(* resolver blocks gets by only where no message of a lookup said so, and  *)
(* where the resolver gave no answer at all, not for longer than a failure *)
(* is remembered - whatever lookups run at the same time, and in whatever  *)
(* order they store what they found.                                       *)
VerdictOnGrounds ==
    verdict # Nothing =>
        IF verdict.looked
        THEN \E g \in said : g.blocked = verdict.blocked /\ (g.began = verdict.asked \/ verdict.asked < g.ends)
        ELSE ~verdict.blocked
=============================================================================
