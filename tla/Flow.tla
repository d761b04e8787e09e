--------------------------------- MODULE Flow ---------------------------------
(***************************************************************************)
(* One request's way through the addon pipeline (internal/proxy/addons, in *)
(* the order of internal/app/engine.go), as operators on the flow record.  *)
(*                                                                         *)
(* A policy is what it makes of each host.  What depends on lists, remote  *)
(* resolvers and classifiers is a verdict x or y that the caller chooses,  *)
(* once the addon's own conditions let it ask.                             *)
(***************************************************************************)
EXTENDS Naturals

CONSTANTS
    Hosts,      \* hosts that clients ask for
    MgmtName,   \* the management pseudo-domain (web.filter)
    MgmtAddr    \* the management port on a local address

ASSUME HostsAssumption == {MgmtName, MgmtAddr} \subseteq Hosts /\ MgmtName # MgmtAddr

Filters == {"adblock", "quic", "doh", "safesearch", "youtube", "text", "image"}

(* url: the verdict of allow and block lists and categories; "paths" is a  *)
(* block entry with a path, which a host name alone does not match.        *)
(* include: the sites of MITM include mode, {} when it is off.             *)
Policy == [url : [Hosts -> {"none", "allow", "block", "paths"}],
           exclude : SUBSET Hosts, include : SUBSET Hosts,
           uaRule : BOOLEAN, filters : SUBSET Filters]

(* onPath: the URL matches the block entry with a path; uaMatch: the       *)
(* User-Agent rules exempt this client program.                            *)
RequestOf(creds) == [host : Hosts, onPath : BOOLEAN, uaMatch : BOOLEAN,
                     websocket : BOOLEAN, creds : creds]

(* edited: rewritten in a way the request log shows; trimmed: ads hidden,   *)
(* comments or Alt-Svc removed, which it does not show.                    *)
FlowType == [response : {"none", "redirect", "challenge", "block", "empty", "origin"},
             allowed : BOOLEAN, passthrough : BOOLEAN, edited : BOOLEAN, trimmed : BOOLEAN,
             action : {"", "modified", "blocked"}, blocks : Nat]

NewFlow == [response |-> "none", allowed |-> FALSE, passthrough |-> FALSE,
            edited |-> FALSE, trimmed |-> FALSE, action |-> "", blocks |-> 0]

RequestVerdicts == [adblock : {"pass", "page", "resource"}, doh : BOOLEAN,
                    safe : {"pass", "block", "modify"}]
ResponseVerdicts == [cosmetic : BOOLEAN, altSvc : BOOLEAN,
                     youtube : {"pass", "page", "json", "strip"},
                     text : {"pass", "block", "censor"}, image : BOOLEAN]

-----------------------------------------------------------------------------
(* Request phase                                                           *)

BugBlockMisspelled(f) == [f EXCEPT !.action = "block", !.blocks = @ + 1]
LogBlock(f)   == [f EXCEPT !.action = "blocked", !.blocks = @ + 1]
Block(f)      == [LogBlock(f) EXCEPT !.response = "block"]
BlockEmpty(f) == [LogBlock(f) EXCEPT !.response = "empty"]
Modify(f)     == [f EXCEPT !.edited = TRUE, !.action = "modified"]
Exempt(f)     == f.allowed \/ f.passthrough

ManagementAccess(f, r) ==
    IF r.host = MgmtName THEN [f EXCEPT !.response = "redirect", !.allowed = TRUE, !.passthrough = TRUE]
    ELSE IF r.host = MgmtAddr THEN [f EXCEPT !.allowed = TRUE, !.passthrough = TRUE]
    ELSE f

(* Sites not on the include list and exempted client programs.             *)
NotIncluded(p, h) == p.include # {} /\ h \notin p.include

MitmControl(f, p, r) ==
    [f EXCEPT !.passthrough = @ \/ NotIncluded(p, r.host) \/ (p.uaRule /\ r.uaMatch)]

UrlVerdict(p, r) == IF p.url[r.host] # "paths" THEN p.url[r.host]
                    ELSE IF r.onPath THEN "block" ELSE "none"

BugUrlFilterIgnoresPassthrough(f, p, r) ==
    IF UrlVerdict(p, r) = "allow" THEN [f EXCEPT !.allowed = TRUE]
    ELSE IF UrlVerdict(p, r) = "block" THEN Block(f)
    ELSE f
UrlFilter(f, p, r) ==
    IF f.passthrough THEN f
    ELSE IF UrlVerdict(p, r) = "allow" THEN [f EXCEPT !.allowed = TRUE]
    ELSE IF UrlVerdict(p, r) = "block" THEN Block(f)
    ELSE f

Adblock(f, p, v) ==
    IF Exempt(f) \/ "adblock" \notin p.filters \/ f.response # "none" THEN f
    ELSE IF v = "page" THEN Block(f)
    ELSE IF v = "resource" THEN BlockEmpty(f)
    ELSE f

DohFilter(f, p, v) ==
    IF ~Exempt(f) /\ "doh" \in p.filters /\ v THEN Block(f) ELSE f

(* Not looking at the response: a request already blocked is also rewritten.*)
BugSafeSearchForwards(f, p, v) ==
    IF Exempt(f) \/ "safesearch" \notin p.filters THEN f
    ELSE IF v = "block" THEN Block(f)
    ELSE IF v = "modify" THEN [Modify(f) EXCEPT !.response = "none"]
    ELSE f
SafeSearch(f, p, v) ==
    IF Exempt(f) \/ "safesearch" \notin p.filters THEN f
    ELSE IF v = "block" THEN Block(f)
    ELSE IF v = "modify" THEN Modify(f)
    ELSE f

(* The request addons after the policy router.                             *)
RequestFilters(f, p, r, x) ==
    LET f1 == UrlFilter(MitmControl(f, p, r), p, r)
        f2 == Adblock(f1, p, x.adblock)
        f3 == DohFilter(f2, p, x.doh)
    IN  SafeSearch(f3, p, x.safe)

-----------------------------------------------------------------------------
(* Response phase                                                          *)

(* The answers that may be HTML: the block page and the origin's.          *)
Html(f) == f.response \in {"block", "origin"}

Trim(f) == [f EXCEPT !.trimmed = TRUE]

AdblockCosmetic(f, p, v) ==
    IF ~Exempt(f) /\ "adblock" \in p.filters /\ Html(f) /\ f.action # "blocked" /\ v
    THEN Trim(f) ELSE f

QuicBlocker(f, p, v) ==
    IF ~Exempt(f) /\ "quic" \in p.filters /\ f.response = "origin" /\ v THEN Trim(f) ELSE f

(* A watch, channel or home page is replaced, an API answer is edited;     *)
(* comments and recommendations are stripped without a trace in the log.   *)
YouTubeFilter(f, p, v) ==
    IF Exempt(f) \/ "youtube" \notin p.filters THEN f
    ELSE IF v = "page" /\ Html(f) THEN Block(f)
    ELSE IF v = "json" /\ f.response = "origin" THEN [LogBlock(f) EXCEPT !.edited = TRUE]
    ELSE IF v = "strip" /\ f.response = "origin" THEN Trim(f)
    ELSE f

(* Runs on every HTML answer, the block page included.                     *)
BugCensorUnmarked(f, p, v) ==
    IF Exempt(f) \/ "text" \notin p.filters \/ ~Html(f) THEN f
    ELSE IF v = "block" THEN Block(f)
    ELSE IF v = "censor" THEN [f EXCEPT !.edited = TRUE]
    ELSE f
TextClassifier(f, p, v) ==
    IF Exempt(f) \/ "text" \notin p.filters \/ ~Html(f) THEN f
    ELSE IF v = "block" THEN Block(f)
    ELSE IF v = "censor" THEN Modify(f)
    ELSE f

ImageClassifier(f, p, v) ==
    IF ~Exempt(f) /\ "image" \in p.filters /\ Html(f) /\ v
    THEN Modify(f) ELSE f

ResponseFilters(f, p, y) ==
    LET f1 == QuicBlocker(AdblockCosmetic(f, p, y.cosmetic), p, y.altSvc)
        f2 == TextClassifier(YouTubeFilter(f1, p, y.youtube), p, y.text)
    IN  ImageClassifier(f2, p, y.image)

-----------------------------------------------------------------------------
(* The connection gate (hostgate.go), from a host name alone               *)

HostBlocked(p, h) == ~NotIncluded(p, h) /\ p.url[h] = "block"
===============================================================================
