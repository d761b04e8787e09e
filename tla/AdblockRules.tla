----------------------------- MODULE AdblockRules -----------------------------
(***************************************************************************)
(* What a set of filter lists does to a request and to a page: the options *)
(* of internal/adblock/parse.go, the indexes, verdicts and cosmetic rules  *)
(* of engine.go, and the addon that asks them.                             *)
(*                                                                         *)
(* A host is its sequence of labels, a URL a host and a path; the pattern  *)
(* of a rule is the set of paths it fits (AdblockGlob says how), or the    *)
(* host of a rule that names nothing else.  A selector is a model value,   *)
(* and a page the set of the selectors whose class or id it mentions.      *)
(***************************************************************************)
EXTENDS Integers, Sequences, FiniteSets

CONSTANTS
    Hosts, Paths,
    Lines,          \* network filters as they are written
    Cosmetics,      \* element hiding rules
    MaxLines,       \* bound: lines of the lists
    Keyed,          \* generic selectors that start with a class or an id
    Exempted,       \* the sites the policy exempts
    Nowhere         \* no host: the source of a navigation, the form of a pattern rule

Types == {"document", "script", "other"}

VARIABLES
    net, cosmetic,  \* the lists, in the order of their lines
    page            \* the page being filtered: its host, path and selectors

vars == <<net, cosmetic, page>>

DomainMatches(host, d) == host # Nowhere /\ Len(d) <= Len(host) /\ SubSeq(host, Len(host) - Len(d) + 1, Len(host)) = d
Ancestors(host) == IF host = Nowhere THEN {} ELSE {SubSeq(host, i, Len(host)) : i \in 1..Len(host)}
Registrable(host) == host[Len(host)]

-----------------------------------------------------------------------------
(* parseNetRule and parseOptions: a line that uses anything unknown, or    *)
(* whose types leave nothing, is skipped.                                  *)

TypeMask(l) ==
    LET named == IF l.include # {} THEN l.include \ l.exclude
                 ELSE IF l.exclude # {} THEN (Types \ {"document"}) \ l.exclude ELSE {}
    IN  IF named = {} /\ (l.elemHide \/ l.genericHide) THEN {"document"} ELSE named
Skipped(l) ==
    \/ l.unknown
    \/ (l.elemHide \/ l.genericHide) /\ ~l.exception
    \/ (l.include # {} \/ l.exclude # {}) /\ (IF l.include # {} THEN l.include ELSE Types \ {"document"}) \ l.exclude = {}
    \/ l.host = Nowhere /\ l.paths = Paths /\ l.domains = {} /\ TypeMask(l) = {} /\ ~l.exception

Parsed == {i \in DOMAIN net : ~Skipped(net[i])}     \* by their lines

-----------------------------------------------------------------------------
(* netRule.matches                                                         *)

Request(host, path, source, type) == [host |-> host, path |-> path, source |-> source, type |-> type]

TypeFits(l, q, pageLevel) ==
    IF TypeMask(l) # {} THEN q.type \in TypeMask(l)
    ELSE q.type = "document" /\ l.host = Nowhere => pageLevel
ThirdParty(q) == q.source # Nowhere /\ Registrable(q.host) # Registrable(q.source)
PartyFits(l, q) == l.party = "any" \/ (l.party = "third") = ThirdParty(q)
Site(q) == IF q.source = Nowhere \/ q.type = "document" THEN q.host ELSE q.source
DomainFits(l, q) ==
    /\ \A d \in l.notDomains : ~DomainMatches(Site(q), d)
    /\ l.domains # {} => \E d \in l.domains : DomainMatches(Site(q), d)
PatternFits(l, q) == IF l.host # Nowhere THEN DomainMatches(q.host, l.host) ELSE q.path \in l.paths
Fits(l, q, pageLevel) == TypeFits(l, q, pageLevel) /\ PartyFits(l, q) /\ DomainFits(l, q) /\ PatternFits(l, q)

-----------------------------------------------------------------------------
(* The indexes and the verdict                                             *)

PageLevel(l) == l.exception /\ (l.elemHide \/ l.genericHide \/ TypeMask(l) = {"document"})
Index(kind) ==
    {i \in Parsed :
        CASE kind = "document" -> PageLevel(net[i])
          [] kind = "allow"    -> net[i].exception /\ ~PageLevel(net[i])
          [] kind = "block"    -> ~net[i].exception}

(* The rules of the host, then those of its parents, then the patterns,    *)
(* each in the order of their lines.  (Patterns come bucket by bucket, as  *)
(* the URL's tokens do: that decides which rule is named, not the verdict.)*)
Candidates(index, q) == {i \in index : net[i].host \in Ancestors(q.host) \cup {Nowhere}}
Bucket(i) == IF net[i].host = Nowhere THEN 0 ELSE Len(net[i].host)
Before(i, j) == Bucket(i) > Bucket(j) \/ (Bucket(i) = Bucket(j) /\ i <= j)
First(S) == CHOOSE i \in S : \A j \in S : Before(i, j)

(* ruleIndex.find: the first that matches, unless an important one does.   *)
Found(kind, q) == {i \in Candidates(Index(kind), q) : Fits(net[i], q, FALSE)}
BugFind(kind, q) == IF Found(kind, q) = {} THEN {} ELSE {net[First(Found(kind, q))]}
Find(kind, q) ==
    LET important == {i \in Found(kind, q) : net[i].important}
    IN  IF Found(kind, q) = {} THEN {}
        ELSE IF important # {} THEN {net[First(important)]} ELSE {net[First(Found(kind, q))]}

(* The request itself for a navigation, else the page that issued it.      *)
SourcePath == CHOOSE p \in Paths : TRUE
PageOf(q) ==
    IF q.type = "document" THEN {q}
    ELSE IF q.source = Nowhere THEN {} ELSE {Request(q.source, SourcePath, Nowhere, "document")}
DocumentException(q, hiding) ==
    \E p \in PageOf(q) : \E i \in Candidates(Index("document"), p) :
        LET l == net[i]
        IN  /\ Fits(l, p, TRUE)
            /\ \/ "document" \in TypeMask(l) /\ ~l.elemHide /\ ~l.genericHide
               \/ hiding /\ l.elemHide

Blocked(q) ==
    /\ ~DocumentException(q, FALSE)
    /\ \E l \in Find("block", q) : l.important \/ Find("allow", q) = {}

(* The addon: a site is exempt with all that its pages load.               *)
SiteAllowed(q) == \E d \in Exempted : DomainMatches(Site(q), d)
HandleRequest(q) == ~SiteAllowed(q) /\ Blocked(q)

-----------------------------------------------------------------------------
(* CosmeticSelectors                                                       *)

Rules == {cosmetic[i] : i \in DOMAIN cosmetic}
Specific(host) == {c.selector : c \in {c \in Rules : ~c.exception /\ \E d \in c.domains : DomainMatches(host, d)}}
SpecificNot(sel) == UNION {c.notDomains : c \in {c \in Rules : ~c.exception /\ c.domains # {} /\ c.selector = sel}}
Generic == {c.selector : c \in {c \in Rules : ~c.exception /\ c.domains = {}}}

(* A generic rule's ~domains become exceptions of its selector.            *)
Excepted(sel, host) ==
    \E c \in Rules : c.selector = sel /\
        \/ c.exception /\ (c.domains = {} \/ \E d \in c.domains : DomainMatches(host, d))
        \/ ~c.exception /\ c.domains = {} /\ \E d \in c.notDomains : DomainMatches(host, d)

PageRequest == Request(page.host, page.path, Nowhere, "document")
GenericHidden ==
    \E i \in Candidates(Index("document"), PageRequest) :
        net[i].genericHide /\ Fits(net[i], PageRequest, TRUE)

CosmeticSelectors ==
    IF DocumentException(PageRequest, TRUE) THEN {}
    ELSE {sel \in Specific(page.host) : /\ ~Excepted(sel, page.host)
                                        /\ \A d \in SpecificNot(sel) : ~DomainMatches(page.host, d)}
         \cup (IF GenericHidden THEN {}
               ELSE {sel \in Generic : ~Excepted(sel, page.host) /\ (sel \in Keyed => sel \in page.mentions)})

-----------------------------------------------------------------------------
(* The lists are read line by line; pages come and go.                     *)

Pages == [host : Hosts, path : Paths, mentions : SUBSET Keyed]
Init == net = <<>> /\ cosmetic = <<>> /\ page \in Pages
Room == Len(net) + Len(cosmetic) < MaxLines
ReadFilter == Room /\ \E l \in Lines : net' = Append(net, l) /\ UNCHANGED <<cosmetic, page>>
ReadCosmetic == Room /\ \E c \in Cosmetics : cosmetic' = Append(cosmetic, c) /\ UNCHANGED <<net, page>>
OpenPage == page' \in Pages /\ UNCHANGED <<net, cosmetic>>

Next == ReadFilter \/ ReadCosmetic \/ OpenPage
Spec == Init /\ [][Next]_vars

-----------------------------------------------------------------------------
(* Properties                                                              *)

(* The filters of the lists that fit a request, by their text.             *)
Fitting(q, ofPage) == {l \in {net[i] : i \in Parsed} : ofPage = PageLevel(l) /\ Fits(l, q, ofPage)}
Exempt(q) == \E p \in PageOf(q) : \E l \in Fitting(p, TRUE) : ~l.elemHide /\ ~l.genericHide

(* Whatever the order of the lines and of the buckets they are indexed in, *)
(* a request is blocked exactly if the page it belongs to is not exempt    *)
(* and an important filter fits it, or a filter fits and no exception      *)
(* does.                                                                   *)
BlocksAsWritten ==
    \A type \in Types, source \in Hosts \cup {Nowhere} :
        LET q == Request(page.host, page.path, source, type)
            fit == Fitting(q, FALSE)
        IN  HandleRequest(q) =
                /\ ~Exempt(q) /\ \A d \in Exempted : ~DomainMatches(Site(q), d)
                /\ \/ \E l \in fit : ~l.exception /\ l.important
                   \/ (\E l \in fit : ~l.exception) /\ ~(\E l \in fit : l.exception)

(* An element is hidden only if some rule of the lists, read by itself,    *)
(* hides it on this site and no rule makes an exception for the site.      *)
Hides(c) ==
    /\ ~c.exception /\ \A d \in c.notDomains : ~DomainMatches(page.host, d)
    /\ c.domains # {} => \E d \in c.domains : DomainMatches(page.host, d)
Spares(c) == c.exception /\ (c.domains = {} \/ \E d \in c.domains : DomainMatches(page.host, d))
HidesAsWritten ==
    \A sel \in CosmeticSelectors :
        /\ \E c \in Rules : c.selector = sel /\ Hides(c)
        /\ \A c \in Rules : c.selector = sel => ~Spares(c)
=============================================================================
