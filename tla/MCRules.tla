------------------------------- MODULE MCRules -------------------------------
(* Small instances of the modules that say what a policy and its lists     *)
(* mean: which policy a request falls under, what a stored document asks   *)
(* for, what a filter list blocks and hides, which words are masked, how   *)
(* an ICAP transaction is judged and answered, what a resolver's answers   *)
(* are taken for, what holds on a device that is provisioned, managed,     *)
(* edited and killed, which root signs, who is let in to change it all, and*)
(* which executable is installed and run.                                  *)
(* They share no state, so each behaviour is one of one module: the        *)
(* variables of the others are parked.                                     *)
EXTENDS PolicyMatch, Standalone, Filters, TLC

allVars == <<vars, filterVars, standaloneVars>>

-----------------------------------------------------------------------------
(* Instances                                                               *)

Strings(chars, m, n) == UNION {[1..k -> chars] : k \in m..n}

(* Policies: one per device, address and network, two of the last with     *)
(* overlapping windows over midnight, one that is switched off.            *)
Always == [enabled |-> FALSE, windows |-> {}]
Plain  == [inactive |-> FALSE, macs |-> {}, sources |-> {}, schedule |-> Always]
Src(a, n) == [addr |-> a, len |-> n]
SomePolicies ==
    {[Plain EXCEPT !.macs = Macs],
     [Plain EXCEPT !.sources = {Src(1, Single), Src(2, 1)}],
     [Plain EXCEPT !.sources = {Src(0, 0), Src(3, 2)}],
     [Plain EXCEPT !.sources = {Src(0, 1), Src(2, Single)},
                   !.schedule = [enabled |-> TRUE, windows |-> {[days |-> {1}, start |-> 2, end |-> 0], [days |-> {0}, start |-> 1, end |-> 1]}]],
     [Plain EXCEPT !.sources = {Src(2, 1)}, !.schedule = [enabled |-> TRUE, windows |-> {[days |-> {2}, start |-> 2, end |-> 1]}]],
     [Plain EXCEPT !.inactive = TRUE, !.schedule = [enabled |-> TRUE, windows |-> {}]]}

SomePatterns   == Strings({"a", "*", "^"}, 0, 3) \cup Strings({"a", "/", ".", "*"}, 0, 2) \cup Strings({"a", "*"}, 4, 4)
SomeUrls       == {<<"a", ":">> \o s : s \in Strings({"a", ".", "/"}, 0, 3)}
SomeStopTokens == {<<"a", "a", "a">>}

X == <<"x">>
SX == <<"s", "x">>
Y == <<"y">>
Ads == [exception |-> FALSE, important |-> FALSE, host |-> Nowhere, paths |-> {"ads"}, include |-> {}, exclude |-> {},
        party |-> "any", domains |-> {}, notDomains |-> {}, elemHide |-> FALSE, genericHide |-> FALSE, unknown |-> FALSE]
HostLine(h) == [Ads EXCEPT !.host = h, !.paths = {}]
SomeLines ==
    {HostLine(X), Ads, [HostLine(SX) EXCEPT !.exception = TRUE], [Ads EXCEPT !.important = TRUE, !.party = "third"],
     [Ads EXCEPT !.exception = TRUE, !.domains = {X}, !.notDomains = {SX}],
     [HostLine(Y) EXCEPT !.exception = TRUE, !.include = {"document"}],
     [HostLine(X) EXCEPT !.exception = TRUE, !.genericHide = TRUE], [HostLine(SX) EXCEPT !.exception = TRUE, !.elemHide = TRUE],
     [Ads EXCEPT !.exclude = {"script"}, !.paths = {"ads", "page"}], [HostLine(Y) EXCEPT !.unknown = TRUE]}
Hide == [selector |-> "k", domains |-> {}, notDomains |-> {}, exception |-> FALSE]
SomeCosmetics ==
    {[Hide EXCEPT !.notDomains = {X}], [Hide EXCEPT !.domains = {X}, !.notDomains = {SX}],
     [Hide EXCEPT !.exception = TRUE, !.domains = {X}], [Hide EXCEPT !.selector = "n"]}
SomeSites  == {X, SX, Y}
SitesSpared == {SX}

Entry(l, t) == [lang |-> l, text |-> t]
ShortTexts == {<<"a", " ", "b">>}
LongTexts  == Strings({"a", "b", "h", "i", " ", "m"}, 1, 4) \cup Strings({"y", "1", " ", "a", "+"}, 1, 3)
SomeTexts  == ShortTexts \cup LongTexts
SomeEntries ==
    {Entry("en", <<"a">>), Entry("en", <<"b", " ", "a">>), Entry("de", <<"b">>),
     Entry("de", <<"b", "a", " ", "b", " ", "a">>), Entry("en", <<"h", "i">>), Entry("en", <<"h">>),
     Entry("de", <<"a", "i", "h">>), Entry("en", <<"1">>), Entry("de", <<"y">>)}
SomeFiles  == ("en" :> {"en"}) @@ ("de-AT" :> {"de"})
SomeExtras == {{}, {<<"h">>, <<"i", " ", "h">>, <<"y", "+", "a">>}}

(* Every kind of message, bodies up to one byte over the limit, previews   *)
(* of none, some and all of a body, and parts listed out of order.         *)
At(n, o) == [name |-> n, offset |-> o]
Asked == [method |-> "OPTIONS", encapsulated |-> <<At("null-body", 0)>>, service |-> {}, bytes |-> 0, preview |-> -1, allow204 |-> TRUE,
            close |-> FALSE, clientIP |-> "u1", connect |-> FALSE, acceptEncoding |-> FALSE, encoding |-> "identity", declared |-> TRUE]
Request == [Asked EXCEPT !.method = "REQMOD", !.encapsulated = <<At("req-hdr", 0), At("null-body", 1)>>]
Response == [Request EXCEPT !.method = "RESPMOD", !.encapsulated = <<At("res-hdr", 1), At("res-body", 2), At("req-hdr", 0)>>, !.bytes = 2]
SomeMessages ==
    {[Asked EXCEPT !.service = w] : w \in SUBSET {"req", "resp"}}
    \cup {[Asked EXCEPT !.method = "OTHER"], [Request EXCEPT !.connect = TRUE, !.clientIP = "", !.allow204 = FALSE], [Request EXCEPT !.close = TRUE],
          [Request EXCEPT !.encapsulated = <<At("null-body", 3), At("req-hdr", 0)>>],
          [Response EXCEPT !.encapsulated = <<At("res-hdr", 0), At("null-body", 1)>>, !.bytes = 0],
          [Response EXCEPT !.encapsulated = <<At("req-hdr", 0), At("res-hdr", 1), At("null-body", 2)>>, !.encoding = "gzip", !.bytes = 0],
          [Request EXCEPT !.encapsulated = <<At("req-hdr", 0)>>]}
    \cup {[Request EXCEPT !.encapsulated = <<At("req-body", 1), At("req-hdr", 0)>>, !.bytes = n, !.preview = p, !.acceptEncoding = e, !.allow204 = ok] :
            n \in 0..4, p \in -1..1, e \in BOOLEAN, ok \in BOOLEAN}
    \cup {[Response EXCEPT !.bytes = n, !.preview = p, !.declared = d, !.encoding = c] :
            n \in {0, 2, 4}, p \in {-1, 0, 2, 4}, d \in BOOLEAN, c \in {"identity", "br"}}

(* A locked document of each kind: one that patches, one that moves the    *)
(* policies and replaces the default one, one that fails validation.       *)
Doc == [lock |-> TRUE, bad |-> FALSE, settings |-> [dir |-> Absent, port |-> Absent], json |-> Absent, patch |-> Absent]
SomeDocuments ==
    {[Doc EXCEPT !.settings.port = 1, !.patch = [level |-> Absent, acts |-> Absent, categories |-> {"n1"}]],
     [Doc EXCEPT !.settings.dir = "other", !.json = [level |-> "own", acts |-> ("n2" :> "allow")]],
     [Doc EXCEPT !.bad = TRUE, !.settings.port = 9]}

(* Bundles of two CAs, and of one that has expired, is none or has lost its*)
(* key.                                                                    *)
Bundle(ca) == [crt |-> [ca |-> ca, ends |-> FALSE], key |-> ca, isCA |-> TRUE]
SomeBundles ==
    {Bundle(10), Bundle(11), [Bundle(10) EXCEPT !.crt.ends = TRUE],
     [Bundle(12) EXCEPT !.isCA = FALSE], [Bundle(13) EXCEPT !.key = 11]}

(* Answers that block in each way, that do not, and that live for nothing, *)
(* shorter, as long and longer than the limits.                            *)
Answer(records) == [nx |-> FALSE, ede |-> 0, records |-> records]
Record(a, ttl)  == [addr |-> a, ttl |-> ttl]
SomeAnswers ==
    {Answer(<<>>), Answer(<<Record("ip", 1), Record("sink", 2)>>), Answer(<<Record("ip", 0), Record("other", 4)>>),
     [Answer(<<>>) EXCEPT !.nx = TRUE], [Answer(<<Record("ip", 3)>>) EXCEPT !.ede = 15], [Answer(<<>>) EXCEPT !.ede = 3]}
DohOff == [enabled |-> FALSE, include |-> Nothing, exclude |-> Nothing]
SomeDoh ==
    {DohOff, [DohOff EXCEPT !.enabled = TRUE], [enabled |-> TRUE, include |-> TRUE, exclude |-> TRUE],
     [enabled |-> TRUE, include |-> FALSE, exclude |-> Nothing], [enabled |-> TRUE, include |-> Nothing, exclude |-> FALSE]}

(* Two buttons of one process and a command line; an asset whose executable*)
(* exceeds the cap, one without a checksum and one with two executables.   *)
Asset(v, d, e, p, u) == [version |-> v, digest |-> d, entries |-> e, size |-> p, unpacked |-> u]
SomeAssets == {Asset(1, TRUE, 1, 1, 2), Asset(2, FALSE, 1, 2, 3), Asset(3, TRUE, 2, 2, 2), Asset(4, TRUE, 1, 3, 3)}
SomeProcess == [c \in Callers |-> IF c = "cli" THEN "command" ELSE "engine"]

-----------------------------------------------------------------------------
(* One module per behaviour                                                *)

MatchParked ==
    /\ policies = <<>> /\ slot = 0 /\ table = Empty /\ cache = NoTable /\ age = Forever
    /\ since = [a \in Addrs |-> [m \in Macs |-> Forever]]

(* Devices move under one policy at a time, the clock runs under all.      *)
Moving == Len(policies) = 1
MatchInit == Init /\ (Len(policies) # 1 => table = Empty) /\ (Moving => slot = 0)
MatchNext == Next /\ (Moving => UNCHANGED slot) /\ (~Moving => UNCHANGED table)

(* Long texts are checked by themselves, short ones among elements.        *)
IsLong == seen # <<>> /\ seen[1].kind = "text" /\ seen[1].text \notin ShortTexts
CensorReduced ==
    /\ matcher = "censor" /\ UNCHANGED <<matcher, glob, lists>>
    /\ \/ ~IsLong /\ \E n \in Elements : T!EndTag(n) \/ \E l \in Tags \cup {NoTag} : T!StartTag(n, l)
       \/ ~IsLong /\ \E t \in IF seen = <<>> THEN Texts ELSE ShortTexts : T!TextNode(t)
       \/ T!EOF \/ T!Unreadable

(* Where the engine starts or stops, first provisionings do not overlap,   *)
(* and it meets an edit that is about to write or a document, not both.    *)
DeviceReduced ==
    which = "device" /\ place'["life"] # "idle" =>
        \/ place'["edit"] = "idle" /\ place'["app"] \notin {"stat", "save", "seed", "bootstrap"}
        \/ place'["edit"] = "write" /\ place'["app"] = "idle"

(* Two imports that overlap are of two CAs, and meet each other: starts of *)
(* the proxy and its leaves meet one at a time.                            *)
CertsReduced ==
    which = "certs" =>
        /\ \A i \in Importers : imp'[i].bundle # Null => (imp'[i].bundle.key = 11 <=> i = "i2")
        /\ (\A i \in Importers : imp'[i].bundle # Null) =>
              stage'["proxy"] \in {"up", "down"} /\ hand'.host = Null /\ \A h \in Hosts : leaf'[h] = Null

(* One browser asks for anything.  The admin has a session and only        *)
(* changes settings, while the other one uses the gated paths; the metrics *)
(* token stays.  Where a password but no token is configured, there is no  *)
(* admin.                                                                  *)
DoorStart == which = "door" => ~off /\ (known.hash # Null => cookie["admin"] # Blank)
DoorReduced ==
    which = "door" =>
        /\ known.hash # Null /\ known.metrics = Blank /\ newest = 0 => asking'["admin"] = Nothing
        /\ asking'["admin"] # Nothing => asking'["admin"].path = "settings" /\ (asking'["any"] # Nothing => asking'["any"].path \notin S!PublicPaths)
        /\ \A b \in {"any", "admin"} : asking'[b] # Nothing /\ asking'[b].merged # Blank => asking'[b].merged.metrics = known'.metrics

RulesInit ==
    /\ which \in Components \cup {"match", "filters"}
    /\ ComponentsInit /\ DoorStart
    /\ IF which = "match" THEN MatchInit ELSE MatchParked
    /\ IF which = "filters" THEN FiltersInit ELSE FiltersParked
RulesNext ==
    \/ which = "match"   /\ MatchNext   /\ UNCHANGED <<filterVars, standaloneVars>>
    \/ which = "filters" /\ (PatternNext \/ ListsNext \/ CensorReduced) /\ UNCHANGED <<vars, standaloneVars>>
    \/ ComponentsNext /\ DeviceReduced /\ CertsReduced /\ DoorReduced /\ UNCHANGED <<vars, filterVars>>
RulesSpec == RulesInit /\ [][RulesNext]_allVars
=============================================================================
