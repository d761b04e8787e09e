------------------------------ MODULE Documents ------------------------------
(***************************************************************************)
(* What a stored document means: the decoders and encoders of              *)
(* internal/models for policies/*.json and settings.json, with the schemas *)
(* they migrate from, and documents that are written, loaded and saved     *)
(* again.                                                                  *)
(*                                                                         *)
(* A document is one section of a file, a record in which Absent stands    *)
(* for a key that is missing and Null for one that is null.  Strings are   *)
(* model values; "typo" is one the code does not know.                     *)
(***************************************************************************)
EXTENDS Integers

CONSTANTS
    Absent, Null, Nothing, Blank,
    Names,          \* categories
    Known, Other,   \* SafeSearchEngines, and an engine that is not one
    Tabs,           \* the block_*_tab flags
    Values          \* listen addresses, paths, list items

VARIABLES
    file,   \* the section as it is stored
    live,   \* as the program has decoded it, or Nothing
    meant   \* what the section said when a client last wrote it

vars == <<file, live, meant>>

Given(v)   == v \notin {Absent, Null}
Default(v, default) == IF Given(v) THEN v ELSE default

-----------------------------------------------------------------------------
(* url_filter: one action per category, formerly one list whose meaning    *)
(* came from the mode.                                                     *)

Actions == {"block", "allow"}
UrlFilters ==
    [kind : {"url_filter"}, mode : {Absent, "blacklist", "whitelist", "typo"},
     actions : {Absent, Null} \cup [Names -> Actions \cup {"off", Absent}],
     categories : {Absent, Null} \cup SUBSET Names]

LegacyAction(mode) == IF mode = "whitelist" THEN "allow" ELSE "block"
CategoryActions(d) ==
    IF Given(d.actions)
    THEN [n \in {m \in Names : d.actions[m] \in Actions} |-> d.actions[n]]
    ELSE [n \in Default(d.categories, {}) |-> LegacyAction(d.mode)]

(* A whitelist of no category used to block nothing, and now would block   *)
(* everything: a legacy one becomes a blacklist.                           *)
BugNoMigration(d) == IF d.mode = "whitelist" THEN "whitelist" ELSE "blacklist"
UrlMode(d) ==
    IF d.mode = "whitelist" /\ (Given(d.actions) \/ DOMAIN CategoryActions(d) # {})
    THEN "whitelist" ELSE "blacklist"

DecodeUrlFilter(d) ==
    [kind |-> "url_filter", mode |-> UrlMode(d), actions |-> CategoryActions(d),
     categories |-> DOMAIN CategoryActions(d)]

Effective(c) ==
    IF DOMAIN c.actions # {} \/ c.categories = {} THEN c.actions
    ELSE [n \in c.categories |-> LegacyAction(c.mode)]
EncodeUrlFilter(c) ==
    LET actions == Effective(c)
    IN  [kind |-> "url_filter", mode |-> c.mode, categories |-> DOMAIN actions,
         actions |-> [n \in Names |-> IF n \in DOMAIN actions THEN actions[n] ELSE Absent]]

(* CategoryVerdict for a host that is in the categories H.                 *)
CategoryVerdict(c, H) ==
    LET hits == {Effective(c)[n] : n \in H \cap DOMAIN Effective(c)}
    IN  IF "allow" \in hits THEN "allowed"
        ELSE IF "block" \in hits \/ c.mode = "whitelist" THEN "blocked" ELSE "none"

-----------------------------------------------------------------------------
(* safesearch: flags per engine, formerly one set of flags for all.        *)

Flag == {Absent, TRUE, FALSE}
SafeSearches ==
    [kind : {"safesearch"}, flags : [Tabs -> Flag],
     engines : {Absent, Null} \cup UNION {[S -> SUBSET Tabs] : S \in SUBSET {CHOOSE e \in Known : TRUE, Other}}]

HasLegacyFlags(d) == \E t \in Tabs : d.flags[t] # Absent
DecodeSafeSearch(d) ==
    [kind |-> "safesearch",
     engines |-> IF Given(d.engines) THEN d.engines
                 ELSE IF d.engines = Absent /\ HasLegacyFlags(d)
                 THEN [e \in Known |-> {t \in Tabs : d.flags[t] = TRUE}]
                 ELSE [e \in {} |-> {}]]
EncodeSafeSearch(c) ==
    [kind |-> "safesearch", flags |-> [t \in Tabs |-> Absent], engines |-> c.engines]
Blocks(c, e) == IF e \in DOMAIN c.engines THEN c.engines[e] ELSE {}

-----------------------------------------------------------------------------
(* settings: proxy_listen, mgmt_host and logs_dir replaced proxy_port with *)
(* listen_host, listen_host alone, and blocks_log_path.                    *)

Settings ==
    [kind : {"settings"}, listen : {Absent, Null} \cup SUBSET (Values \cup {Blank}),
     mgmt : {Absent, Null} \cup Values, logs : {Absent} \cup Values,
     port : {Absent, "1080"}, host : {Absent} \cup Values, blocks : {Absent} \cup Values]

Listen(host, port) == <<host, port>>
DefaultListen == {Listen("0.0.0.0", "8080"), <<"socks5", "127.0.0.1", "1080">>}
Cleaned(S) == S \ {Blank}
MigratedListen(d) ==
    IF d.listen = Absent /\ d.port # Absent
    THEN {Listen(Default(d.host, "0.0.0.0"), d.port)}
    ELSE Default(d.listen, {})
DecodeSettings(d) ==
    [kind |-> "settings",
     listen |-> IF Cleaned(MigratedListen(d)) = {} THEN DefaultListen ELSE Cleaned(MigratedListen(d)),
     mgmt |-> IF d.mgmt = Absent THEN Default(d.host, "0.0.0.0") ELSE Default(d.mgmt, "0.0.0.0"),
     logs |-> Default(d.logs, Default(d.blocks, "./logs"))]
EncodeSettings(c) ==
    [kind |-> "settings", listen |-> c.listen, mgmt |-> c.mgmt, logs |-> c.logs,
     port |-> Absent, host |-> Absent, blocks |-> Absent]

-----------------------------------------------------------------------------
(* The other keys, each decoded over its default, by what becomes of null, *)
(* of what is blank, and of what is out of range.                          *)

Key(default, kind) == [default |-> default, kind |-> kind]
None == Key({}, "list")
Cleared == Key({}, "cleaned")

DohKeys == [server |-> Key("https://1.1.1.3/dns-query", "string"), exclude |-> None, include_only |-> None]
AdblockKeys == [lists |-> Key({"easylist", "easyprivacy"}, "list"), allow |-> None]
TextKeys ==
    [mode |-> Key("block", "checked"), threshold |-> Key(80, "number"), exclude |-> None, include_only |-> None,
     censor_words |-> None, censor_languages |-> None]
ImageKeys ==
    [action |-> Key("blur", "string"), threshold |-> Key(40, "number"), min_dimension |-> Key(100, "number"),
     exclude |-> None, include_only |-> None]
YouTubeKeys == [mode |-> Key("blacklist", "string"), channels |-> None, exclude |-> None, include_only |-> None]
MitmKeys == [mode |-> Key("exclude", "string"), sites |-> None, ua_mode |-> Key("off", "string"), user_agents |-> None]
BlockPageKeys == [template |-> Key("default", "string"), message |-> Key(Blank, "string")]
PolicyKeys == [source_ips |-> None, source_macs |-> Key({}, "macs")]
Tun2SocksKeys ==
    [device_name |-> Key("webfilter-tun", "name"), interface_name |-> Key(Blank, "name"),
     tun_address |-> Key("198.18.0.1", "name"), tun_gateway |-> Key("198.18.0.1", "beside"),
     tun_netmask |-> Key("255.254.0.0", "name"), dns_servers |-> Cleared,
     bypass_cidrs |-> Key({"127.0.0.0/8", "10.0.0.0/8", "172.16.0.0/12", "192.168.0.0/16"}, "needed")]
GatewayKeys ==
    [interface |-> Key(Blank, "name"), wan_interface |-> Key(Blank, "name"), client_cidrs |-> Cleared,
     exempt_clients |-> Cleared, bypass_cidrs |-> Key({"127.0.0.0/8", "224.0.0.0/4", "255.255.255.255/32"}, "cleaned"),
     intercept_ports |-> Key({80, 443}, "needed")]
AdblockSettingsKeys ==
    [dir |-> Key("./adblock", "name"), update_hours |-> Key(24, "positive"), custom_lists |-> None]
IcapKeys == [preview_size |-> Key(4096, "natural"), max_body_bytes |-> Key(8388608, "positive")]

Sections ==
    [doh |-> DohKeys, adblock |-> AdblockKeys, text_classifier |-> TextKeys, image_classifier |-> ImageKeys,
     youtube |-> YouTubeKeys, mitm |-> MitmKeys, block_page |-> BlockPageKeys, policy |-> PolicyKeys,
     tun2socks |-> Tun2SocksKeys, gateway |-> GatewayKeys, adblock_lists |-> AdblockSettingsKeys, icap |-> IcapKeys]
KeyOf(d) == Sections[d.config][d.key]

Numbers == {"number", "positive", "natural"}
Strings == {"string", "checked", "name", "beside"}
Written(kind) ==
    {Absent, Null} \cup
        IF kind = "needed" THEN SUBSET Values
        ELSE IF kind \in Numbers THEN (-1..2) \X {"number"} \cup IF kind = "number" THEN (-1..2) \X {"string"} ELSE {}
        ELSE IF kind \in Strings THEN {"block", "censor", "typo", Blank}
        ELSE SUBSET (Values \cup {Blank, "typo"})
Fields ==
    UNION {UNION {{[kind |-> "field", config |-> c, key |-> k, value |-> v] : v \in Written(Sections[c][k].kind)} :
                    k \in DOMAIN Sections[c]} : c \in DOMAIN Sections}

(* null empties a list and is zero to a number that may be written as a    *)
(* string.  A gateway left blank is what tun_address beside it says.       *)
ValueOf(k, v) ==
    CASE v = Absent -> k.default
      [] v = Null -> IF k.kind \in {"list", "cleaned", "macs"} THEN {} ELSE IF k.kind = "number" THEN 0 ELSE k.default
      [] k.kind \in {"list", "string"} /\ Given(v) -> v
      [] k.kind = "cleaned" /\ Given(v) -> v \ {Blank}
      [] k.kind = "macs" /\ Given(v) -> v \ {Blank, "typo"}
      [] k.kind = "needed" /\ Given(v) -> IF v = {} THEN k.default ELSE v
      [] k.kind = "checked" /\ Given(v) -> IF v \in {"block", "censor", "both"} THEN v ELSE k.default
      [] k.kind = "name" /\ Given(v) -> IF v = Blank THEN k.default ELSE v
      [] k.kind = "beside" /\ Given(v) -> IF v = Blank THEN "tun_address" ELSE v
      [] k.kind = "number" /\ Given(v) -> v[1]
      [] k.kind = "positive" /\ Given(v) -> IF v[1] <= 0 THEN k.default ELSE v[1]
      [] k.kind = "natural" /\ Given(v) -> IF v[1] < 0 THEN 0 ELSE v[1]
DecodeField(d) == [d EXCEPT !.value = ValueOf(KeyOf(d), d.value)]
EncodeField(c) == [c EXCEPT !.value = IF KeyOf(c).kind \in Numbers THEN <<@, "number">> ELSE @]

-----------------------------------------------------------------------------
(* A window of a schedule.  Days beyond the week are wrapped; a time that  *)
(* cannot be read is kept as it is and counts as the whole day's.          *)

Times == {"9:00", "09:00", "23:59", "typo"}
Windows ==
    [kind : {"window"}, days : {Absent, Null} \cup SUBSET {-1, 0, 6, 8}, start : {Absent, Null, Blank} \cup Times,
     end : {Absent, Null, Blank} \cup Times]

AllDays == 0..6
NormalizeDays(days) == {d % 7 : d \in days}
ParseHHMM(v) == IF v = "9:00" THEN "09:00" ELSE v
OrDefault(v, default) == IF v \in {Absent, Null, Blank} THEN default ELSE v
DecodeWindow(d) ==
    [kind |-> "window", days |-> IF Given(d.days) THEN NormalizeDays(d.days) ELSE AllDays,
     start |-> ParseHHMM(OrDefault(d.start, "00:00")), end |-> ParseHHMM(OrDefault(d.end, "23:59"))]
InForce(c) ==
    [days |-> NormalizeDays(c.days), start |-> IF c.start = "typo" THEN "00:00" ELSE c.start,
     end |-> IF c.end = "typo" THEN "23:59" ELSE c.end]

-----------------------------------------------------------------------------
(* A document is loaded, saved by the program, and edited by a client of   *)
(* the management API, which sends back all of what it got.                *)

Decode(d) ==
    CASE d.kind = "url_filter" -> DecodeUrlFilter(d)
      [] d.kind = "safesearch" -> DecodeSafeSearch(d)
      [] d.kind = "settings"   -> DecodeSettings(d)
      [] d.kind = "field"      -> DecodeField(d)
      [] d.kind = "window"     -> DecodeWindow(d)
Encode(c) ==
    CASE c.kind = "url_filter" -> EncodeUrlFilter(c)
      [] c.kind = "safesearch" -> EncodeSafeSearch(c)
      [] c.kind = "settings"   -> EncodeSettings(c)
      [] c.kind = "field"      -> EncodeField(c)
      [] c.kind = "window"     -> c

(* What the section asks for, read off the comments on the two schemas.    *)
NewVerdict(d, H) ==
    IF \E n \in H : d.actions[n] = "allow" THEN "allowed"
    ELSE IF d.mode = "whitelist" \/ \E n \in H : d.actions[n] = "block" THEN "blocked" ELSE "none"
OldVerdict(d, H) ==
    IF Default(d.categories, {}) = {} THEN "none"
    ELSE IF d.mode = "whitelist" THEN (IF H \cap d.categories = {} THEN "blocked" ELSE "allowed")
    ELSE IF H \cap d.categories = {} THEN "none" ELSE "blocked"
OldFlags(d) == {t \in Tabs : d.flags[t] = TRUE}
OldListen(d) == IF d.port = Absent THEN {} ELSE {<<Default(d.host, "0.0.0.0"), d.port>>}
OldHost(d) == IF d.host = Absent THEN "0.0.0.0" ELSE d.host
Meaning(d) ==
    CASE d.kind = "url_filter" ->
            [H \in SUBSET Names |-> IF Given(d.actions) THEN NewVerdict(d, H) ELSE OldVerdict(d, H)]
      [] d.kind = "safesearch" ->
            [e \in Known \cup {Other} |->
                IF d.engines = Absent THEN (IF e \in Known THEN OldFlags(d) ELSE {})
                ELSE IF d.engines # Null /\ e \in DOMAIN d.engines THEN d.engines[e] ELSE {}]
      [] d.kind = "settings" ->
            LET asked == IF d.listen = Absent THEN OldListen(d) ELSE Default(d.listen, {}) \ {Blank}
            IN  [listen |-> IF asked = {} THEN DefaultListen ELSE asked,
                 mgmt |-> IF d.mgmt = Absent THEN OldHost(d) ELSE Default(d.mgmt, "0.0.0.0"),
                 logs |-> IF d.logs # Absent THEN d.logs ELSE IF d.blocks # Absent THEN d.blocks ELSE "./logs"]
      [] d.kind = "field" -> ValueOf(KeyOf(d), d.value)
      [] d.kind = "window" ->
            [days |-> IF Given(d.days) THEN {x \in 0..6 : \E y \in d.days : (y - x) % 7 = 0} ELSE 0..6,
             start |-> IF d.start \in {"09:00", "9:00"} THEN "09:00" ELSE IF d.start = "23:59" THEN d.start ELSE "00:00",
             end |-> IF d.end \in {"09:00", "9:00"} THEN "09:00" ELSE "23:59"]

(* What the program does.                                                  *)
Enforced(c) ==
    CASE c.kind = "url_filter" -> [H \in SUBSET Names |-> CategoryVerdict(c, H)]
      [] c.kind = "safesearch" -> [e \in Known \cup {Other} |-> Blocks(c, e)]
      [] c.kind = "settings"   -> [listen |-> c.listen, mgmt |-> c.mgmt, logs |-> c.logs]
      [] c.kind = "field"      -> c.value
      [] c.kind = "window"     -> InForce(c)

Documents == UrlFilters \cup SafeSearches \cup Settings \cup Fields \cup Windows

Init == file \in Documents /\ live = Nothing /\ meant = Meaning(file)

Load == live' = Decode(file) /\ UNCHANGED <<file, meant>>
Save == live # Nothing /\ file' = Encode(live) /\ UNCHANGED <<live, meant>>

EditCategories(d) ==
    \/ \E n \in Names, a \in Actions \cup {"off"} : file' = [d EXCEPT !.actions[n] = a]
    \/ \E m \in {"blacklist", "whitelist"} : file' = [d EXCEPT !.mode = m]
Edit ==
    /\ live # Nothing /\ live.kind = "url_filter" /\ EditCategories(Encode(live))
    /\ live' = Nothing /\ meant' = Meaning(file')

Next == Load \/ Save \/ Edit
Spec == Init /\ [][Next]_vars

(* Whatever schema a section was written in, and however often it has been *)
(* loaded, saved and edited since, what is in force is what was asked for: *)
(* a migration neither blocks what was open nor opens what was blocked.    *)
MeaningKept == live # Nothing => Enforced(live) = meant
=============================================================================
