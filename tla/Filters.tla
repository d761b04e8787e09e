------------------------------ MODULE Filters ------------------------------
(***************************************************************************)
(* The matchers of the filters: how one ad-block pattern is matched        *)
(* against a URL (AdblockGlob), what a set of rules makes of a request and *)
(* of a page (AdblockRules, where the pattern of a rule is the set of      *)
(* paths it fits), and which words of a page are masked (TextCensor).      *)
(*                                                                         *)
(* They share no state.  A behaviour is one of one of them, which          *)
(* `matcher` names; the variables of the others are elsewhere.             *)
(***************************************************************************)
EXTENDS Integers, Sequences, FiniteSets

CONSTANTS
    Patterns, Urls, MinTokenLen, StopTokens,                            \* AdblockGlob
    Sites, UrlPaths, Lines, Cosmetics, MaxLines, Keyed, Exempted, Nowhere, \* AdblockRules
    Latin, Cyrillic, Han, Marks, Digits, Symbols, MinHan, Entries, Tags, Files, Extras, \* TextCensor
    Elements, SkipTags, VoidTags, Texts, MaxNodes, NoTag,
    Elsewhere

VARIABLES
    matcher,
    rule, url, todo, at, pi, si, hasStar, resume, mark, verdict,
    net, cosmetic, page,
    pinned, extra, declared, seen, out, stack, body

glob       == <<rule, url, todo, at, pi, si, hasStar, resume, mark, verdict>>
lists      == <<net, cosmetic, page>>
censor     == <<pinned, extra, declared, seen, out, stack, body>>
filterVars == <<matcher, glob, lists, censor>>

G == INSTANCE AdblockGlob
R == INSTANCE AdblockRules WITH Hosts <- Sites, Paths <- UrlPaths
T == INSTANCE TextCensor

(* Patterns and URLs are strings, hosts sequences of labels, at least one. *)
ASSUME GlobAssumption ==
    /\ \A s \in Patterns \cup Urls : s \in Seq({s[i] : i \in DOMAIN s})
    /\ MinTokenLen \in Nat \ {0}
Sequence(h) == h \in Seq({h[i] : i \in DOMAIN h}) /\ h # <<>>
ASSUME LinesAssumption ==
    /\ Nowhere \notin Sites /\ \A h \in Sites : Sequence(h)
    /\ \A l \in Lines : l.host = Nowhere \/ Sequence(l.host)
(* What a masked character becomes is punctuation, or nothing.             *)
ASSUME TextsAssumption ==
    /\ {"*", T!Dropped} \cap (Latin \cup Cyrillic \cup Han \cup Marks \cup Digits \cup Symbols) = {}
    /\ \A s \in Texts : s \in Seq({s[i] : i \in DOMAIN s})

GlobParked ==
    /\ rule = Elsewhere /\ url = Elsewhere /\ todo = Elsewhere /\ at = Elsewhere /\ pi = Elsewhere /\ si = Elsewhere
    /\ hasStar = Elsewhere /\ resume = Elsewhere /\ mark = Elsewhere /\ verdict = Elsewhere
ListsParked == net = Elsewhere /\ cosmetic = Elsewhere /\ page = Elsewhere
CensorParked ==
    /\ pinned = Elsewhere /\ extra = Elsewhere /\ declared = Elsewhere /\ seen = Elsewhere
    /\ out = Elsewhere /\ stack = Elsewhere /\ body = Elsewhere
FiltersParked == matcher = Elsewhere /\ GlobParked /\ ListsParked /\ CensorParked

FiltersInit ==
    \/ matcher = "pattern" /\ G!Init /\ ListsParked /\ CensorParked
    \/ matcher = "lists"   /\ R!Init /\ GlobParked /\ CensorParked
    \/ matcher = "censor"  /\ T!Init /\ GlobParked /\ ListsParked
PatternNext == matcher = "pattern" /\ G!Next /\ UNCHANGED <<matcher, lists, censor>>
ListsNext   == matcher = "lists"   /\ R!Next /\ UNCHANGED <<matcher, glob, censor>>
CensorNext  == matcher = "censor"  /\ T!Next /\ UNCHANGED <<matcher, glob, lists>>
FiltersNext == PatternNext \/ ListsNext \/ CensorNext
FiltersSpec == FiltersInit /\ [][FiltersNext]_filterVars

-----------------------------------------------------------------------------
(* Filter lists block and hide what their lines say, whatever the loop of  *)
(* the matcher, the index and the order of the lines.                      *)
FiltersApplied ==
    /\ matcher = "pattern" => G!FindsMatches
    /\ matcher = "lists"   => R!BlocksAsWritten /\ R!HidesAsWritten

(* Pages are censored by the languages in force where the words stand.     *)
CensoredAsWritten == matcher = "censor" => T!CensoredAsWritten
=============================================================================
