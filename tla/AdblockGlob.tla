----------------------------- MODULE AdblockGlob -----------------------------
(***************************************************************************)
(* How one filter pattern is matched against a URL (internal/adblock,      *)
(* engine.go): the offsets at which netRule.matches tries the pattern, the *)
(* loop of globMatch with its single point to resume from, and the token   *)
(* under which the pattern is indexed.                                     *)
(*                                                                         *)
(* Characters: "a" stands for a letter, "." for one that is neither part   *)
(* of a token nor a separator, "/" for a separator, ":" for "://".  Both   *)
(* strings are in lower case already.                                      *)
(***************************************************************************)
EXTENDS Integers, Sequences, FiniteSets, FiniteSetsExt

CONSTANTS
    Patterns, Urls,     \* sequences of characters
    MinTokenLen,
    StopTokens

VARIABLES
    rule,       \* pattern with its anchors
    url,
    todo,       \* offsets of the URL the pattern has still to be tried at
    at,         \* the one it is being tried at, or None
    pi, si,     \* globMatch: positions in pattern and URL
    hasStar, resume, mark,
    verdict     \* "open" while the loop runs

vars == <<rule, url, todo, at, pi, si, hasStar, resume, mark, verdict>>

None == -1
IsSeparator(c) == c \in {"/", ":"}
IsToken(c)     == c = "a"

(* "||", "|" at either end, or nothing; a pattern that is a host name is   *)
(* not matched here.                                                       *)
IsHostName(r) ==
    /\ r.anchorHost /\ ~r.anchorEnd
    /\ LET h == IF r.pattern # <<>> /\ r.pattern[Len(r.pattern)] = "^"
                THEN SubSeq(r.pattern, 1, Len(r.pattern) - 1) ELSE r.pattern
       IN  (\E i \in DOMAIN h : h[i] = ".") /\ \A i \in DOMAIN h : h[i] \in {"a", "."}
Rules ==
    {r \in [pattern : Patterns, anchorHost : BOOLEAN, anchorStart : BOOLEAN, anchorEnd : BOOLEAN] :
        ~(r.anchorHost /\ r.anchorStart) /\ ~IsHostName(r)}

(* The pattern up to its first wildcard or separator.                      *)
Special(p) == {i \in DOMAIN p : p[i] \in {"*", "^"}}
Literal(p) == IF Special(p) = {} THEN p ELSE SubSeq(p, 1, Min(Special(p)) - 1)
OccursAt(lit, s, off) ==
    off + Len(lit) <= Len(s) /\ \A i \in DOMAIN lit : s[off + i] = lit[i]

(* Where a label of the host starts: after "://", and after each dot of    *)
(* what follows up to the path.                                            *)
Scheme(s)  == {i \in DOMAIN s : s[i] = ":"}
HostEnd(s) == Min({i \in DOMAIN s : i > Min(Scheme(s)) /\ s[i] = "/"} \cup {Len(s) + 1})
HostStarts(s) ==
    IF Scheme(s) = {} THEN {}
    ELSE {Min(Scheme(s))} \cup {i \in Min(Scheme(s)) + 1..HostEnd(s) - 1 : s[i] = "."}

Anchored(r) == r.anchorHost \/ r.anchorStart \/ Literal(r.pattern) # <<>>
Offsets(r, s) ==
    IF r.anchorHost THEN HostStarts(s)
    ELSE IF r.anchorStart \/ Literal(r.pattern) = <<>> THEN {0}
    ELSE {off \in 0..Len(s) : OccursAt(Literal(r.pattern), s, off)}

Init ==
    /\ rule \in Rules /\ url \in Urls
    /\ todo = Offsets(rule, url) /\ at = None
    /\ pi = 0 /\ si = 0 /\ hasStar = FALSE /\ resume = 0 /\ mark = 0
    /\ verdict = "open"

TryNext ==
    /\ verdict = "open" /\ at = None
    /\ IF todo = {} THEN verdict' = "none" /\ UNCHANGED <<todo, at, pi, si, hasStar, resume, mark>>
       ELSE /\ at' = Min(todo) /\ todo' = todo \ {at'}
            /\ pi' = 0 /\ si' = at' /\ hasStar' = ~Anchored(rule) /\ resume' = 0 /\ mark' = at'
            /\ UNCHANGED verdict
    /\ UNCHANGED <<rule, url>>

Char == rule.pattern[pi + 1]
Accepts == pi = Len(rule.pattern) /\ (rule.anchorEnd => si = Len(url))
AtEnd   == si = Len(url)
Running == verdict = "open" /\ at # None
loopVars == <<rule, url, todo>>

Accept ==
    /\ Running /\ Accepts /\ verdict' = "match"
    /\ UNCHANGED <<loopVars, at, pi, si, hasStar, resume, mark>>

(* At the end of the URL only "*" and "^" may be left of the pattern.      *)
End ==
    /\ Running /\ ~Accepts /\ AtEnd
    /\ IF \A i \in pi + 1..Len(rule.pattern) : rule.pattern[i] \in {"*", "^"}
       THEN verdict' = "match" /\ UNCHANGED at
       ELSE at' = None /\ UNCHANGED verdict
    /\ UNCHANGED <<loopVars, pi, si, hasStar, resume, mark>>

Star ==
    /\ Running /\ ~Accepts /\ ~AtEnd /\ pi < Len(rule.pattern) /\ Char = "*"
    /\ hasStar' = TRUE /\ resume' = pi + 1 /\ mark' = si /\ pi' = pi + 1
    /\ UNCHANGED <<loopVars, at, si, verdict>>

Fits == pi < Len(rule.pattern) /\ Char # "*" /\ IF Char = "^" THEN IsSeparator(url[si + 1]) ELSE Char = url[si + 1]
Advance ==
    /\ Running /\ ~Accepts /\ ~AtEnd /\ Fits /\ pi' = pi + 1 /\ si' = si + 1
    /\ UNCHANGED <<loopVars, at, hasStar, resume, mark, verdict>>

Backtrack ==
    /\ Running /\ ~Accepts /\ ~AtEnd /\ ~Fits /\ (pi < Len(rule.pattern) => Char # "*")
    /\ IF hasStar THEN mark' = mark + 1 /\ pi' = resume /\ si' = mark' /\ UNCHANGED at
                  ELSE at' = None /\ UNCHANGED <<mark, pi, si>>
    /\ UNCHANGED <<loopVars, hasStar, resume, verdict>>

Next == TryNext \/ Accept \/ End \/ Star \/ Advance \/ Backtrack
Spec == Init /\ [][Next]_vars /\ WF_vars(Next)

-----------------------------------------------------------------------------
(* The index                                                               *)

Runs(s) == {b \in (DOMAIN s) \X (DOMAIN s) :
    /\ b[1] <= b[2] /\ \A k \in b[1]..b[2] : IsToken(s[k])
    /\ b[1] > 1 => ~IsToken(s[b[1] - 1])
    /\ b[2] < Len(s) => ~IsToken(s[b[2] + 1])}
Usable(t) == Len(t) >= MinTokenLen /\ t \notin StopTokens
Tokens(s) == {t \in {SubSeq(s, b[1], b[2]) : b \in Runs(s)} : Usable(t)}

(* A run counts if no "*" could extend it in the URL.                      *)
Bounded(r, b) ==
    /\ IF b[1] > 1 THEN r.pattern[b[1] - 1] # "*" ELSE r.anchorHost \/ r.anchorStart
    /\ IF b[2] < Len(r.pattern) THEN r.pattern[b[2] + 1] # "*" ELSE r.anchorEnd
BestToken(r) ==
    LET runs == {b \in Runs(r.pattern) : Bounded(r, b) /\ Usable(SubSeq(r.pattern, b[1], b[2]))}
        longest == {b \in runs : \A c \in runs : c[2] - c[1] <= b[2] - b[1]}
    IN  IF runs = {} THEN <<>>
        ELSE LET b == CHOOSE b \in longest : \A c \in longest : b[1] <= c[1]
             IN  SubSeq(r.pattern, b[1], b[2])

-----------------------------------------------------------------------------
(* Properties                                                              *)

TypeOK ==
    /\ rule \in Rules /\ url \in Urls /\ todo \subseteq 0..Len(url) /\ at \in {None} \cup 0..Len(url)
    /\ pi \in 0..Len(rule.pattern) /\ si \in 0..Len(url) /\ hasStar \in BOOLEAN
    /\ resume \in 0..Len(rule.pattern) /\ mark \in 0..Len(url) /\ verdict \in {"open", "match", "none"}

(* The positions a match of the first k characters of the pattern may end  *)
(* at: "*" is any run, "^" one separator or the end of the URL.            *)
Reach(r, s) ==
    LET starts == IF r.anchorHost THEN HostStarts(s) ELSE IF r.anchorStart THEN {0} ELSE 0..Len(s)
        after[k \in 0..Len(r.pattern)] ==
            IF k = 0 THEN starts
            ELSE CASE r.pattern[k] = "*" -> {n \in 0..Len(s) : \E m \in after[k - 1] : m <= n}
                   [] r.pattern[k] = "^" ->
                        {n \in 1..Len(s) : n - 1 \in after[k - 1] /\ IsSeparator(s[n])} \cup (after[k - 1] \cap {Len(s)})
                   [] OTHER -> {n \in 1..Len(s) : n - 1 \in after[k - 1] /\ s[n] = r.pattern[k]}
    IN  after[Len(r.pattern)]
Matches(r, s) == IF r.anchorEnd THEN Len(s) \in Reach(r, s) ELSE Reach(r, s) # {}

(* The loop, which remembers one "*" to resume from and tries only the     *)
(* offsets where the literal start of the pattern occurs, finds a match    *)
(* exactly when there is one; and a rule that matches a URL is found under *)
(* its token, whatever other rules the index holds.                        *)
FindsMatches ==
    /\ verdict = "match" => Matches(rule, url)
    /\ verdict = "none" => ~Matches(rule, url)
    /\ Matches(rule, url) /\ BestToken(rule) # <<>> => BestToken(rule) \in Tokens(url)
=============================================================================
