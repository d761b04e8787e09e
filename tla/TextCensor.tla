------------------------------ MODULE TextCensor ------------------------------
(***************************************************************************)
(* The censor mode of the text classifier: which words of a page are       *)
(* masked (internal/classify/profanity), in which of its elements and by   *)
(* which languages' lists (text_censor.go, text_classifier.go).            *)
(*                                                                         *)
(* A text is a sequence of characters in lower case, which matter by their *)
(* script: Latin, another one with spaces between words, one without       *)
(* spaces (Han), combining marks, digits, symbols, and everything else,    *)
(* which is spaces and punctuation.                                        *)
(***************************************************************************)
EXTENDS Integers, Sequences, FiniteSets

CONSTANTS
    Latin, Cyrillic, Han, Marks, Digits, Symbols,   \* characters
    MinHan,         \* letters an entry without spaces must have
    Entries,        \* the embedded lists: [lang, text]
    Tags, Files,    \* language tags, and the lists each of them selects
    Extras,         \* censor_words a policy may add
    Elements, SkipTags, VoidTags,
    Texts,          \* the texts a page may have
    MaxNodes,       \* bound: nodes of a page
    NoTag           \* an element without a lang attribute

VARIABLES
    pinned, extra,  \* censor_languages and censor_words of the policy
    declared,       \* the language of the page: its tag, or NoTag
    seen, out,      \* the nodes read, and what was written for them
    stack,          \* the open elements: their names, languages, and whether skipped
    body            \* the body that is passed on, once the end is reached

vars == <<pinned, extra, declared, seen, out, stack, body>>
Unfinished == <<>>

-----------------------------------------------------------------------------
(* Tokens and entries                                                      *)

Letters    == Latin \cup Cyrillic \cup Han
IsWord(c)  == c \in Letters \cup Marks \cup Digits
InToken(c) == IsWord(c) /\ c \notin Han
HasHan(s)  == \E i \in DOMAIN s : s[i] \in Han

(* Tokenize: a token opens at a word character behind another one, Han     *)
(* among them, and ends before the next other one.                         *)
Opens(s, i)  == InToken(s[i]) /\ (i > 1 => ~InToken(s[i - 1]))
Closes(s, i) == CHOOSE j \in i..Len(s) :
                    (\A k \in i..j : InToken(s[k])) /\ (j < Len(s) => ~InToken(s[j + 1]))
Tokenize(s) ==
    LET upTo[i \in 0..Len(s)] ==
            IF i = 0 THEN <<>>
            ELSE IF Opens(s, i) THEN Append(upTo[i - 1], <<i, Closes(s, i)>>) ELSE upTo[i - 1]
    IN  upTo[Len(s)]
Words(s) ==
    LET toks == Tokenize(s) IN [k \in DOMAIN toks |-> SubSeq(s, toks[k][1], toks[k][2])]

(* makeEntry drops what would match everywhere.                            *)
Usable(s) ==
    IF HasHan(s) THEN Cardinality({i \in DOMAIN s : s[i] \in Letters}) >= MinHan
    ELSE \E i \in DOMAIN s : InToken(s[i]) /\ s[i] \notin Digits
IsLatinOnly(s) == \A i \in DOMAIN s : s[i] \in Letters => s[i] \in Latin

(* ForLanguages: Latin entries only of the languages asked for.            *)
Selected(tags) == IF tags = {} THEN {"en"} ELSE UNION {Files[t] : t \in tags}
ForLanguages(tags) ==
    {e.text : e \in {e \in Entries :
        Usable(e.text) /\ (IsLatinOnly(e.text) /\ ~HasHan(e.text) => e.lang \in Selected(tags))}} \cup extra

-----------------------------------------------------------------------------
(* Matcher.Find and Mask                                                   *)

(* At each place behind what was found the longest entry.                  *)
Max(S) == CHOOSE x \in S : \A y \in S : y <= x
Hits(s, entries, i) == {n \in 1..Len(s) - i + 1 : SubSeq(s, i, i + n - 1) \in entries}
Longest(s, entries) ==
    LET upTo[i \in 0..Len(s)] ==
            IF i = 0 THEN {}
            ELSE LET before == upTo[i - 1]
                     hits == Hits(s, entries, i)
                 IN  IF hits = {} \/ (\E b \in before : i <= b[2]) THEN before
                     ELSE before \cup {<<i, i + Max(hits) - 1>>}
    IN  upTo[Len(s)]

(* Phrases are sought among the tokens, entries with Han in the text.      *)
PhraseSpans(s, words) ==
    LET toks == Tokenize(s)
        is == Words(s)
        phrases == {Words(w) : w \in {w \in words : ~HasHan(w)}}
    IN  {<<toks[b[1]][1], toks[b[2]][2]>> : b \in Longest(is, phrases)}
Scan(s, words) == LET strings == {w \in words : HasHan(w)} IN Longest(s, strings)

Find(s, words) == UNION {b[1]..b[2] : b \in PhraseSpans(s, words) \cup Scan(s, words)}

Dropped == ""
Hidden(c) == IsWord(c) \/ c \in Symbols
Mask(s, at) ==
    [i \in DOMAIN s |-> IF i \notin at THEN s[i]
                        ELSE IF s[i] \in Marks THEN Dropped ELSE IF Hidden(s[i]) THEN "*" ELSE s[i]]

-----------------------------------------------------------------------------
(* censorHTML                                                              *)

Node(kind, name, lang, text) == [kind |-> kind, name |-> name, lang |-> lang, text |-> text]
Text(t)      == Node("text", "", NoTag, t)
Start(n, l)  == Node("start", n, l, <<>>)
EndOf(n)     == Node("end", n, NoTag, <<>>)

(* Pinned languages hold everywhere; else those of the page, and an        *)
(* element may declare another one.                                        *)
PageTags == IF pinned # {} THEN pinned ELSE {declared} \ {NoTag}
Top == stack[Len(stack)]

Init ==
    /\ pinned \in {{}} \cup {{t} : t \in Tags} /\ extra \in Extras /\ declared \in Tags \cup {NoTag}
    /\ seen = <<>> /\ out = <<>> /\ body = Unfinished
    /\ stack = <<[name |-> "", tags |-> PageTags, skip |-> FALSE]>>

Reads(node) == body = Unfinished /\ Len(seen) < MaxNodes /\ seen' = Append(seen, node)
policyVars == <<pinned, extra, declared>>

StartTag(n, l) ==
    /\ Reads(Start(n, l)) /\ out' = Append(out, Start(n, l))
    /\ stack' = IF n \in VoidTags THEN stack
                ELSE Append(stack, [name |-> n, skip |-> Top.skip \/ n \in SkipTags,
                                    tags |-> IF l = NoTag \/ pinned # {} THEN Top.tags ELSE {l}])
    /\ UNCHANGED <<policyVars, body>>

(* An end tag closes what was left open inside its element, and is ignored *)
(* when there is none.                                                     *)
BugPops(n) ==
    /\ Reads(EndOf(n)) /\ out' = Append(out, EndOf(n))
    /\ stack' = IF Len(stack) > 1 THEN SubSeq(stack, 1, Len(stack) - 1) ELSE stack
    /\ UNCHANGED <<policyVars, body>>
EndTag(n) ==
    /\ Reads(EndOf(n)) /\ out' = Append(out, EndOf(n))
    /\ LET open == {i \in 2..Len(stack) : stack[i].name = n}
       IN  stack' = IF open = {} THEN stack ELSE SubSeq(stack, 1, Max(open) - 1)
    /\ UNCHANGED <<policyVars, body>>

TextNode(t) ==
    /\ Reads(Text(t))
    /\ out' = Append(out, IF Top.skip THEN Text(t) ELSE Text(Mask(t, Find(t, ForLanguages(Top.tags)))))
    /\ UNCHANGED <<policyVars, stack, body>>

(* Nothing is changed in a page that cannot be read to its end.            *)
EOF == body = Unfinished /\ seen # <<>> /\ body' = out  /\ UNCHANGED <<policyVars, seen, out, stack>>
Unreadable ==
    body = Unfinished /\ seen # <<>> /\ body' = seen /\ UNCHANGED <<policyVars, seen, out, stack>>

Next ==
    \/ \E n \in Elements : EndTag(n) \/ \E l \in Tags \cup {NoTag} : StartTag(n, l)
    \/ \E t \in Texts : TextNode(t)
    \/ EOF \/ Unreadable
Spec == Init /\ [][Next]_vars

-----------------------------------------------------------------------------
(* Properties                                                              *)

(* The elements open after k nodes, by the nodes that opened them.         *)
Opened(open, j) ==
    LET same == {i \in open : seen[i].name = seen[j].name}
    IN  IF seen[j].kind = "start" /\ seen[j].name \notin VoidTags THEN open \cup {j}
        ELSE IF seen[j].kind = "end" /\ same # {} THEN {i \in open : i < Max(same)}
        ELSE open
OpenAfter(k) ==
    LET open[j \in 0..k] == IF j = 0 THEN {} ELSE Opened(open[j - 1], j) IN open[k]
TagsAt(k) ==
    LET own == {i \in OpenAfter(k) : seen[i].lang # NoTag}
    IN  IF pinned # {} \/ own = {} THEN PageTags ELSE {seen[Max(own)].lang}

(* Where an entry occurs: as a run of whole tokens, or anywhere if it is   *)
(* of a script without spaces.                                             *)
Occurrences(s, w) ==
    LET toks == Tokenize(s)
        is == Words(s)
        phrase == Words(w)
    IN  IF HasHan(w) THEN {b \in (DOMAIN s) \X (DOMAIN s) : SubSeq(s, b[1], b[2]) = w}
        ELSE {<<toks[b[1]][1], toks[b[2]][2]>> :
                b \in {b \in (DOMAIN is) \X (DOMAIN is) : phrase # <<>> /\ SubSeq(is, b[1], b[2]) = phrase}}
AllOccurrences(s, tags) == UNION {Occurrences(s, w) : w \in ForLanguages(tags)}
Masked(s, m) == {i \in DOMAIN s : m[i] # s[i]}

(* In a page that is passed on, every occurrence of an entry of the        *)
(* languages in force at its place begins in one that is masked whole, but *)
(* for its spaces and punctuation; nothing is masked outside occurrences   *)
(* nor in elements that hold code; a page that was not understood is       *)
(* passed on as it came.                                                   *)
CensoredAsWritten ==
    \A k \in DOMAIN body :
        \/ body = seen /\ out # seen
        \/ seen[k].kind # "text" /\ body[k] = seen[k]
        \/ LET s == seen[k].text
               masked == Masked(s, body[k].text)
               all == AllOccurrences(s, TagsAt(k))
           IN  /\ seen[k].kind = "text"
               /\ IF \E i \in OpenAfter(k) : seen[i].name \in SkipTags THEN masked = {}
                  ELSE /\ \A b \in all : \E c \in all :
                              b[1] \in c[1]..c[2] /\ \A i \in c[1]..c[2] : Hidden(s[i]) => i \in masked
                       /\ \A i \in masked : \E b \in all : i \in b[1]..b[2]
=============================================================================
