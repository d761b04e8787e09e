--------------------------- MODULE Filters_proofs ---------------------------
(***************************************************************************)
(* Proofs about Filters for any lists, patterns, URLs, sites and pages.    *)
(***************************************************************************)
EXTENDS Filters, SequenceTheorems, WellFoundedInduction, TLAPS

(* Minima of naturals.                                                     *)
LEMMA Least == \A Z \in SUBSET Nat : Z # {} => \E x \in Z : \A y \in Z : x <= y
<1>. SUFFICES ASSUME NEW Z \in SUBSET Nat, Z # {} PROVE \E x \in Z : \A y \in Z : x <= y
  OBVIOUS
<1>1. PICK x \in Z : \A y \in Z : <<y, x>> \notin OpToRel(<, Nat)
  BY NatLessThanWellFounded, WFMin, Zenon
<1>2. \A y \in Z : <<y, x>> \notin OpToRel(<, Nat) => ~ (y < x)
  BY Zenon DEF OpToRel
<1>3. \A y \in Z : ~ (y < x) /\ x \in Nat /\ y \in Nat
  BY <1>1, <1>2
<1>4. \A y \in Z : x <= y
  BY <1>3
<1>. QED BY <1>4

-----------------------------------------------------------------------------
(* The lists.  A rule is in the bucket of a host or of one of its parents  *)
(* if it fits the host, so what an index finds is what fits.               *)

ListsInv == net \in Seq(Lines) /\ cosmetic \in Seq(Cosmetics) /\ page \in R!Pages

LEMMA ListsStart == R!Init => ListsInv
BY DEF R!Init, ListsInv

LEMMA ListsStep == ListsInv /\ [R!Next]_lists => ListsInv'
<1>. SUFFICES ASSUME ListsInv, [R!Next]_lists PROVE ListsInv'
  OBVIOUS
<1>1. CASE R!ReadFilter
  BY <1>1 DEF R!ReadFilter, ListsInv, R!Room
<1>2. CASE R!ReadCosmetic
  BY <1>2 DEF R!ReadCosmetic, ListsInv, R!Room
<1>3. CASE R!OpenPage
  BY <1>3 DEF R!OpenPage, ListsInv
<1>4. CASE UNCHANGED lists
  BY <1>4 DEF lists, ListsInv, R!Pages
<1>. QED BY <1>1, <1>2, <1>3, <1>4 DEF R!Next

LEMMA ParentMatched ==
    ASSUME NEW h, Sequence(h), NEW d, Sequence(d), R!DomainMatches(h, d)
    PROVE  d \in R!Ancestors(h)
<1>. DEFINE S == {h[i] : i \in DOMAIN h}
<1>1. h \in Seq(S) /\ Len(h) \in Nat /\ Len(d) \in Nat /\ Len(d) > 0
  BY DEF Sequence
<1>2. Len(h) - Len(d) + 1 \in 1..Len(h) /\ h # Nowhere
  BY <1>1 DEF R!DomainMatches
<1>3. d = SubSeq(h, Len(h) - Len(d) + 1, Len(h))
  BY DEF R!DomainMatches
<1>. QED BY <1>2, <1>3 DEF R!Ancestors

(* What is asked: a host of the pages, and a line that is there.           *)
Asks(q) == q.host \in Sites

LEMMA FitsInBucket ==
    ASSUME NEW q, Asks(q), NEW l \in Lines, NEW ofPage, R!Fits(l, q, ofPage)
    PROVE  l.host \in R!Ancestors(q.host) \cup {Nowhere}
BY LinesAssumption, ParentMatched DEF R!Fits, R!PatternFits, Asks

LEMMA BucketsBounded ==
    ASSUME ListsInv, NEW q, Asks(q), NEW i \in DOMAIN net,
           net[i].host \in R!Ancestors(q.host) \cup {Nowhere}
    PROVE  R!Bucket(i) \in 0..Len(q.host) /\ Len(q.host) \in Nat
<1>. DEFINE h == q.host
            S == {h[k] : k \in DOMAIN h}
<1>1. h \in Seq(S) /\ h # Nowhere /\ Len(h) \in Nat
  BY LinesAssumption DEF Asks, Sequence
<1>2. ASSUME NEW k \in 1..Len(h) PROVE Len(SubSeq(h, k, Len(h))) \in 0..Len(h)
  BY <1>1, <1>2
<1>. QED BY <1>1, <1>2 DEF R!Bucket, R!Ancestors

LEMMA FirstFound ==
    ASSUME ListsInv, NEW q, Asks(q), NEW Z \in SUBSET DOMAIN net, Z # {},
           \A i \in Z : net[i].host \in R!Ancestors(q.host) \cup {Nowhere}
    PROVE  R!First(Z) \in Z
<1>. DEFINE far(i) == Len(q.host) - R!Bucket(i)
            D == {far(i) : i \in Z}
<1>1. \A i \in Z : far(i) \in Nat /\ R!Bucket(i) \in Nat /\ Len(q.host) \in Nat /\ i \in Nat
  BY BucketsBounded DEF ListsInv
<1>2. PICK i0 \in Z : \A j \in Z : far(i0) <= far(j)
  <2>1. D \in SUBSET Nat /\ D # {}
    BY <1>1
  <2>2. PICK d \in D : \A e \in D : d <= e
    BY <2>1, Least
  <2>. QED BY <2>2
<1>. DEFINE E == {i \in Z : R!Bucket(i) = R!Bucket(i0)}
<1>3. PICK i1 \in E : \A j \in E : i1 <= j
  <2>1. E \in SUBSET Nat /\ i0 \in E
    BY <1>1
  <2>. QED BY <2>1, Least
<1>4. i1 \in Z /\ \A j \in Z : R!Before(i1, j)
  BY <1>1, <1>2, <1>3 DEF R!Before
<1>. QED BY <1>4 DEF R!First

LEMMA FoundIsWhatFits ==
    ASSUME ListsInv, NEW q, Asks(q)
    PROVE  /\ R!Found("block", q) = {i \in R!Parsed : ~net[i].exception /\ R!Fits(net[i], q, FALSE)}
           /\ R!Found("allow", q) = {i \in R!Parsed : net[i].exception /\ ~R!PageLevel(net[i]) /\ R!Fits(net[i], q, FALSE)}
<1>1. \A i \in R!Parsed : net[i] \in Lines
  BY DEF ListsInv, R!Parsed
<1>2. \A i \in R!Parsed : R!Fits(net[i], q, FALSE) => net[i].host \in R!Ancestors(q.host) \cup {Nowhere}
  BY <1>1, FitsInBucket
<1>. QED BY <1>2 DEF R!Found, R!Candidates, R!Index

LEMMA FindFinds ==
    ASSUME ListsInv, NEW q, Asks(q), NEW kind
    PROVE  /\ R!Find(kind, q) = {} <=> R!Found(kind, q) = {}
           /\ (\E l \in R!Find(kind, q) : l.important) <=> (\E i \in R!Found(kind, q) : net[i].important)
<1>. DEFINE F == R!Found(kind, q)
            I == {i \in F : net[i].important}
<1>1. F \in SUBSET DOMAIN net /\ I \in SUBSET DOMAIN net
  BY DEF R!Found, R!Candidates, R!Index, R!Parsed
<1>2. \A i \in F : net[i].host \in R!Ancestors(q.host) \cup {Nowhere}
  BY DEF R!Found, R!Candidates
<1>3. F # {} => R!First(F) \in F
  BY <1>1, <1>2, FirstFound
<1>4. I # {} => R!First(I) \in I
  BY <1>1, <1>2, FirstFound
<1>5. R!Find(kind, q) = IF F = {} THEN {} ELSE IF I # {} THEN {net[R!First(I)]} ELSE {net[R!First(F)]}
  BY DEF R!Find
<1>6. CASE F = {}
  BY <1>5, <1>6
<1>7. CASE F # {} /\ I # {}
  <2>1. R!Find(kind, q) = {net[R!First(I)]} /\ R!First(I) \in I
    BY <1>4, <1>5, <1>7
  <2>. QED BY <2>1
<1>8. CASE F # {} /\ I = {}
  <2>1. R!Find(kind, q) = {net[R!First(F)]} /\ R!First(F) \in F
    BY <1>3, <1>5, <1>8
  <2>. QED BY <1>8, <2>1
<1>. QED BY <1>6, <1>7, <1>8

LEMMA ExemptByDocument ==
    ASSUME ListsInv, NEW q, Asks(q), q.source \in Sites \cup {Nowhere}
    PROVE  R!DocumentException(q, FALSE) <=> R!Exempt(q)
<1>1. \A p \in R!PageOf(q) : Asks(p)
  BY LinesAssumption DEF R!PageOf, Asks, R!Request
<1>2. ASSUME NEW p \in R!PageOf(q), NEW i \in R!Parsed, R!Fits(net[i], p, TRUE)
      PROVE  net[i].host \in R!Ancestors(p.host) \cup {Nowhere}
  <2>1. net[i] \in Lines
    BY DEF ListsInv, R!Parsed
  <2>. QED BY <1>1, <1>2, <2>1, FitsInBucket
<1>3. ASSUME NEW i \in R!Parsed, ~net[i].elemHide, ~net[i].genericHide
      PROVE  R!PageLevel(net[i]) => "document" \in R!TypeMask(net[i])
  BY <1>3 DEF R!PageLevel
<1>4. ASSUME NEW p \in R!PageOf(q), NEW i \in R!Parsed,
             R!Fits(net[i], p, TRUE), ~net[i].elemHide, ~net[i].genericHide
      PROVE  i \in R!Candidates(R!Index("document"), p) /\ "document" \in R!TypeMask(net[i]) <=> R!PageLevel(net[i])
  BY <1>2, <1>3, <1>4 DEF R!Candidates, R!Index
<1>5. R!Exempt(q) <=> \E p \in R!PageOf(q) : \E i \in R!Parsed :
          R!PageLevel(net[i]) /\ R!Fits(net[i], p, TRUE) /\ ~net[i].elemHide /\ ~net[i].genericHide
  BY DEF R!Exempt, R!Fitting, R!PageLevel
<1>6. R!DocumentException(q, FALSE) <=> \E p \in R!PageOf(q) : \E i \in R!Candidates(R!Index("document"), p) :
          R!Fits(net[i], p, TRUE) /\ "document" \in R!TypeMask(net[i]) /\ ~net[i].elemHide /\ ~net[i].genericHide
  BY DEF R!DocumentException
<1>7. \A p : R!Candidates(R!Index("document"), p) \subseteq R!Parsed
  BY DEF R!Candidates, R!Index
<1>. QED BY <1>4, <1>5, <1>6, <1>7

LEMMA BlocksHold == ASSUME ListsInv PROVE R!BlocksAsWritten
<1>. SUFFICES ASSUME NEW type \in R!Types, NEW source \in Sites \cup {Nowhere}
              PROVE  LET q == R!Request(page.host, page.path, source, type)
                         fit == R!Fitting(q, FALSE)
                     IN  R!HandleRequest(q) =
                            /\ ~R!Exempt(q) /\ \A d \in Exempted : ~R!DomainMatches(R!Site(q), d)
                            /\ \/ \E l \in fit : ~l.exception /\ l.important
                               \/ (\E l \in fit : ~l.exception) /\ ~(\E l \in fit : l.exception)
  BY DEF R!BlocksAsWritten
<1>. DEFINE q == R!Request(page.host, page.path, source, type)
            fit == R!Fitting(q, FALSE)
<1>1. Asks(q) /\ q.source \in Sites \cup {Nowhere}
  BY DEF Asks, R!Request, ListsInv, R!Pages
<1>2. R!DocumentException(q, FALSE) <=> R!Exempt(q)
  BY <1>1, ExemptByDocument
<1>3. /\ \A l \in fit : \E i \in R!Parsed : l = net[i] /\ ~R!PageLevel(l) /\ R!Fits(l, q, FALSE)
      /\ \A i \in R!Parsed : ~R!PageLevel(net[i]) /\ R!Fits(net[i], q, FALSE) => net[i] \in fit
      /\ \A l : ~l.exception => ~R!PageLevel(l)
  BY DEF R!Fitting, R!PageLevel
<1>. HIDE DEF fit, q
<1>4. /\ \A l \in fit : ~l.exception => \E i \in R!Found("block", q) : l = net[i]
      /\ \A i \in R!Found("block", q) : net[i] \in fit /\ ~net[i].exception
  BY <1>1, <1>3, FoundIsWhatFits
<1>5. /\ \A l \in fit : l.exception => \E i \in R!Found("allow", q) : l = net[i]
      /\ \A i \in R!Found("allow", q) : net[i] \in fit /\ net[i].exception
  BY <1>1, <1>3, FoundIsWhatFits
<1>6. (\E l \in fit : ~l.exception /\ l.important) <=> (\E l \in R!Find("block", q) : l.important)
  BY <1>1, <1>4, FindFinds
<1>7. (\E l \in fit : ~l.exception) <=> R!Find("block", q) # {}
  BY <1>1, <1>4, FindFinds
<1>8. (\E l \in fit : l.exception) <=> R!Find("allow", q) # {}
  BY <1>1, <1>5, FindFinds
<1>9. R!HandleRequest(q) =
        (/\ ~\E d \in Exempted : R!DomainMatches(R!Site(q), d)
         /\ ~R!Exempt(q) /\ \E l \in R!Find("block", q) : l.important \/ R!Find("allow", q) = {})
  BY <1>2 DEF R!HandleRequest, R!SiteAllowed, R!Blocked
<1>10. R!HandleRequest(q) =
          (/\ ~R!Exempt(q) /\ \A d \in Exempted : ~R!DomainMatches(R!Site(q), d)
           /\ \/ \E l \in fit : ~l.exception /\ l.important
              \/ (\E l \in fit : ~l.exception) /\ ~(\E l \in fit : l.exception))
  BY <1>6, <1>7, <1>8, <1>9
<1>. QED BY <1>10 DEF fit, q

LEMMA HidesHold == R!HidesAsWritten
<1>. SUFFICES ASSUME NEW sel \in R!CosmeticSelectors
              PROVE  /\ \E c \in R!Rules : c.selector = sel /\ R!Hides(c)
                     /\ \A c \in R!Rules : c.selector = sel => ~R!Spares(c)
  BY DEF R!HidesAsWritten
<1>1. ~R!Excepted(sel, page.host)
  BY DEF R!CosmeticSelectors
<1>2. \A c \in R!Rules : c.selector = sel => ~R!Spares(c)
  BY <1>1 DEF R!Excepted, R!Spares
<1>3. CASE sel \in R!Specific(page.host) /\ \A d \in R!SpecificNot(sel) : ~R!DomainMatches(page.host, d)
  <2>1. PICK c \in R!Rules : ~c.exception /\ c.selector = sel /\ \E d \in c.domains : R!DomainMatches(page.host, d)
    BY <1>3 DEF R!Specific
  <2>2. c.notDomains \subseteq R!SpecificNot(sel)
    BY <2>1 DEF R!SpecificNot
  <2>. QED BY <1>2, <1>3, <2>1, <2>2 DEF R!Hides
<1>4. CASE sel \in R!Generic
  <2>1. PICK c \in R!Rules : ~c.exception /\ c.selector = sel /\ c.domains = {}
    BY <1>4 DEF R!Generic
  <2>2. \A d \in c.notDomains : ~R!DomainMatches(page.host, d)
    BY <1>1, <2>1 DEF R!Excepted
  <2>. QED BY <1>2, <2>1, <2>2 DEF R!Hides
<1>. QED BY <1>3, <1>4 DEF R!CosmeticSelectors

-----------------------------------------------------------------------------
(* A pattern.  Its characters are placed one after the other: Rest says    *)
(* that those after the k-th can be placed from the n-th character of the  *)
(* URL on.  A pattern matches if it has a Rest from one of its starts.     *)

Text(r, s) == r.pattern \in Seq({r.pattern[i] : i \in DOMAIN r.pattern}) /\ s \in Seq({s[i] : i \in DOMAIN s})

Consumes(r, s, k, m, n) ==
    CASE r.pattern[k] = "*" -> m <= n
      [] r.pattern[k] = "^" -> (n = m + 1 /\ G!IsSeparator(s[n])) \/ (m = n /\ n = Len(s))
      [] OTHER -> n = m + 1 /\ s[n] = r.pattern[k]
Places(r, s, k) == [k..Len(r.pattern) -> 0..Len(s)]
Way(r, s, k, f) ==
    /\ \A j \in k + 1..Len(r.pattern) : Consumes(r, s, j, f[j - 1], f[j])
    /\ r.anchorEnd => f[Len(r.pattern)] = Len(s)
Rest(r, s, k, n) == \E f \in Places(r, s, k) : f[k] = n /\ Way(r, s, k, f)

LEMMA RestAtEnd ==
    ASSUME NEW r, NEW s, Text(r, s), NEW n \in 0..Len(s)
    PROVE  Rest(r, s, Len(r.pattern), n) <=> (r.anchorEnd => n = Len(s))
<1>. DEFINE L == Len(r.pattern)
<1>1. L \in Nat /\ Len(s) \in Nat
  BY DEF Text
<1>2. ASSUME r.anchorEnd => n = Len(s) PROVE Rest(r, s, L, n)
  <2>. DEFINE f == [k \in L..L |-> n]
  <2>1. f \in Places(r, s, L) /\ f[L] = n
    BY <1>1 DEF Places
  <2>2. Way(r, s, L, f)
    BY <1>1, <1>2, <2>1 DEF Way
  <2>. QED BY <2>1, <2>2 DEF Rest
<1>. QED BY <1>2 DEF Rest, Way

LEMMA RestOneOn ==
    ASSUME NEW r, NEW s, Text(r, s), NEW k \in 0..Len(r.pattern) - 1, NEW n \in 0..Len(s)
    PROVE  Rest(r, s, k, n) <=> \E m \in 0..Len(s) : Consumes(r, s, k + 1, n, m) /\ Rest(r, s, k + 1, m)
<1>. DEFINE L == Len(r.pattern)
<1>1. L \in Nat /\ Len(s) \in Nat /\ k \in Nat /\ k < L
  BY DEF Text
<1>2. ASSUME Rest(r, s, k, n)
      PROVE  \E m \in 0..Len(s) : Consumes(r, s, k + 1, n, m) /\ Rest(r, s, k + 1, m)
  <2>1. PICK f \in Places(r, s, k) : f[k] = n /\ Way(r, s, k, f)
    BY <1>2 DEF Rest
  <2>. DEFINE g == [j \in k + 1..L |-> f[j]]
  <2>2. g \in Places(r, s, k + 1) /\ f[k + 1] \in 0..Len(s)
    BY <1>1 DEF Places
  <2>3. Way(r, s, k + 1, g)
    BY <1>1, <2>1 DEF Way
  <2>4. Consumes(r, s, k + 1, n, f[k + 1])
    BY <1>1, <2>1 DEF Way
  <2>5. g[k + 1] = f[k + 1]
    BY <1>1
  <2>. QED BY <2>2, <2>3, <2>4, <2>5 DEF Rest
<1>3. ASSUME NEW m \in 0..Len(s), Consumes(r, s, k + 1, n, m), Rest(r, s, k + 1, m)
      PROVE  Rest(r, s, k, n)
  <2>1. PICK f \in Places(r, s, k + 1) : f[k + 1] = m /\ Way(r, s, k + 1, f)
    BY <1>3 DEF Rest
  <2>. DEFINE g == [j \in k..L |-> IF j = k THEN n ELSE f[j]]
  <2>2. g \in Places(r, s, k) /\ g[k] = n
    BY <1>1 DEF Places
  <2>3. ASSUME NEW j \in k + 1..L PROVE Consumes(r, s, j, g[j - 1], g[j])
    <3>1. CASE j = k + 1
      BY <1>1, <1>3, <2>1, <3>1
    <3>2. CASE j # k + 1
      <4>1. j \in k + 2..L /\ j - 1 \in k + 1..L /\ g[j] = f[j] /\ g[j - 1] = f[j - 1]
        BY <1>1, <3>2
      <4>. QED BY <1>1, <2>1, <4>1 DEF Way
    <3>. QED BY <3>1, <3>2
  <2>4. g[L] = f[L]
    BY <1>1
  <2>. QED BY <2>1, <2>2, <2>3, <2>4 DEF Rest, Way
<1>. QED BY <1>2, <1>3

(* What the n-th characters may be reached by, as a function: it exists.   *)
Starts(r, s) == IF r.anchorHost THEN G!HostStarts(s) ELSE IF r.anchorStart THEN {0} ELSE 0..Len(s)
Onward(r, s, k, S) ==
    CASE r.pattern[k] = "*" -> {n \in 0..Len(s) : \E m \in S : m <= n}
      [] r.pattern[k] = "^" -> {n \in 1..Len(s) : n - 1 \in S /\ G!IsSeparator(s[n])} \cup (S \cap {Len(s)})
      [] OTHER -> {n \in 1..Len(s) : n - 1 \in S /\ s[n] = r.pattern[k]}
IsAfter(r, s, f, l) == f = [k \in 0..l |-> IF k = 0 THEN Starts(r, s) ELSE Onward(r, s, k, f[k - 1])]

LEMMA AfterExists ==
    ASSUME NEW r, NEW s, NEW l \in Nat PROVE \E f : IsAfter(r, s, f, l)
<1>. DEFINE Z == {n \in Nat : ~\E f : IsAfter(r, s, f, n)}
<1>1. SUFFICES ASSUME Z # {} PROVE FALSE
  OBVIOUS
<1>2. PICK n \in Z : \A y \in Z : n <= y
  BY <1>1, Least
<1>3. n # 0
  <2>1. IsAfter(r, s, [k \in 0..0 |-> Starts(r, s)], 0)
    BY DEF IsAfter
  <2>. QED BY <1>2, <2>1
<1>4. PICK f : IsAfter(r, s, f, n - 1)
  BY <1>2, <1>3
<1>. DEFINE g == [k \in 0..n |-> IF k = n THEN Onward(r, s, n, f[n - 1]) ELSE f[k]]
<1>5. ASSUME NEW k \in 0..n
      PROVE  g[k] = IF k = 0 THEN Starts(r, s) ELSE Onward(r, s, k, g[k - 1])
  <2>1. CASE k = 0
    BY <1>3, <1>4, <2>1 DEF IsAfter
  <2>2. CASE k # 0 /\ k # n
    <3>1. k - 1 \in 0..n - 1 /\ k \in 0..n - 1 /\ g[k - 1] = f[k - 1] /\ g[k] = f[k]
      BY <2>2
    <3>2. f[k] = Onward(r, s, k, f[k - 1])
      BY <1>4, <2>2, <3>1 DEF IsAfter
    <3>. QED BY <2>2, <3>1, <3>2
  <2>3. CASE k = n
    <3>1. g[n - 1] = f[n - 1] /\ g[n] = Onward(r, s, n, f[n - 1])
      BY <1>3
    <3>. QED BY <1>3, <2>3, <3>1
  <2>. QED BY <2>1, <2>2, <2>3
<1>6. IsAfter(r, s, g, n)
  BY <1>5 DEF IsAfter
<1>. QED BY <1>2, <1>6

LEMMA ReachIsAfter ==
    ASSUME NEW r, NEW s, Len(r.pattern) \in Nat
    PROVE  \E f : IsAfter(r, s, f, Len(r.pattern)) /\ G!Reach(r, s) = f[Len(r.pattern)]
<1>1. \E f : IsAfter(r, s, f, Len(r.pattern))
  BY AfterExists
<1>. QED BY <1>1 DEF G!Reach, IsAfter, Onward, Starts

LEMMA StartsInside ==
    ASSUME NEW r, NEW s, Text(r, s) PROVE Starts(r, s) \subseteq 0..Len(s)
<1>1. Len(s) \in Nat /\ DOMAIN s = 1..Len(s)
  BY DEF Text
<1>2. ASSUME r.anchorHost PROVE G!HostStarts(s) \subseteq 0..Len(s)
  <2>1. CASE G!Scheme(s) = {}
    BY <2>1 DEF G!HostStarts
  <2>2. CASE G!Scheme(s) # {}
    <3>. DEFINE c == G!Min(G!Scheme(s))
                E == {i \in DOMAIN s : i > c /\ s[i] = "/"} \cup {Len(s) + 1}
    <3>1. c \in 1..Len(s)
      <4>1. G!Scheme(s) \in SUBSET Nat /\ G!Scheme(s) \subseteq 1..Len(s)
        BY <1>1 DEF G!Scheme
      <4>. QED BY <2>2, <4>1, Least DEF G!Min
    <3>2. G!HostEnd(s) \in 0..Len(s) + 1
      <4>1. E \in SUBSET Nat /\ E # {} /\ E \subseteq 0..Len(s) + 1
        BY <1>1
      <4>2. G!Min(E) \in E
        BY <4>1, Least DEF G!Min
      <4>. QED BY <4>1, <4>2 DEF G!HostEnd
    <3>. QED BY <1>1, <2>2, <3>1, <3>2 DEF G!HostStarts
  <2>. QED BY <2>1, <2>2
<1>. QED BY <1>1, <1>2 DEF Starts

LEMMA MatchesFromStart ==
    ASSUME NEW r, NEW s, Text(r, s), r.anchorEnd \in BOOLEAN
    PROVE  G!Matches(r, s) <=> \E n \in Starts(r, s) : Rest(r, s, 0, n)
<1>. DEFINE L == Len(r.pattern)
            N == Len(s)
<1>1. L \in Nat /\ N \in Nat
  BY DEF Text
<1>2. PICK f : IsAfter(r, s, f, L) /\ G!Reach(r, s) = f[L]
  BY <1>1, ReachIsAfter
<1>3. f[0] = Starts(r, s) /\ f[0] \subseteq 0..N
  BY <1>1, <1>2, StartsInside DEF IsAfter
<1>4. ASSUME NEW k \in 1..L PROVE f[k] = Onward(r, s, k, f[k - 1])
  <2>1. k \in 0..L /\ k # 0
    BY <1>1
  <2>. QED BY <1>2, <2>1 DEF IsAfter
<1>. DEFINE Z == {k \in 1..L : ~(f[k] \subseteq 0..N /\ ((\E n \in f[k] : Rest(r, s, k, n)) <=> \E n \in f[0] : Rest(r, s, 0, n)))}
            Holds(k) == f[k] \subseteq 0..N /\ ((\E n \in f[k] : Rest(r, s, k, n)) <=> \E n \in f[0] : Rest(r, s, 0, n))
<1>5. ASSUME NEW k \in 1..L, Holds(k - 1) PROVE Holds(k)
  <2>1. f[k - 1] \subseteq 0..N
    BY <1>5
  <2>2. \A n : n \in f[k] <=> n \in 0..N /\ \E m \in f[k - 1] : Consumes(r, s, k, m, n)
    <3>1. f[k] = Onward(r, s, k, f[k - 1])
      BY <1>4
    <3>2. CASE r.pattern[k] = "*"
      BY <1>1, <2>1, <3>1, <3>2 DEF Onward, Consumes
    <3>3. CASE r.pattern[k] = "^"
      BY <1>1, <2>1, <3>1, <3>3 DEF Onward, Consumes
    <3>4. CASE r.pattern[k] \notin {"*", "^"}
      BY <1>1, <2>1, <3>1, <3>4 DEF Onward, Consumes
    <3>. QED BY <3>2, <3>3, <3>4
  <2>3. \A m \in f[k - 1] : Rest(r, s, k - 1, m) <=> \E n \in 0..N : Consumes(r, s, k, m, n) /\ Rest(r, s, k, n)
    <3>1. k - 1 \in 0..L - 1 /\ (k - 1) + 1 = k
      BY <1>1
    <3>. QED BY <2>1, <3>1, RestOneOn
  <2>4. (\E n \in f[k] : Rest(r, s, k, n)) <=> (\E m \in f[k - 1] : Rest(r, s, k - 1, m))
    BY <2>2, <2>3
  <2>. QED BY <1>5, <2>2, <2>4
<1>6. \A k \in 0..L : Holds(k)
  <2>. DEFINE Y == {k \in 0..L : ~Holds(k)}
  <2>1. SUFFICES ASSUME Y # {} PROVE FALSE
    OBVIOUS
  <2>2. Y \in SUBSET Nat
    BY <1>1
  <2>3. PICK k \in Y : \A y \in Y : k <= y
    BY <2>1, <2>2, Least
  <2>4. Holds(0)
    BY <1>3
  <2>5. k # 0
    BY <2>3, <2>4
  <2>6. k \in 1..L /\ k - 1 \in 0..L /\ k - 1 \notin Y
    BY <1>1, <2>3, <2>5
  <2>7. Holds(k - 1)
    BY <2>6
  <2>. QED BY <1>5, <2>3, <2>6, <2>7
<1>7. f[L] \subseteq 0..N /\ ((\E n \in f[L] : Rest(r, s, L, n)) <=> \E n \in Starts(r, s) : Rest(r, s, 0, n))
  BY <1>1, <1>3, <1>6
<1>8. \A n \in f[L] : Rest(r, s, L, n) <=> (r.anchorEnd => n = N)
  BY <1>7, RestAtEnd
<1>. QED BY <1>2, <1>7, <1>8 DEF G!Matches

(* At the end of the URL the rest must be characters that may stand for    *)
(* nothing.                                                                *)
LEMMA RestOfEnd ==
    ASSUME NEW r, NEW s, Text(r, s), NEW i \in 0..Len(r.pattern)
    PROVE  Rest(r, s, i, Len(s)) <=> \A k \in i + 1..Len(r.pattern) : r.pattern[k] \in {"*", "^"}
<1>. DEFINE L == Len(r.pattern)
            N == Len(s)
            Void(j) == \A k \in j + 1..L : r.pattern[k] \in {"*", "^"}
            Z == {d \in 0..L : ~(Rest(r, s, L - d, N) <=> Void(L - d))}
<1>1. L \in Nat /\ N \in Nat
  BY DEF Text
<1>2. SUFFICES Z = {}
  <2>1. L - i \in 0..L /\ L - (L - i) = i
    BY <1>1
  <2>. QED BY <2>1
<1>3. SUFFICES ASSUME Z # {} PROVE FALSE
  OBVIOUS
<1>4. PICK d \in Z : \A y \in Z : d <= y
  <2>1. Z \in SUBSET Nat
    BY <1>1
  <2>. QED BY <1>3, <2>1, Least
<1>5. d # 0
  <2>1. Rest(r, s, L, N)
    BY <1>1, RestAtEnd
  <2>2. Void(L)
    BY <1>1
  <2>. QED BY <1>1, <1>4, <2>1, <2>2
<1>. DEFINE k == L - d
<1>6. k \in 0..L - 1 /\ d - 1 \in 0..L /\ L - (d - 1) = k + 1 /\ k + 1 \in 1..L
  BY <1>1, <1>4, <1>5
<1>7. Rest(r, s, k + 1, N) <=> Void(k + 1)
  <2>1. d - 1 \notin Z
    <3>1. d \in Nat /\ ~(d <= d - 1)
      BY <1>1, <1>4
    <3>. QED BY <1>4, <3>1
  <2>. QED BY <1>6, <2>1
<1>8. Rest(r, s, k, N) <=> \E m \in 0..N : Consumes(r, s, k + 1, N, m) /\ Rest(r, s, k + 1, m)
  BY <1>1, <1>6, RestOneOn
<1>9. \A m \in 0..N : Consumes(r, s, k + 1, N, m) <=> m = N /\ r.pattern[k + 1] \in {"*", "^"}
  BY <1>1 DEF Consumes
<1>10. Void(k) <=> r.pattern[k + 1] \in {"*", "^"} /\ Void(k + 1)
  <2>1. k + 1..L = {k + 1} \cup (k + 1) + 1..L
    BY <1>1, <1>6
  <2>. QED BY <2>1
<1>11. Rest(r, s, k, N) <=> Void(k)
  BY <1>1, <1>7, <1>8, <1>9, <1>10
<1>. QED BY <1>4, <1>11

(* Up to the next "*", each character takes one of the URL, while there    *)
(* is one.                                                                 *)
LEMMA Segment ==
    ASSUME NEW r, NEW s, Text(r, s), NEW i \in 0..Len(r.pattern), NEW k \in i..Len(r.pattern),
           NEW n \in 0..Len(s), Rest(r, s, i, n), \A j \in i + 1..k : r.pattern[j] # "*"
    PROVE  \E m \in 0..Len(s) : Rest(r, s, k, m) /\ (m = n + (k - i) \/ m = Len(s))
<1>. DEFINE L == Len(r.pattern)
            N == Len(s)
            There(j) == \E m \in 0..N : Rest(r, s, j, m) /\ (m = n + (j - i) \/ m = N)
            Z == {j \in i..k : ~There(j)}
<1>1. L \in Nat /\ N \in Nat /\ i \in Nat /\ k \in Nat /\ n \in Nat /\ i <= k /\ k <= L
  BY DEF Text
<1>2. SUFFICES ASSUME Z # {} PROVE FALSE
  <2>1. k \in i..k
    BY <1>1
  <2>2. Z = {} => There(k)
    BY <2>1
  <2>. QED BY <2>2
<1>3. PICK j \in Z : \A y \in Z : j <= y
  <2>1. Z \in SUBSET Nat
    BY <1>1
  <2>. QED BY <1>2, <2>1, Least
<1>4. There(i)
  BY <1>1
<1>5. j - 1 \in i..k /\ j - 1 \notin Z /\ j - 1 \in 0..L - 1 /\ (j - 1) + 1 = j /\ j \in i + 1..k
  BY <1>1, <1>3, <1>4
<1>6. PICK m \in 0..N : Rest(r, s, j - 1, m) /\ (m = n + ((j - 1) - i) \/ m = N)
  BY <1>5
<1>7. PICK m1 \in 0..N : Consumes(r, s, j, m, m1) /\ Rest(r, s, j, m1)
  BY <1>5, <1>6, RestOneOn
<1>8. m1 = m + 1 \/ m1 = N
  BY <1>5, <1>7 DEF Consumes
<1>9. m1 = n + (j - i) \/ m1 = N
  BY <1>1, <1>5, <1>6, <1>7, <1>8
<1>. QED BY <1>3, <1>7, <1>9

(* The offsets that are tried are starts, and among them is every one that *)
(* a match may have: the characters before the first special one must be   *)
(* there.                                                                  *)
LEMMA LiteralFacts ==
    ASSUME NEW r, NEW s, Text(r, s)
    PROVE  /\ Len(G!Literal(r.pattern)) \in 0..Len(r.pattern)
           /\ DOMAIN G!Literal(r.pattern) = 1..Len(G!Literal(r.pattern))
           /\ \A i \in 1..Len(G!Literal(r.pattern)) :
                  G!Literal(r.pattern)[i] = r.pattern[i] /\ r.pattern[i] \notin {"*", "^"}
<1>. DEFINE p == r.pattern
            Z == G!Special(p)
<1>1. Len(p) \in Nat /\ DOMAIN p = 1..Len(p) /\ p \in Seq({p[i] : i \in DOMAIN p})
  BY DEF Text
<1>2. \A i \in DOMAIN p : i \in Z <=> p[i] \in {"*", "^"}
  BY DEF G!Special
<1>3. CASE Z = {}
  BY <1>1, <1>2, <1>3 DEF G!Literal
<1>4. CASE Z # {}
  <2>. DEFINE c == G!Min(Z)
  <2>1. c \in Z /\ \A y \in Z : c <= y
    <3>1. Z \in SUBSET Nat
      BY <1>1 DEF G!Special
    <3>. QED BY <1>4, <3>1, Least DEF G!Min
  <2>2. c \in 1..Len(p)
    BY <1>1, <2>1 DEF G!Special
  <2>3. G!Literal(p) = SubSeq(p, 1, c - 1)
    BY <1>4 DEF G!Literal
  <2>4. Len(SubSeq(p, 1, c - 1)) = c - 1 /\ DOMAIN SubSeq(p, 1, c - 1) = 1..c - 1
        /\ \A i \in 1..c - 1 : SubSeq(p, 1, c - 1)[i] = p[i]
    BY <1>1, <2>2
  <2>5. \A i \in 1..c - 1 : i \in DOMAIN p /\ i \notin Z
    BY <1>1, <2>1, <2>2
  <2>6. \A i \in 1..c - 1 : p[i] \notin {"*", "^"}
    BY <1>2, <2>5
  <2>7. c - 1 \in 0..Len(p)
    BY <1>1, <2>2
  <2>. QED BY <2>3, <2>4, <2>6, <2>7
<1>. QED BY <1>3, <1>4

LEMMA LiteralOccurs ==
    ASSUME NEW r, NEW s, Text(r, s), NEW n \in 0..Len(s), Rest(r, s, 0, n)
    PROVE  G!OccursAt(G!Literal(r.pattern), s, n)
<1>. DEFINE L == Len(r.pattern)
            N == Len(s)
            lit == G!Literal(r.pattern)
            l == Len(lit)
<1>1. L \in Nat /\ N \in Nat /\ l \in 0..L /\ DOMAIN lit = 1..l
      /\ \A i \in 1..l : lit[i] = r.pattern[i] /\ r.pattern[i] \notin {"*", "^"}
  <2>1. L \in Nat /\ N \in Nat
    BY DEF Text
  <2>. QED BY <2>1, LiteralFacts
<1>2. PICK f \in Places(r, s, 0) : f[0] = n /\ Way(r, s, 0, f)
  BY DEF Rest
<1>3. \A k \in 1..l : f[k] = f[k - 1] + 1 /\ s[f[k]] = lit[k]
  BY <1>1, <1>2 DEF Way, Consumes
<1>4. \A k \in 0..l : f[k] = n + k
  <2>. DEFINE Z == {k \in 0..l : f[k] # n + k}
  <2>1. SUFFICES ASSUME Z # {} PROVE FALSE
    OBVIOUS
  <2>2. PICK k \in Z : \A y \in Z : k <= y
    <3>1. Z \in SUBSET Nat
      BY <1>1
    <3>. QED BY <2>1, <3>1, Least
  <2>3. k # 0
    BY <1>2, <2>2
  <2>4. k \in 1..l /\ k - 1 \in 0..l /\ k - 1 \notin Z
    BY <1>1, <2>2, <2>3
  <2>5. f[k - 1] = n + (k - 1) /\ f[k] = f[k - 1] + 1
    BY <1>3, <2>4
  <2>. QED BY <1>1, <2>2, <2>4, <2>5
<1>5. f[l] \in 0..N
  BY <1>1, <1>2 DEF Places
<1>6. n + l <= N
  BY <1>1, <1>4, <1>5
<1>7. \A k \in 1..l : s[n + k] = lit[k]
  BY <1>1, <1>3, <1>4
<1>. QED BY <1>1, <1>6, <1>7 DEF G!OccursAt

LEMMA OffsetsEnough ==
    ASSUME NEW r, NEW s, Text(r, s)
    PROVE  /\ G!Offsets(r, s) \subseteq Starts(r, s) /\ Starts(r, s) \subseteq 0..Len(s)
           /\ G!Anchored(r) => \A n \in Starts(r, s) : Rest(r, s, 0, n) => n \in G!Offsets(r, s)
           /\ ~G!Anchored(r) => G!Offsets(r, s) = {0} /\ Starts(r, s) = 0..Len(s)
<1>1. Len(s) \in Nat
  BY DEF Text
<1>. QED BY <1>1, StartsInside, LiteralOccurs DEF G!Offsets, Starts, G!Anchored

(* The loop.  As long as it runs, a match that there is has a Rest where   *)
(* the loop stands, or from some place behind the last "*" that it has not *)
(* come back to, or from an offset it has still to try: the first place at *)
(* which the characters between two "*" fit leaves the most to the others. *)
Alive ==
    \/ Rest(rule, url, pi, si)
    \/ hasStar /\ \E n \in mark + 1..Len(url) : Rest(rule, url, resume, n)
Promising(n) ==
    IF G!Anchored(rule) THEN Rest(rule, url, 0, n) ELSE \E m \in 0..Len(url) : Rest(rule, url, 0, m)
Trying ==
    /\ pi \in 0..Len(rule.pattern) /\ si \in 0..Len(url) /\ resume \in 0..pi /\ mark \in 0..si
    /\ Rest(rule, url, pi, si) => G!Matches(rule, url)
    /\ hasStar => /\ si = mark + (pi - resume)
                  /\ \A j \in resume + 1..pi : rule.pattern[j] # "*"
                  /\ \A n \in mark..Len(url) : Rest(rule, url, resume, n) => G!Matches(rule, url)
GlobInv ==
    /\ rule \in G!Rules /\ url \in Urls
    /\ todo \subseteq G!Offsets(rule, url)
    /\ verdict = "match" => G!Matches(rule, url)
    /\ verdict = "none" => ~G!Matches(rule, url)
    /\ verdict = "open" =>
          /\ at # G!None => Trying
          /\ G!Matches(rule, url) => (\E n \in todo : Promising(n)) \/ (at # G!None /\ Alive)

LEMMA RuleFacts ==
    ASSUME NEW r \in G!Rules, NEW s \in Urls
    PROVE  /\ Text(r, s) /\ r.anchorEnd \in BOOLEAN
           /\ Len(r.pattern) \in Nat /\ Len(s) \in Nat
BY GlobAssumption DEF G!Rules, Text

LEMMA GlobStart == G!Init => GlobInv
<1>. SUFFICES ASSUME G!Init PROVE GlobInv
  OBVIOUS
<1>1. /\ rule \in G!Rules /\ url \in Urls /\ todo = G!Offsets(rule, url) /\ at = G!None /\ verdict = "open"
  BY DEF G!Init
<1>2. Text(rule, url) /\ rule.anchorEnd \in BOOLEAN
  BY <1>1, RuleFacts
<1>3. ASSUME G!Matches(rule, url) PROVE \E n \in todo : Promising(n)
  <2>1. PICK n \in Starts(rule, url) : Rest(rule, url, 0, n)
    BY <1>2, <1>3, MatchesFromStart
  <2>. QED BY <1>1, <1>2, <2>1, OffsetsEnough DEF Promising
<1>. QED BY <1>1, <1>3 DEF GlobInv

(* From an offset: the place is a start, and without an anchor any other   *)
(* place is one as well.                                                   *)
LEMMA TryNextKeeps == GlobInv /\ G!TryNext => GlobInv'
<1>. SUFFICES ASSUME GlobInv, G!TryNext PROVE GlobInv'
  OBVIOUS
<1>1. /\ rule \in G!Rules /\ url \in Urls /\ todo \subseteq G!Offsets(rule, url)
      /\ verdict = "open" /\ at = G!None /\ UNCHANGED <<rule, url>>
      /\ G!Matches(rule, url) => \E n \in todo : Promising(n)
  BY DEF GlobInv, G!TryNext
<1>2. Text(rule, url) /\ rule.anchorEnd \in BOOLEAN /\ Len(rule.pattern) \in Nat /\ Len(url) \in Nat
  BY <1>1, RuleFacts
<1>3. CASE todo = {}
  BY <1>1, <1>3 DEF GlobInv, G!TryNext
<1>4. CASE todo # {}
  <2>1. /\ at' = G!Min(todo) /\ todo' = todo \ {at'} /\ verdict' = "open"
        /\ pi' = 0 /\ si' = at' /\ hasStar' = ~G!Anchored(rule) /\ resume' = 0 /\ mark' = at'
    BY <1>1, <1>4 DEF G!TryNext
  <2>2. at' \in todo /\ at' \in 0..Len(url) /\ at' \in Starts(rule, url) /\ at' # G!None
    <3>1. todo \in SUBSET Nat /\ todo \subseteq 0..Len(url) /\ todo \subseteq Starts(rule, url)
      BY <1>1, <1>2, OffsetsEnough
    <3>2. G!Min(todo) \in todo
      BY <1>4, <3>1, Least DEF G!Min
    <3>3. at' \in 0..Len(url) /\ at' \in Starts(rule, url)
      BY <2>1, <3>1, <3>2
    <3>4. at' # -1
      BY <1>2, <3>3
    <3>. QED BY <2>1, <3>2, <3>3, <3>4 DEF G!None
  <2>3. Rest(rule, url, 0, at') => G!Matches(rule, url)
    BY <1>2, <2>2, MatchesFromStart
  <2>4. ~G!Anchored(rule) => /\ at' = 0
                            /\ \A n \in 0..Len(url) : Rest(rule, url, 0, n) => G!Matches(rule, url)
    BY <1>1, <1>2, <2>2, OffsetsEnough, MatchesFromStart
  <2>5. Trying'
    <3>1. /\ pi' \in 0..Len(rule.pattern) /\ si' \in 0..Len(url) /\ resume' \in 0..pi' /\ mark' \in 0..si'
          /\ si' = mark' + (pi' - resume')
      BY <1>2, <2>1, <2>2
    <3>2. \A j \in resume' + 1..pi' : rule.pattern[j] # "*"
      BY <2>1
    <3>3. hasStar' => \A n \in mark'..Len(url) : Rest(rule, url, resume', n) => G!Matches(rule, url)
      BY <1>2, <2>1, <2>4
    <3>4. Rest(rule, url, pi', si') => G!Matches(rule, url)
      BY <2>1, <2>3
    <3>. QED BY <1>1, <3>1, <3>2, <3>3, <3>4 DEF Trying
  <2>6. ASSUME NEW n \in todo, Promising(n) PROVE (\E m \in todo' : Promising(m)') \/ Alive'
    <3>1. \A m : Promising(m)' <=> Promising(m)
      BY <1>1 DEF Promising
    <3>2. CASE n # at'
      BY <2>1, <2>6, <3>1, <3>2
    <3>3. CASE n = at' /\ G!Anchored(rule)
      BY <1>1, <2>1, <2>6, <3>3 DEF Promising, Alive
    <3>4. CASE n = at' /\ ~G!Anchored(rule)
      <4>1. PICK m \in 0..Len(url) : Rest(rule, url, 0, m)
        BY <2>6, <3>4 DEF Promising
      <4>2. mark' = 0 /\ si' = 0 /\ pi' = 0 /\ resume' = 0 /\ hasStar'
        BY <2>1, <2>4, <3>4
      <4>3. m = 0 \/ m \in 0 + 1..Len(url)
        BY <1>2
      <4>4. Rest(rule, url, pi', si') \/ \E k \in mark' + 1..Len(url) : Rest(rule, url, resume', k)
        BY <4>1, <4>2, <4>3
      <4>. QED BY <1>1, <4>2, <4>4 DEF Alive
    <3>. QED BY <3>2, <3>3, <3>4
  <2>. QED BY <1>1, <2>1, <2>2, <2>5, <2>6 DEF GlobInv
<1>. QED BY <1>3, <1>4

LEMMA AcceptKeeps == GlobInv /\ G!Accept => GlobInv'
<1>. SUFFICES ASSUME GlobInv, G!Accept PROVE GlobInv'
  OBVIOUS
<1>1. /\ rule \in G!Rules /\ url \in Urls /\ Trying /\ verdict' = "match"
      /\ pi = Len(rule.pattern) /\ (rule.anchorEnd => si = Len(url)) /\ UNCHANGED <<rule, url, todo>>
  BY DEF GlobInv, G!Accept, G!Running, G!Accepts, G!loopVars
<1>2. Rest(rule, url, pi, si)
  BY <1>1, RuleFacts, RestAtEnd DEF Trying
<1>. QED BY <1>1, <1>2 DEF GlobInv, Trying

(* Behind the last "*" the rest begins later than where the loop stands.   *)
LEMMA LaterFrom ==
    ASSUME GlobInv, verdict = "open", at # G!None, hasStar,
           NEW n \in mark + 1..Len(url), Rest(rule, url, resume, n)
    PROVE  \E m \in 0..Len(url) : Rest(rule, url, pi, m) /\ (m > si \/ m = Len(url))
<1>1. rule \in G!Rules /\ url \in Urls /\ Trying
  BY DEF GlobInv
<1>2. Text(rule, url) /\ Len(rule.pattern) \in Nat /\ Len(url) \in Nat
  BY <1>1, RuleFacts
<1>3. /\ resume \in 0..Len(rule.pattern) /\ pi \in resume..Len(rule.pattern) /\ n \in 0..Len(url)
      /\ si = mark + (pi - resume) /\ mark \in Nat /\ si \in Nat
  BY <1>1, <1>2 DEF Trying
<1>4. PICK m \in 0..Len(url) : Rest(rule, url, pi, m) /\ (m = n + (pi - resume) \/ m = Len(url))
  BY <1>1, <1>2, <1>3, Segment DEF Trying
<1>5. m > si \/ m = Len(url)
  BY <1>2, <1>3, <1>4
<1>. QED BY <1>4, <1>5

LEMMA EndKeeps == GlobInv /\ G!End => GlobInv'
<1>. SUFFICES ASSUME GlobInv, G!End PROVE GlobInv'
  OBVIOUS
<1>1. /\ rule \in G!Rules /\ url \in Urls /\ Trying /\ verdict = "open" /\ at # G!None
      /\ si = Len(url) /\ UNCHANGED <<rule, url, todo>>
  BY DEF GlobInv, G!End, G!Running, G!AtEnd, G!loopVars
<1>2. Text(rule, url) /\ pi \in 0..Len(rule.pattern) /\ Len(url) \in Nat /\ Len(rule.pattern) \in Nat
  BY <1>1, RuleFacts DEF Trying
<1>. DEFINE Void == \A i \in pi + 1..Len(rule.pattern) : rule.pattern[i] \in {"*", "^"}
<1>3. Rest(rule, url, pi, si) <=> Void
  BY <1>1, <1>2, RestOfEnd
<1>4. CASE Void
  <2>1. verdict' = "match" /\ G!Matches(rule, url)
    BY <1>1, <1>3, <1>4 DEF G!End, Trying
  <2>. QED BY <1>1, <2>1 DEF GlobInv
<1>5. CASE ~Void
  <2>1. at' = G!None /\ verdict' = "open"
    BY <1>1, <1>5 DEF G!End
  <2>2. ~Alive
    <3>1. ASSUME hasStar, NEW n \in mark + 1..Len(url), Rest(rule, url, resume, n) PROVE FALSE
      <4>1. PICK m \in 0..Len(url) : Rest(rule, url, pi, m) /\ (m > si \/ m = Len(url))
        BY <1>1, <3>1, LaterFrom
      <4>2. m = si
        BY <1>1, <1>2, <4>1
      <4>. QED BY <1>3, <1>5, <4>1, <4>2
    <3>. QED BY <1>3, <1>5, <3>1 DEF Alive
  <2>3. \A n : Promising(n)' <=> Promising(n)
    BY <1>1 DEF Promising
  <2>. QED BY <1>1, <2>1, <2>2, <2>3 DEF GlobInv
<1>. QED BY <1>4, <1>5

LEMMA StarKeeps == GlobInv /\ G!Star => GlobInv'
<1>. SUFFICES ASSUME GlobInv, G!Star PROVE GlobInv'
  OBVIOUS
<1>1. /\ rule \in G!Rules /\ url \in Urls /\ Trying /\ verdict = "open" /\ at # G!None
      /\ UNCHANGED <<rule, url, todo, at, si, verdict>> /\ si # Len(url)
      /\ pi < Len(rule.pattern) /\ rule.pattern[pi + 1] = "*"
      /\ hasStar' = TRUE /\ resume' = pi + 1 /\ mark' = si /\ pi' = pi + 1
  BY DEF GlobInv, G!Star, G!Running, G!AtEnd, G!loopVars, G!Char
<1>2. /\ Text(rule, url) /\ pi \in 0..Len(rule.pattern) - 1 /\ si \in 0..Len(url) - 1
      /\ Len(url) \in Nat /\ Len(rule.pattern) \in Nat
  BY <1>1, RuleFacts DEF Trying
<1>3. \A m \in 0..Len(url) : Rest(rule, url, pi, m) <=> \E n \in m..Len(url) : Rest(rule, url, pi + 1, n)
  <2>1. \A m, n \in 0..Len(url) : Consumes(rule, url, pi + 1, m, n) <=> m <= n
    BY <1>1 DEF Consumes
  <2>2. \A m \in 0..Len(url) : \A n : n \in m..Len(url) <=> n \in 0..Len(url) /\ m <= n
    BY <1>2
  <2>. QED BY <1>2, <2>1, <2>2, RestOneOn
<1>4. Trying'
  <2>1. /\ pi' \in 0..Len(rule.pattern) /\ si' \in 0..Len(url) /\ resume' \in 0..pi' /\ mark' \in 0..si'
        /\ si' = mark' + (pi' - resume')
    BY <1>1, <1>2
  <2>2. \A j \in resume' + 1..pi' : rule.pattern[j] # "*"
    BY <1>1, <1>2
  <2>3. \A n \in mark'..Len(url) : Rest(rule, url, resume', n) => G!Matches(rule, url)
    <3>1. Rest(rule, url, pi, si) => G!Matches(rule, url)
      BY <1>1 DEF Trying
    <3>. QED BY <1>1, <1>2, <1>3, <3>1
  <2>4. Rest(rule, url, pi', si') => G!Matches(rule, url)
    <3>1. si' \in mark'..Len(url) /\ pi' = resume'
      BY <1>1, <1>2
    <3>. QED BY <2>3, <3>1
  <2>. QED BY <1>1, <2>1, <2>2, <2>3, <2>4 DEF Trying
<1>5. ASSUME Alive PROVE Alive'
  <2>1. PICK m \in 0..Len(url) : Rest(rule, url, pi, m) /\ m >= si
    <3>1. CASE Rest(rule, url, pi, si)
      BY <1>2, <3>1
    <3>2. CASE ~Rest(rule, url, pi, si)
      <4>1. PICK n \in mark + 1..Len(url) : hasStar /\ Rest(rule, url, resume, n)
        BY <1>5, <3>2 DEF Alive
      <4>2. PICK m \in 0..Len(url) : Rest(rule, url, pi, m) /\ (m > si \/ m = Len(url))
        BY <1>1, <4>1, LaterFrom
      <4>. QED BY <1>2, <4>2
    <3>. QED BY <3>1, <3>2
  <2>2. PICK n \in m..Len(url) : Rest(rule, url, pi + 1, n)
    BY <1>3, <2>1
  <2>3. n = si \/ n \in si + 1..Len(url)
    BY <1>2, <2>1, <2>2
  <2>. QED BY <1>1, <2>2, <2>3 DEF Alive
<1>6. \A n : Promising(n)' <=> Promising(n)
  BY <1>1 DEF Promising
<1>. QED BY <1>1, <1>4, <1>5, <1>6 DEF GlobInv

(* A character that fits, and is no "*", takes one of the URL.             *)
LEMMA AdvanceKeeps == GlobInv /\ G!Advance => GlobInv'
<1>. SUFFICES ASSUME GlobInv, G!Advance PROVE GlobInv'
  OBVIOUS
<1>1. /\ rule \in G!Rules /\ url \in Urls /\ Trying /\ verdict = "open" /\ at # G!None
      /\ UNCHANGED <<rule, url, todo, at, hasStar, resume, mark, verdict>> /\ si # Len(url)
      /\ pi < Len(rule.pattern) /\ rule.pattern[pi + 1] # "*"
      /\ IF rule.pattern[pi + 1] = "^" THEN G!IsSeparator(url[si + 1]) ELSE rule.pattern[pi + 1] = url[si + 1]
      /\ pi' = pi + 1 /\ si' = si + 1
  BY DEF GlobInv, G!Advance, G!Fits, G!Running, G!AtEnd, G!loopVars, G!Char
<1>2. /\ Text(rule, url) /\ pi \in 0..Len(rule.pattern) - 1 /\ si \in 0..Len(url) - 1
      /\ Len(url) \in Nat /\ Len(rule.pattern) \in Nat
  BY <1>1, RuleFacts DEF Trying
<1>3. Rest(rule, url, pi, si) <=> Rest(rule, url, pi + 1, si + 1)
  <2>1. \A n \in 0..Len(url) : Consumes(rule, url, pi + 1, si, n) <=> n = si + 1
    BY <1>1, <1>2 DEF Consumes
  <2>2. si \in 0..Len(url) /\ si + 1 \in 0..Len(url)
    BY <1>2
  <2>. QED BY <1>2, <2>1, <2>2, RestOneOn
<1>4. Trying'
  <2>1. /\ pi' \in 0..Len(rule.pattern) /\ si' \in 0..Len(url) /\ resume' \in 0..pi' /\ mark' \in 0..si'
        /\ hasStar' => si' = mark' + (pi' - resume')
    BY <1>1, <1>2 DEF Trying
  <2>2. hasStar' => \A j \in resume' + 1..pi' : rule.pattern[j] # "*"
    <3>1. \A j \in resume + 1..pi + 1 : j \in resume + 1..pi \/ j = pi + 1
      BY <1>1, <1>2 DEF Trying
    <3>. QED BY <1>1, <3>1 DEF Trying
  <2>. QED BY <1>1, <1>3, <2>1, <2>2 DEF Trying
<1>5. Alive => Alive'
  BY <1>1, <1>3 DEF Alive
<1>6. \A n : Promising(n)' <=> Promising(n)
  BY <1>1 DEF Promising
<1>. QED BY <1>1, <1>4, <1>5, <1>6 DEF GlobInv

(* Nothing fits here: back behind the last "*", one character further on.  *)
LEMMA BacktrackKeeps == GlobInv /\ G!Backtrack => GlobInv'
<1>. SUFFICES ASSUME GlobInv, G!Backtrack PROVE GlobInv'
  OBVIOUS
<1>1. /\ rule \in G!Rules /\ url \in Urls /\ Trying /\ verdict = "open" /\ at # G!None
      /\ UNCHANGED <<rule, url, todo, hasStar, resume, verdict>> /\ si # Len(url)
      /\ ~(pi = Len(rule.pattern) /\ (rule.anchorEnd => si = Len(url)))
      /\ pi < Len(rule.pattern) =>
            /\ rule.pattern[pi + 1] # "*"
            /\ ~(IF rule.pattern[pi + 1] = "^" THEN G!IsSeparator(url[si + 1]) ELSE rule.pattern[pi + 1] = url[si + 1])
  BY DEF GlobInv, G!Backtrack, G!Fits, G!Running, G!AtEnd, G!loopVars, G!Char, G!Accepts
<1>2. /\ Text(rule, url) /\ pi \in 0..Len(rule.pattern) /\ si \in 0..Len(url) - 1
      /\ Len(url) \in Nat /\ Len(rule.pattern) \in Nat
  BY <1>1, RuleFacts DEF Trying
<1>3. ~Rest(rule, url, pi, si)
  <2>1. CASE pi = Len(rule.pattern)
    <3>1. si \in 0..Len(url)
      BY <1>2
    <3>. QED BY <1>1, <1>2, <2>1, <3>1, RestAtEnd
  <2>2. CASE pi # Len(rule.pattern)
    <3>1. pi \in 0..Len(rule.pattern) - 1 /\ pi < Len(rule.pattern) /\ si \in 0..Len(url)
      BY <1>2, <2>2
    <3>2. \A n \in 0..Len(url) : ~Consumes(rule, url, pi + 1, si, n)
      BY <1>1, <1>2, <3>1 DEF Consumes
    <3>. QED BY <1>2, <3>1, <3>2, RestOneOn
  <2>. QED BY <2>1, <2>2
<1>4. \A n : Promising(n)' <=> Promising(n)
  BY <1>1 DEF Promising
<1>5. CASE ~hasStar
  <2>1. at' = G!None /\ ~Alive
    BY <1>3, <1>5 DEF Alive, G!Backtrack
  <2>. QED BY <1>1, <1>4, <2>1 DEF GlobInv
<1>6. CASE hasStar
  <2>1. mark' = mark + 1 /\ pi' = resume /\ si' = mark + 1 /\ at' = at
    BY <1>6 DEF G!Backtrack
  <2>2. mark \in Nat /\ mark + 1 \in 0..Len(url) /\ resume \in 0..Len(rule.pattern)
    BY <1>1, <1>2 DEF Trying
  <2>3. Trying'
    <3>1. /\ pi' \in 0..Len(rule.pattern) /\ si' \in 0..Len(url) /\ resume' \in 0..pi' /\ mark' \in 0..si'
          /\ si' = mark' + (pi' - resume')
      BY <1>1, <2>1, <2>2
    <3>2. \A j \in resume' + 1..pi' : rule.pattern[j] # "*"
      BY <1>1, <2>1, <2>2
    <3>3. \A n \in mark'..Len(url) : Rest(rule, url, resume', n) => G!Matches(rule, url)
      <4>1. \A n \in mark + 1..Len(url) : n \in mark..Len(url)
        BY <1>2, <2>2
      <4>. QED BY <1>1, <1>6, <2>1, <4>1 DEF Trying
    <3>4. Rest(rule, url, pi', si') => G!Matches(rule, url)
      <4>1. si' \in mark'..Len(url) /\ pi' = resume'
        BY <1>1, <1>2, <2>1, <2>2
      <4>. QED BY <3>3, <4>1
    <3>. QED BY <1>1, <3>1, <3>2, <3>3, <3>4 DEF Trying
  <2>4. Alive => Alive'
    <3>1. \A n \in mark + 1..Len(url) : n = mark + 1 \/ n \in (mark + 1) + 1..Len(url)
      BY <1>2, <2>2
    <3>. QED BY <1>1, <1>3, <1>6, <2>1, <3>1 DEF Alive
  <2>. QED BY <1>1, <1>4, <2>1, <2>3, <2>4 DEF GlobInv
<1>. QED BY <1>5, <1>6

LEMMA GlobStep == GlobInv /\ [G!Next]_glob => GlobInv'
<1>1. ASSUME GlobInv, UNCHANGED glob PROVE GlobInv'
  BY <1>1 DEF glob, GlobInv, Trying, Alive, Promising
<1>. QED BY <1>1, TryNextKeeps, AcceptKeeps, EndKeeps, StarKeeps, AdvanceKeeps, BacktrackKeeps DEF G!Next

-----------------------------------------------------------------------------
(* The index.  The token of a pattern is a run of letters that nothing can *)
(* extend where the pattern matches, so it is a token of the URL.          *)

LEMMA BestIsBounded ==
    ASSUME NEW r, r.pattern \in Seq({r.pattern[i] : i \in DOMAIN r.pattern}), G!BestToken(r) # <<>>
    PROVE  \E b \in G!Runs(r.pattern) :
               /\ G!Bounded(r, b) /\ G!Usable(SubSeq(r.pattern, b[1], b[2]))
               /\ G!BestToken(r) = SubSeq(r.pattern, b[1], b[2])
<1>. DEFINE p == r.pattern
            runs == {b \in G!Runs(p) : G!Bounded(r, b) /\ G!Usable(SubSeq(p, b[1], b[2]))}
            longest == {b \in runs : \A c \in runs : c[2] - c[1] <= b[2] - b[1]}
            first(b) == \A c \in longest : b[1] <= c[1]
<1>1. Len(p) \in Nat /\ DOMAIN p = 1..Len(p)
  OBVIOUS
<1>2. \A b \in runs : b[1] \in 1..Len(p) /\ b[2] \in 1..Len(p)
  BY <1>1 DEF G!Runs
<1>3. runs # {}
  BY DEF G!BestToken
<1>b. \A b \in runs : b[1] \in Int /\ b[2] \in Int
  BY <1>1 DEF G!Runs
<1>a. \A b \in runs : Len(p) - (b[2] - b[1]) \in Nat
  BY <1>1, <1>2
<1>4. longest # {}
  <2>. HIDE DEF runs
  <2>. DEFINE D == {Len(p) - (b[2] - b[1]) : b \in runs}
  <2>1. D \in SUBSET Nat /\ D # {}
    BY <1>3, <1>a
  <2>2. PICK d \in D : \A e \in D : d <= e
    BY <2>1, Least
  <2>3. PICK b \in runs : d = Len(p) - (b[2] - b[1])
    BY <2>2
  <2>4. \A c \in runs : Len(p) - (b[2] - b[1]) <= Len(p) - (c[2] - c[1])
    BY <2>2, <2>3
  <2>5. ASSUME NEW c \in runs PROVE c[2] - c[1] <= b[2] - b[1]
    <3>1. c[1] \in Int /\ c[2] \in Int /\ b[1] \in Int /\ b[2] \in Int
      BY <1>b
    <3>2. Len(p) - (b[2] - b[1]) <= Len(p) - (c[2] - c[1])
      BY <2>4
    <3>. QED BY <1>1, <3>1, <3>2
  <2>. QED BY <2>3, <2>5
<1>5. \E b \in longest : first(b)
  <2>. DEFINE D == {b[1] : b \in longest}
  <2>1. D \in SUBSET Nat /\ D # {}
    BY <1>1, <1>2, <1>4
  <2>2. PICK d \in D : \A e \in D : d <= e
    BY <2>1, Least
  <2>. QED BY <2>2
<1>. DEFINE best == CHOOSE b \in longest : first(b)
<1>6. best \in longest
  BY <1>5
<1>7. G!BestToken(r) = SubSeq(p, best[1], best[2])
  BY <1>3 DEF G!BestToken
<1>. QED BY <1>6, <1>7

LEMMA TokenIndexed ==
    ASSUME NEW r \in G!Rules, NEW s \in Urls, G!Matches(r, s), G!BestToken(r) # <<>>
    PROVE  G!BestToken(r) \in G!Tokens(s)
<1>. DEFINE p == r.pattern
            L == Len(p)
            N == Len(s)
<1>1. Text(r, s) /\ r.anchorEnd \in BOOLEAN /\ L \in Nat /\ N \in Nat /\ DOMAIN p = 1..L /\ DOMAIN s = 1..N
  <2>1. Text(r, s) /\ r.anchorEnd \in BOOLEAN
    BY RuleFacts
  <2>2. L \in Nat /\ N \in Nat /\ DOMAIN p = 1..L /\ DOMAIN s = 1..N
    BY <2>1 DEF Text
  <2>. QED BY <2>1, <2>2
<1>2. PICK b \in G!Runs(p) : /\ G!Bounded(r, b) /\ G!Usable(SubSeq(p, b[1], b[2]))
                             /\ G!BestToken(r) = SubSeq(p, b[1], b[2])
  BY <1>1, BestIsBounded DEF Text
<1>. DEFINE i == b[1]
            j == b[2]
<1>3. /\ i \in 1..L /\ j \in i..L /\ \A k \in i..j : p[k] = "a"
      /\ i > 1 => p[i - 1] # "a" /\ p[i - 1] # "*"
      /\ i = 1 => r.anchorHost \/ r.anchorStart
      /\ j < L => p[j + 1] # "a" /\ p[j + 1] # "*"
      /\ j = L => r.anchorEnd
  BY <1>1, <1>2 DEF G!Runs, G!Bounded, G!IsToken
<1>4. PICK f \in Places(r, s, 0) : f[0] \in Starts(r, s) /\ Way(r, s, 0, f)
  BY <1>1, MatchesFromStart DEF Rest
<1>. HIDE DEF i, j
<1>5. \A k \in 0..L : f[k] \in 0..N
  BY DEF Places
<1>6. \A k \in 1..L : Consumes(r, s, k, f[k - 1], f[k])
  BY <1>1, <1>4 DEF Way
<1>7. \A k \in i..j : f[k] = f[k - 1] + 1 /\ s[f[k]] = "a"
  <2>1. \A k \in i..j : k \in 1..L /\ p[k] = "a"
    BY <1>1, <1>3
  <2>. QED BY <1>6, <2>1 DEF Consumes
<1>. DEFINE m == f[i - 1]
            n == m + (j - i) + 1
<1>8. m \in 0..N
  BY <1>1, <1>3, <1>5
<1>9. \A k \in i..j : f[k] = m + (k - i) + 1
  <2>. DEFINE Z == {k \in i..j : f[k] # m + (k - i) + 1}
  <2>1. SUFFICES ASSUME Z # {} PROVE FALSE
    OBVIOUS
  <2>2. PICK k \in Z : \A y \in Z : k <= y
    <3>1. Z \in SUBSET Nat
      BY <1>1, <1>3
    <3>. QED BY <2>1, <3>1, Least
  <2>3. f[k] = f[k - 1] + 1
    BY <1>7, <2>2
  <2>4. k # i
    BY <1>3, <1>8, <2>2, <2>3
  <2>5. k - 1 \in i..j /\ k - 1 \notin Z
    BY <1>1, <1>3, <2>2, <2>4
  <2>6. f[k - 1] = m + ((k - 1) - i) + 1
    BY <2>5
  <2>7. f[k] # m + (k - i) + 1 /\ k \in Nat /\ i \in Nat
    BY <1>1, <1>3, <2>2
  <2>8. m + ((k - 1) - i) + 1 + 1 = m + (k - i) + 1
    BY <1>8, <2>7
  <2>. QED BY <2>3, <2>6, <2>7, <2>8
<1>n. /\ N \in Nat /\ i \in Nat /\ j \in Nat /\ m \in Nat /\ n \in Nat
      /\ i <= j /\ n = m + (j - i) + 1 /\ j \in i..j /\ j \in 0..L
  <2>1. i \in Nat /\ j \in Nat /\ i <= j /\ j \in i..j /\ j \in 0..L
    BY <1>1, <1>3
  <2>2. N \in Nat /\ m \in Nat
    BY <1>1, <1>8
  <2>. HIDE DEF m, L, N
  <2>3. n \in Nat
    BY <2>1, <2>2
  <2>. QED BY <2>1, <2>2, <2>3
<1>10. f[j] = n /\ n \in 1..N /\ m + 1 \in 1..N /\ m + 1 <= n
  <2>1. f[j] = n /\ f[j] \in 0..N
    BY <1>5, <1>9, <1>n
  <2>2. n \in 0..N
    BY <2>1
  <2>. HIDE DEF m, n, L, N
  <2>3. n \in 1..N /\ m + 1 \in 1..N /\ m + 1 <= n
    BY <1>n, <2>2
  <2>. QED BY <2>1, <2>3
<1>11. \A k \in m + 1..n : s[k] = "a"
  <2>1. ASSUME NEW k \in m + 1..n PROVE s[k] = "a"
    <3>. DEFINE x == i + (k - m) - 1
    <3>1. x \in i..j /\ m + (x - i) + 1 = k
      <4>. HIDE DEF m, n, L, N
      <4>. QED BY <1>n, <2>1
    <3>. HIDE DEF x
    <3>2. f[x] = k
      BY <1>9, <3>1
    <3>. QED BY <1>7, <3>1, <3>2
  <2>. QED BY <2>1
(* Before it: a separator or another character, or the start of a label or *)
(* of the URL.                                                             *)
<1>12. m > 0 => s[m] # "a"
  <2>1. CASE i > 1
    <3>1. i - 1 \in 1..L /\ p[i - 1] # "a" /\ p[i - 1] # "*" /\ f[(i - 1) - 1] \in 0..N
      BY <1>1, <1>3, <1>5, <2>1
    <3>2. Consumes(r, s, i - 1, f[(i - 1) - 1], m)
      BY <1>6, <3>1
    <3>3. m # N
      BY <1>1, <1>10
    <3>. QED BY <3>1, <3>2, <3>3 DEF Consumes, G!IsSeparator
  <2>2. CASE i = 1
    <3>1. m \in Starts(r, s)
      BY <1>4, <2>2
    <3>2. CASE r.anchorHost
      <4>1. m \in G!HostStarts(s)
        BY <3>1, <3>2 DEF Starts
      <4>2. CASE G!Scheme(s) = {}
        BY <4>1, <4>2 DEF G!HostStarts
      <4>3. CASE G!Scheme(s) # {}
        <5>1. G!Min(G!Scheme(s)) \in G!Scheme(s)
          <6>1. G!Scheme(s) \in SUBSET Nat
            BY <1>1 DEF G!Scheme
          <6>. QED BY <4>3, <6>1, Least DEF G!Min
        <5>2. m \in G!Scheme(s) \/ s[m] = "."
          BY <4>1, <4>3, <5>1 DEF G!HostStarts
        <5>. QED BY <5>2 DEF G!Scheme
      <4>. QED BY <4>2, <4>3
    <3>3. CASE ~r.anchorHost
      BY <1>3, <2>2, <3>1, <3>3 DEF Starts
    <3>. QED BY <3>2, <3>3
  <2>. QED BY <1>3, <2>1, <2>2
<1>13. n < N => s[n + 1] # "a"
  <2>1. CASE j < L
    <3>1. j + 1 \in 1..L /\ (j + 1) - 1 = j /\ p[j + 1] # "a" /\ p[j + 1] # "*"
      BY <1>1, <1>3, <2>1
    <3>2. Consumes(r, s, j + 1, n, f[j + 1])
      BY <1>6, <1>10, <3>1
    <3>. QED BY <1>1, <1>10, <3>1, <3>2 DEF Consumes, G!IsSeparator
  <2>2. CASE j = L
    BY <1>3, <1>4, <1>10, <2>2 DEF Way
  <2>. QED BY <1>1, <1>3, <2>1, <2>2
<1>14. <<m + 1, n>> \in G!Runs(s)
  BY <1>1, <1>8, <1>10, <1>11, <1>12, <1>13 DEF G!Runs, G!IsToken
<1>15. SubSeq(s, m + 1, n) = SubSeq(p, i, j)
  <2>. DEFINE u == SubSeq(s, m + 1, n)
              v == SubSeq(p, i, j)
  <2>1. m + 1 \in Int /\ n \in Int /\ i \in Int /\ j \in Int
    BY <1>n
  <2>2. /\ u \in Seq({"a"}) /\ Len(u) = IF m + 1 <= n THEN n - (m + 1) + 1 ELSE 0
        /\ \A k \in 1..n - (m + 1) + 1 : u[k] = s[m + 1 + k - 1]
    <3>1. \A k \in m + 1..n : s[k] \in {"a"}
      BY <1>11
    <3>. QED BY <2>1, <3>1, SubSeqProperties
  <2>3. /\ v \in Seq({"a"}) /\ Len(v) = IF i <= j THEN j - i + 1 ELSE 0
        /\ \A k \in 1..j - i + 1 : v[k] = p[i + k - 1]
    <3>1. \A k \in i..j : p[k] \in {"a"}
      BY <1>3
    <3>. QED BY <2>1, <3>1, SubSeqProperties
  <2>4. Len(u) = Len(v)
    <3>1. n - (m + 1) + 1 = j - i + 1 /\ i <= j
      <4>. HIDE DEF m, n
      <4>. QED BY <1>n
    <3>. QED BY <1>10, <2>2, <2>3, <3>1
  <2>. HIDE DEF u, v
  <2>5. \A k \in 1..Len(u) : u[k] = v[k]
    BY <2>2, <2>3, <2>4
  <2>6. u = v
    BY <2>2, <2>3, <2>4, <2>5, SeqEqual
  <2>. QED BY <2>6 DEF u, v
<1>16. G!BestToken(r) = SubSeq(s, m + 1, n) /\ G!Usable(SubSeq(s, m + 1, n))
  BY <1>2, <1>15 DEF i, j
<1>17. <<m + 1, n>>[1] = m + 1 /\ <<m + 1, n>>[2] = n
  OBVIOUS
<1>18. SubSeq(s, m + 1, n) \in G!Tokens(s)
  BY <1>14, <1>16, <1>17 DEF G!Tokens
<1>. QED BY <1>16, <1>18

-----------------------------------------------------------------------------
(* Words of a page.  First what any recursion along a sequence comes to.   *)

LEMMA Upward ==
    ASSUME NEW K \in Nat, NEW Z, 0 \in Z, \A k \in 1..K : k - 1 \in Z => k \in Z
    PROVE  \A k \in 0..K : k \in Z
<1>. DEFINE Y == {k \in 0..K : k \notin Z}
<1>1. SUFFICES ASSUME Y # {} PROVE FALSE
  OBVIOUS
<1>2. PICK k \in Y : \A y \in Y : k <= y
  <2>1. Y \in SUBSET Nat
    OBVIOUS
  <2>. QED BY <1>1, <2>1, Least
<1>3. k \in 1..K /\ k - 1 \in 0..K /\ k - 1 \notin Y
  BY <1>2
<1>. QED BY <1>2, <1>3

LEMMA Recursion ==
    ASSUME NEW S, NEW base \in S, NEW K \in Nat, NEW step \in [1..K -> [S -> S]]
    PROVE  \E f \in [0..K -> S] : f[0] = base /\ \A k \in 1..K : f[k] = step[k][f[k - 1]]
<1>. DEFINE Z == {k \in 0..K : \E f \in [0..k -> S] : f[0] = base /\ \A j \in 1..k : f[j] = step[j][f[j - 1]]}
<1>1. 0 \in Z
  <2>. DEFINE f == [j \in 0..0 |-> base]
  <2>1. f \in [0..0 -> S] /\ f[0] = base /\ \A j \in 1..0 : f[j] = step[j][f[j - 1]]
    OBVIOUS
  <2>. HIDE DEF f
  <2>. QED BY <2>1
<1>2. ASSUME NEW k \in 1..K, k - 1 \in Z PROVE k \in Z
  <2>1. PICK f \in [0..k - 1 -> S] : f[0] = base /\ \A j \in 1..k - 1 : f[j] = step[j][f[j - 1]]
    BY <1>2
  <2>. DEFINE g == [j \in 0..k |-> IF j = k THEN step[k][f[k - 1]] ELSE f[j]]
  <2>2. step[k][f[k - 1]] \in S
    <3>1. f[k - 1] \in S
      BY <2>1
    <3>. QED BY <3>1
  <2>3. g \in [0..k -> S]
    BY <2>1, <2>2
  <2>4. g[0] = base
    BY <2>1
  <2>5. ASSUME NEW j \in 1..k PROVE g[j] = step[j][g[j - 1]]
    <3>1. g[j - 1] = f[j - 1]
      OBVIOUS
    <3>2. CASE j = k
      BY <3>1, <3>2
    <3>3. CASE j # k
      <4>1. j \in 1..k - 1 /\ g[j] = f[j]
        BY <3>3
      <4>. QED BY <2>1, <3>1, <4>1
    <3>. QED BY <3>2, <3>3
  <2>. HIDE DEF g
  <2>. QED BY <2>3, <2>4, <2>5
<1>. HIDE DEF Z
<1>3. \A k \in 1..K : k - 1 \in Z => k \in Z
  BY <1>2
<1>4. \A k \in 0..K : k \in Z
  BY <1>1, <1>3, Upward
<1>. QED BY <1>4 DEF Z

LEMMA MaxFacts ==
    ASSUME NEW N \in Nat, NEW S \in SUBSET (0..N), S # {}
    PROVE  T!Max(S) \in S /\ \A y \in S : y <= T!Max(S)
<1>. DEFINE D == {N - x : x \in S}
<1>0. \A x \in S : N - x \in Nat /\ x \in Int
  OBVIOUS
<1>1. D \in SUBSET Nat /\ D # {}
  BY <1>0
<1>2. PICK d \in D : \A e \in D : d <= e
  BY <1>1, Least
<1>3. PICK x \in S : d = N - x
  BY <1>2
<1>4. ASSUME NEW y \in S PROVE y <= x
  <2>1. N - x <= N - y
    BY <1>2, <1>3
  <2>. QED BY <2>1
<1>. QED BY <1>4 DEF T!Max

(* A sequence, of whatever.                                                *)
Listed(o) == o \in Seq({o[i] : i \in DOMAIN o})

LEMMA ListedFacts ==
    ASSUME NEW o, Listed(o)
    PROVE  Len(o) \in Nat /\ DOMAIN o = 1..Len(o)
BY DEF Listed

LEMMA AppendListed ==
    ASSUME NEW o, NEW x, Listed(o)
    PROVE  /\ Listed(Append(o, x)) /\ Len(Append(o, x)) = Len(o) + 1
           /\ \A i \in 1..Len(o) : Append(o, x)[i] = o[i]
           /\ Append(o, x)[Len(o) + 1] = x
<1>. DEFINE S == {o[i] : i \in DOMAIN o} \cup {x}
            q == Append(o, x)
<1>1. o \in Seq(S)
  BY DEF Listed
<1>2. /\ q \in Seq(S) /\ Len(q) = Len(o) + 1
      /\ \A i \in 1..Len(o) : q[i] = o[i]
      /\ q[Len(o) + 1] = x
  BY <1>1, AppendProperties
<1>. HIDE DEF q
<1>3. Listed(q)
  BY <1>2 DEF Listed
<1>. QED BY <1>2, <1>3 DEF q

LEMMA PrefixListed ==
    ASSUME NEW o, NEW m \in Nat, Listed(o), m <= Len(o)
    PROVE  /\ Listed(SubSeq(o, 1, m)) /\ Len(SubSeq(o, 1, m)) = m
           /\ \A i \in 1..m : SubSeq(o, 1, m)[i] = o[i]
<1>. DEFINE S == {o[i] : i \in DOMAIN o}
            q == SubSeq(o, 1, m)
<1>1. \A i \in 1..m : o[i] \in S
  BY ListedFacts
<1>2. /\ q \in Seq(S) /\ Len(q) = IF 1 <= m THEN m - 1 + 1 ELSE 0
      /\ \A i \in 1..m - 1 + 1 : q[i] = o[1 + i - 1]
  BY <1>1, SubSeqProperties
<1>. HIDE DEF q, S
<1>3. Len(q) = m /\ \A i \in 1..m : q[i] = o[i]
  BY <1>2
<1>4. Listed(q)
  BY <1>2 DEF Listed
<1>. QED BY <1>3, <1>4 DEF q

-----------------------------------------------------------------------------
(* Tokens come in the order of the text, and each begins with a character  *)
(* that is hidden.                                                         *)

LEMMA CloseFacts ==
    ASSUME NEW s, Listed(s), NEW i \in 1..Len(s), T!Opens(s, i)
    PROVE  T!Closes(s, i) \in i..Len(s)
<1>. DEFINE N == Len(s)
            E == {j \in i..N : \A k \in i..j : T!InToken(s[k])}
<1>1. N \in Nat
  BY ListedFacts
<1>2. i \in E
  BY <1>1 DEF T!Opens
<1>3. PICK j \in E : \A y \in E : y <= j
  <2>1. E \in SUBSET (0..N)
    OBVIOUS
  <2>. QED BY <1>1, <1>2, <2>1, MaxFacts
<1>4. j < N => ~T!InToken(s[j + 1])
  <2>1. SUFFICES ASSUME j < N, T!InToken(s[j + 1]) PROVE FALSE
    OBVIOUS
  <2>2. \A k \in i..j + 1 : k \in i..j \/ k = j + 1
    BY <1>1
  <2>3. j + 1 \in E
    BY <1>1, <2>1, <2>2
  <2>. QED BY <1>3, <2>3
<1>. QED BY <1>1, <1>3, <1>4 DEF T!Closes

Increasing(toks, s, i) ==
    /\ \A x \in 1..Len(toks) : /\ toks[x][1] \in 1..i /\ T!InToken(s[toks[x][1]])
                               /\ toks[x][2] \in toks[x][1]..Len(s)
    /\ \A x, y \in 1..Len(toks) : x < y => toks[x][1] < toks[y][1]

LEMMA TokensIncrease ==
    ASSUME NEW s, Listed(s)
    PROVE  T!Tokenize(s) \in Seq(Nat \X Nat) /\ Increasing(T!Tokenize(s), s, Len(s))
<1>. DEFINE N == Len(s)
            S == Seq(Nat \X Nat)
            G1(i, before) == IF T!Opens(s, i) THEN Append(before, <<i, T!Closes(s, i)>>) ELSE before
            step == [i \in 1..N |-> [b \in S |-> G1(i, b)]]
            F(f) == f = [i \in 0..N |-> IF i = 0 THEN <<>>
                             ELSE IF T!Opens(s, i) THEN Append(f[i - 1], <<i, T!Closes(s, i)>>) ELSE f[i - 1]]
<1>1. N \in Nat
  BY ListedFacts
<1>2. ASSUME NEW i \in 1..N, T!Opens(s, i) PROVE <<i, T!Closes(s, i)>> \in Nat \X Nat
  BY <1>1, <1>2, CloseFacts
<1>3. ASSUME NEW i \in 1..N, NEW b \in S PROVE G1(i, b) \in S
  BY <1>2
<1>4. step \in [1..N -> [S -> S]]
  <2>. HIDE DEF G1, S
  <2>. QED BY <1>3
<1>5. <<>> \in S
  OBVIOUS
<1>6. PICK g \in [0..N -> S] : g[0] = <<>> /\ \A k \in 1..N : g[k] = step[k][g[k - 1]]
  <2>. HIDE DEF step, S
  <2>. QED BY <1>1, <1>4, <1>5, Recursion
<1>7. ASSUME NEW k \in 1..N PROVE g[k] = G1(k, g[k - 1])
  <2>1. g[k - 1] \in S
    <3>1. k - 1 \in 0..N
      BY <1>1
    <3>. QED BY <1>6, <3>1
  <2>2. step[k][g[k - 1]] = G1(k, g[k - 1])
    <3>. HIDE DEF G1, S
    <3>. QED BY <2>1
  <2>. QED BY <1>6, <2>2
<1>8. F(g)
  <2>1. ASSUME NEW i \in 0..N
        PROVE  g[i] = IF i = 0 THEN <<>>
                      ELSE IF T!Opens(s, i) THEN Append(g[i - 1], <<i, T!Closes(s, i)>>) ELSE g[i - 1]
    <3>1. i = 0 \/ i \in 1..N
      BY <1>1
    <3>. QED BY <1>6, <1>7, <3>1
  <2>. QED BY <1>6, <2>1
<1>. HIDE DEF S, step
<1>9. PICK f : F(f) /\ T!Tokenize(s) = f[N]
  <2>. DEFINE c == CHOOSE f : F(f)
  <2>1. F(c)
    <3>. HIDE DEF F
    <3>. QED BY <1>8
  <2>2. T!Tokenize(s) = c[N]
    BY DEF T!Tokenize
  <2>. HIDE DEF c
  <2>. QED BY <2>1, <2>2
<1>10. f[0] = <<>> /\ \A k \in 1..N : f[k] = G1(k, f[k - 1])
  <2>1. 0 \in 0..N /\ \A k \in 1..N : k \in 0..N /\ k # 0
    BY <1>1
  <2>. QED BY <1>9, <2>1
<1>. DEFINE P(k) == f[k] \in S /\ Increasing(f[k], s, k)
            Z == {k \in 0..N : P(k)}
<1>11. 0 \in Z
  BY <1>1, <1>5, <1>10 DEF Increasing
<1>12. ASSUME NEW k \in 1..N, k - 1 \in Z PROVE k \in Z
  <2>. DEFINE b == f[k - 1]
  <2>1. b \in S /\ Increasing(b, s, k - 1) /\ k \in 0..N /\ f[k] = G1(k, b)
    BY <1>1, <1>10, <1>12
  <2>. HIDE DEF b
  <2>2. CASE ~T!Opens(s, k)
    <3>1. Increasing(b, s, k)
      BY <1>1, <2>1 DEF Increasing
    <3>. QED BY <2>1, <2>2, <3>1
  <2>3. CASE T!Opens(s, k)
    <3>. DEFINE c == <<k, T!Closes(s, k)>>
                q == Append(b, c)
    <3>1. T!Closes(s, k) \in k..N /\ T!InToken(s[k]) /\ c \in Nat \X Nat
      BY <1>2, <2>3, CloseFacts DEF T!Opens
    <3>2. /\ q \in S /\ Len(q) = Len(b) + 1 /\ Len(b) \in Nat
          /\ \A i \in 1..Len(b) : q[i] = b[i]
          /\ q[Len(b) + 1] = c
      BY <2>1, <3>1, AppendProperties DEF S
    <3>3. f[k] = q
      BY <2>1, <2>3
    <3>4. c[1] = k /\ c[2] = T!Closes(s, k)
      OBVIOUS
    <3>. HIDE DEF q, c
    <3>5. \A x \in 1..Len(q) : x \in 1..Len(b) \/ x = Len(b) + 1
      BY <3>2
    <3>6. ASSUME NEW x \in 1..Len(q)
          PROVE  q[x][1] \in 1..k /\ T!InToken(s[q[x][1]]) /\ q[x][2] \in q[x][1]..N
      <4>1. CASE x \in 1..Len(b)
        BY <2>1, <3>2, <4>1 DEF Increasing
      <4>2. CASE x = Len(b) + 1
        BY <3>1, <3>2, <3>4, <4>2
      <4>. QED BY <3>5, <4>1, <4>2
    <3>7. ASSUME NEW x \in 1..Len(q), NEW y \in 1..Len(q), x < y PROVE q[x][1] < q[y][1]
      <4>1. x \in 1..Len(b)
        BY <3>2, <3>7
      <4>2. q[x] = b[x] /\ b[x][1] \in 1..k - 1
        BY <2>1, <3>2, <4>1 DEF Increasing
      <4>3. CASE y \in 1..Len(b)
        BY <2>1, <3>2, <3>7, <4>1, <4>3 DEF Increasing
      <4>4. CASE y = Len(b) + 1
        BY <3>2, <3>4, <4>2, <4>4
      <4>. QED BY <3>5, <4>3, <4>4
    <3>8. Increasing(q, s, k)
      BY <3>6, <3>7 DEF Increasing
    <3>. QED BY <2>1, <3>2, <3>3, <3>8
  <2>. QED BY <2>2, <2>3
<1>. HIDE DEF Z
<1>13. \A k \in 1..N : k - 1 \in Z => k \in Z
  BY <1>12
<1>14. \A k \in 0..N : k \in Z
  BY <1>1, <1>11, <1>13, Upward
<1>. QED BY <1>1, <1>9, <1>14 DEF Z, S

(* Of all entries that begin at a place, one that covers it is found.      *)
LEMMA LongestCovers ==
    ASSUME NEW s, Listed(s), NEW E
    PROVE  /\ \A b \in T!Longest(s, E) :
                  b \in (1..Len(s)) \X (1..Len(s)) /\ b[1] <= b[2] /\ SubSeq(s, b[1], b[2]) \in E
           /\ \A x \in 1..Len(s) : \A y \in x..Len(s) :
                  SubSeq(s, x, y) \in E => \E b \in T!Longest(s, E) : x \in b[1]..b[2]
<1>. DEFINE N == Len(s)
            S == SUBSET (Nat \X Nat)
            H(i) == T!Hits(s, E, i)
            G1(i, before) == IF H(i) = {} \/ (\E b \in before : i <= b[2]) THEN before
                             ELSE before \cup {<<i, i + T!Max(H(i)) - 1>>}
            step == [i \in 1..N |-> [b \in S |-> G1(i, b)]]
            F(f) == f = [i \in 0..N |-> IF i = 0 THEN {} ELSE G1(i, f[i - 1])]
<1>1. N \in Nat
  BY ListedFacts
<1>2. ASSUME NEW i \in 1..N, H(i) # {}
      PROVE  /\ T!Max(H(i)) \in 1..N - i + 1 /\ SubSeq(s, i, i + T!Max(H(i)) - 1) \in E
             /\ i + T!Max(H(i)) - 1 \in i..N
  <2>. DEFINE M == T!Max(H(i))
  <2>1. H(i) \in SUBSET (0..N)
    BY <1>1 DEF T!Hits
  <2>2. M \in H(i)
    <3>. HIDE DEF H
    <3>. QED BY <1>1, <1>2, <2>1, MaxFacts
  <2>3. M \in 1..N - i + 1 /\ SubSeq(s, i, i + M - 1) \in E
    BY <2>2 DEF T!Hits
  <2>. HIDE DEF M
  <2>4. i + M - 1 \in i..N
    BY <1>1, <2>3
  <2>. QED BY <2>3, <2>4 DEF M
<1>. HIDE DEF H
<1>3. ASSUME NEW i \in 1..N, NEW b \in S PROVE G1(i, b) \in S
  <2>1. CASE H(i) = {}
    BY <2>1
  <2>2. CASE H(i) # {}
    <3>1. <<i, i + T!Max(H(i)) - 1>> \in Nat \X Nat
      BY <1>1, <1>2, <2>2
    <3>. QED BY <3>1
  <2>. QED BY <2>1, <2>2
<1>4. step \in [1..N -> [S -> S]]
  <2>. HIDE DEF G1, S
  <2>. QED BY <1>3
<1>5. {} \in S
  OBVIOUS
<1>6. PICK g \in [0..N -> S] : g[0] = {} /\ \A k \in 1..N : g[k] = step[k][g[k - 1]]
  <2>. DEFINE base == {}
  <2>1. base \in S
    BY <1>5
  <2>. HIDE DEF step, S, base, N, F, G1
  <2>2. \E g \in [0..N -> S] : g[0] = base /\ \A k \in 1..N : g[k] = step[k][g[k - 1]]
    BY <1>1, <1>4, <2>1, Recursion
  <2>. QED BY <2>2 DEF base
<1>7. ASSUME NEW k \in 1..N PROVE g[k] = G1(k, g[k - 1])
  <2>1. g[k - 1] \in S
    <3>1. k - 1 \in 0..N
      BY <1>1
    <3>. QED BY <1>6, <3>1
  <2>2. step[k][g[k - 1]] = G1(k, g[k - 1])
    <3>. HIDE DEF G1, S
    <3>. QED BY <2>1
  <2>. QED BY <1>6, <2>2
<1>8. F(g)
  <2>. HIDE DEF G1
  <2>1. ASSUME NEW i \in 0..N PROVE g[i] = IF i = 0 THEN {} ELSE G1(i, g[i - 1])
    <3>1. i = 0 \/ i \in 1..N
      BY <1>1
    <3>. QED BY <1>6, <1>7, <3>1
  <2>. QED BY <1>6, <2>1
<1>. HIDE DEF S, step
<1>9. PICK f : F(f) /\ T!Longest(s, E) = f[N]
  <2>. DEFINE c == CHOOSE f : F(f)
  <2>1. F(c)
    <3>. HIDE DEF F
    <3>. QED BY <1>8
  <2>2. T!Longest(s, E) = c[N]
    BY DEF T!Longest, H
  <2>. HIDE DEF c
  <2>. QED BY <2>1, <2>2
<1>10. f[0] = {} /\ \A k \in 1..N : f[k] = G1(k, f[k - 1])
  <2>. HIDE DEF G1
  <2>1. 0 \in 0..N /\ \A k \in 1..N : k \in 0..N /\ k # 0
    BY <1>1
  <2>. QED BY <1>9, <2>1
<1>. DEFINE Inside(A) == \A b \in A : b \in (1..N) \X (1..N) /\ b[1] <= b[2] /\ SubSeq(s, b[1], b[2]) \in E
            Covered(A, k) == \A x \in 1..k : H(x) # {} => \E b \in A : x \in b[1]..b[2]
            Begun(A, k) == \A b \in A : b[1] <= k
            Z == {k \in 0..N : Inside(f[k]) /\ Begun(f[k], k) /\ Covered(f[k], k)}
<1>11. 0 \in Z
  BY <1>1, <1>10
<1>12. ASSUME NEW k \in 1..N, k - 1 \in Z PROVE k \in Z
  <2>. DEFINE A == f[k - 1]
              c == <<k, k + T!Max(H(k)) - 1>>
  <2>1. Inside(A) /\ Begun(A, k - 1) /\ Covered(A, k - 1) /\ k \in 0..N /\ f[k] = G1(k, A)
    <3>1. k \in 0..N
      BY <1>1
    <3>. HIDE DEF Inside, Begun, Covered, G1
    <3>. QED BY <1>10, <1>12, <3>1
  <2>. HIDE DEF A
  <2>2. CASE H(k) = {} \/ \E b \in A : k <= b[2]
    <3>1. f[k] = A
      BY <2>1, <2>2
    <3>2. Begun(A, k)
      <4>1. \A b \in A : b[1] \in Int
        BY <2>1
      <4>. QED BY <2>1, <4>1
    <3>3. Covered(A, k)
      <4>1. ASSUME NEW x \in 1..k, H(x) # {} PROVE \E b \in A : x \in b[1]..b[2]
        <5>1. CASE x \in 1..k - 1
          BY <2>1, <4>1, <5>1
        <5>2. CASE x = k
          <6>1. PICK b \in A : k <= b[2]
            BY <2>2, <4>1, <5>2
          <6>2. b[1] \in Int /\ b[2] \in Int /\ b[1] <= k - 1
            BY <2>1
          <6>. QED BY <5>2, <6>1, <6>2
        <5>. QED BY <5>1, <5>2
      <4>. QED BY <4>1
    <3>. QED BY <2>1, <3>1, <3>2, <3>3
  <2>3. CASE H(k) # {} /\ ~\E b \in A : k <= b[2]
    <3>1. f[k] = A \cup {c}
      BY <2>1, <2>3
    <3>2. c \in (1..N) \X (1..N) /\ c[1] = k /\ c[2] \in k..N /\ SubSeq(s, c[1], c[2]) \in E
      BY <1>1, <1>2, <2>3
    <3>. HIDE DEF c
    <3>3. Inside(f[k])
      BY <1>1, <2>1, <3>1, <3>2
    <3>4. Begun(f[k], k)
      <4>1. \A b \in A : b[1] \in Int
        BY <2>1
      <4>. QED BY <2>1, <3>1, <3>2, <4>1
    <3>5. Covered(f[k], k)
      <4>1. ASSUME NEW x \in 1..k, H(x) # {} PROVE \E b \in f[k] : x \in b[1]..b[2]
        <5>1. CASE x \in 1..k - 1
          BY <2>1, <3>1, <4>1, <5>1
        <5>2. CASE x = k
          BY <1>1, <3>1, <3>2, <5>2
        <5>. QED BY <5>1, <5>2
      <4>. QED BY <4>1
    <3>. QED BY <2>1, <3>3, <3>4, <3>5
  <2>. QED BY <2>2, <2>3
<1>. HIDE DEF Z
<1>13. \A k \in 1..N : k - 1 \in Z => k \in Z
  BY <1>12
<1>14. N \in Z
  <2>1. \A k \in 0..N : k \in Z
    BY <1>1, <1>11, <1>13, Upward
  <2>. QED BY <1>1, <2>1
<1>15. Inside(T!Longest(s, E)) /\ Covered(T!Longest(s, E), N)
  BY <1>9, <1>14 DEF Z
<1>16. ASSUME NEW x \in 1..N, NEW y \in x..N, SubSeq(s, x, y) \in E PROVE H(x) # {}
  <2>1. y - x + 1 \in 1..N - x + 1 /\ x + (y - x + 1) - 1 = y
    BY <1>1
  <2>. QED BY <1>16, <2>1 DEF H, T!Hits
<1>. QED BY <1>15, <1>16

-----------------------------------------------------------------------------
(* What is found are occurrences, and every occurrence begins in one.      *)

Occurring(s, W) == UNION {T!Occurrences(s, w) : w \in W}
Spans(s, W) == T!PhraseSpans(s, W) \cup T!Scan(s, W)

LEMMA WordsListed ==
    ASSUME NEW s, Listed(s)
    PROVE  /\ Listed(T!Words(s)) /\ Len(T!Words(s)) = Len(T!Tokenize(s)) /\ Len(T!Tokenize(s)) \in Nat
           /\ DOMAIN T!Words(s) = 1..Len(T!Words(s))
<1>. DEFINE toks == T!Tokenize(s)
            is == [k \in DOMAIN toks |-> SubSeq(s, toks[k][1], toks[k][2])]
<1>1. toks \in Seq(Nat \X Nat)
  BY TokensIncrease
<1>2. T!Words(s) = is
  BY DEF T!Words
<1>3. Len(toks) \in Nat /\ DOMAIN toks = 1..Len(toks)
  BY <1>1
<1>. HIDE DEF toks
<1>4. DOMAIN is = 1..Len(toks)
  BY <1>3
<1>5. is \in Seq({is[i] : i \in DOMAIN is}) /\ Len(is) = Len(toks)
  <2>. DEFINE S == {is[i] : i \in DOMAIN is}
  <2>1. is \in [1..Len(toks) -> S]
    BY <1>3
  <2>. HIDE DEF is, S
  <2>2. \A n \in Nat : \A f \in [1..n -> S] : f \in Seq(S) /\ Len(f) = n
    OBVIOUS
  <2>3. is \in Seq(S) /\ Len(is) = Len(toks)
    BY <1>3, <2>1, <2>2
  <2>. QED BY <2>3 DEF S
<1>6. Listed(is) /\ Len(is) = Len(toks) /\ DOMAIN is = 1..Len(is)
  BY <1>4, <1>5 DEF Listed
<1>. HIDE DEF is
<1>. QED BY <1>2, <1>3, <1>6 DEF toks

LEMMA PhrasesFound ==
    ASSUME NEW s, Listed(s), NEW W
    PROVE  /\ \A c \in T!PhraseSpans(s, W) : \E w \in W : ~T!HasHan(w) /\ c \in T!Occurrences(s, w)
           /\ \A w \in W : \A b \in T!Occurrences(s, w) :
                  ~T!HasHan(w) => \E c \in T!PhraseSpans(s, W) : b[1] \in c[1]..c[2]
           /\ \A c \in T!PhraseSpans(s, W) : c[1] \in 1..Len(s) /\ c[2] \in 1..Len(s)
<1>. DEFINE toks == T!Tokenize(s)
            is == T!Words(s)
            n == Len(toks)
            phrases == {T!Words(w) : w \in {w \in W : ~T!HasHan(w)}}
            spans == T!Longest(is, phrases)
            place(d) == <<toks[d[1]][1], toks[d[2]][2]>>
<1>1. Listed(is) /\ Len(is) = n /\ n \in Nat /\ DOMAIN is = 1..n
  BY WordsListed
<1>2. Increasing(toks, s, Len(s))
  BY TokensIncrease
<1>3. T!PhraseSpans(s, W) = {place(d) : d \in spans}
  BY DEF T!PhraseSpans
<1>4. /\ \A d \in spans : d \in (1..n) \X (1..n) /\ d[1] <= d[2] /\ SubSeq(is, d[1], d[2]) \in phrases
      /\ \A x \in 1..n : \A y \in x..n : SubSeq(is, x, y) \in phrases => \E d \in spans : x \in d[1]..d[2]
  <2>. HIDE DEF is, phrases
  <2>. QED BY <1>1, LongestCovers
<1>5. ASSUME NEW w, ~T!HasHan(w)
      PROVE  T!Occurrences(s, w) =
                 {place(d) : d \in {d \in (DOMAIN is) \X (DOMAIN is) :
                                   T!Words(w) # <<>> /\ SubSeq(is, d[1], d[2]) = T!Words(w)}}
  BY <1>5 DEF T!Occurrences
<1>. HIDE DEF toks, is, spans
<1>6. \A x \in 1..n, y \in 1..n : x <= y => toks[x][1] <= toks[y][1]
  <2>1. ASSUME NEW x \in 1..n, NEW y \in 1..n, x <= y PROVE toks[x][1] <= toks[y][1]
    <3>1. toks[x][1] \in Int /\ toks[y][1] \in Int /\ (x < y => toks[x][1] < toks[y][1])
      BY <1>2 DEF Increasing
    <3>. QED BY <1>1, <2>1, <3>1
  <2>. QED BY <2>1
<1>7. ASSUME NEW c \in T!PhraseSpans(s, W)
      PROVE  (\E w \in W : ~T!HasHan(w) /\ c \in T!Occurrences(s, w)) /\ c[1] \in 1..Len(s) /\ c[2] \in 1..Len(s)
  <2>1. PICK d \in spans : c = place(d)
    BY <1>3
  <2>2. d[1] \in 1..n /\ d[2] \in 1..n /\ d[1] <= d[2] /\ d \in (DOMAIN is) \X (DOMAIN is)
    BY <1>1, <1>4
  <2>3. PICK w \in W : ~T!HasHan(w) /\ SubSeq(is, d[1], d[2]) = T!Words(w)
    BY <1>4
  <2>4. T!Words(w) # <<>>
    <3>1. \A i \in d[1]..d[2] : is[i] \in {is[k] : k \in DOMAIN is}
      BY <1>1, <2>2
    <3>2. Len(SubSeq(is, d[1], d[2])) = d[2] - d[1] + 1
      BY <1>1, <2>2, <3>1, SubSeqProperties
    <3>3. d[2] - d[1] + 1 # 0
      BY <1>1, <2>2
    <3>4. Len(T!Words(w)) # 0
      BY <2>3, <3>2, <3>3
    <3>. QED BY <3>4
  <2>5. c \in T!Occurrences(s, w)
    BY <1>5, <2>1, <2>2, <2>3, <2>4
  <2>6. toks[d[1]][1] \in 1..Len(s) /\ toks[d[2]][2] \in 1..Len(s)
    <3>1. \A x \in 1..n : toks[x][1] \in 1..Len(s) /\ toks[x][2] \in toks[x][1]..Len(s)
      BY <1>2 DEF Increasing
    <3>2. \A x \in 1..n : toks[x][2] \in 1..Len(s)
      BY <3>1
    <3>. QED BY <2>2, <3>1, <3>2
  <2>7. c[1] = toks[d[1]][1] /\ c[2] = toks[d[2]][2]
    BY <2>1
  <2>. QED BY <2>3, <2>5, <2>6, <2>7
<1>8. ASSUME NEW w \in W, NEW b \in T!Occurrences(s, w), ~T!HasHan(w)
      PROVE  \E c \in T!PhraseSpans(s, W) : b[1] \in c[1]..c[2]
  <2>1. PICK d \in (DOMAIN is) \X (DOMAIN is) :
            T!Words(w) # <<>> /\ SubSeq(is, d[1], d[2]) = T!Words(w) /\ b = place(d)
    BY <1>5, <1>8
  <2>2. d[1] \in 1..n /\ d[2] \in 1..n
    BY <1>1, <2>1
  <2>3. d[2] \in d[1]..n
    <3>1. ~(d[2] < d[1])
      BY <1>1, <2>1, <2>2, SubSeqEmpty
    <3>. QED BY <1>1, <2>2, <3>1
  <2>4. SubSeq(is, d[1], d[2]) \in phrases
    BY <1>8, <2>1
  <2>5. PICK e \in spans : d[1] \in e[1]..e[2]
    BY <1>4, <2>2, <2>3, <2>4
  <2>6. e[1] \in 1..n /\ e[2] \in 1..n /\ e[1] <= d[1] /\ d[1] <= e[2]
    BY <1>1, <1>4, <2>2, <2>5
  <2>7. toks[e[1]][1] <= toks[d[1]][1] /\ toks[d[1]][1] <= toks[e[2]][1]
    BY <1>6, <2>2, <2>6
  <2>8. toks[e[2]][2] \in toks[e[2]][1]..Len(s)
    BY <1>2, <2>6 DEF Increasing
  <2>9. /\ toks[e[1]][1] \in Int /\ toks[d[1]][1] \in Int /\ toks[e[2]][1] \in Int
    BY <1>2, <2>2, <2>6 DEF Increasing
  <2>10. place(e)[1] = toks[e[1]][1] /\ place(e)[2] = toks[e[2]][2] /\ b[1] = toks[d[1]][1] /\ place(e) \in T!PhraseSpans(s, W)
    BY <1>3, <2>1, <2>5
  <2>11. toks[d[1]][1] \in toks[e[1]][1]..toks[e[2]][2]
    BY <2>7, <2>8, <2>9
  <2>. HIDE DEF place
  <2>. QED BY <2>10, <2>11
<1>. QED BY <1>7, <1>8

LEMMA StringsFound ==
    ASSUME NEW s, Listed(s), NEW W
    PROVE  /\ \A c \in T!Scan(s, W) : \E w \in W : T!HasHan(w) /\ c \in T!Occurrences(s, w)
           /\ \A w \in W : \A b \in T!Occurrences(s, w) :
                  T!HasHan(w) => \E c \in T!Scan(s, W) : b[1] \in c[1]..c[2]
           /\ \A c \in T!Scan(s, W) : c[1] \in 1..Len(s) /\ c[2] \in 1..Len(s)
<1>. DEFINE strings == {w \in W : T!HasHan(w)}
            N == Len(s)
<1>1. N \in Nat /\ DOMAIN s = 1..N
  BY ListedFacts
<1>2. T!Scan(s, W) = T!Longest(s, strings)
  BY DEF T!Scan
<1>3. /\ \A d \in T!Scan(s, W) : d \in (1..N) \X (1..N) /\ d[1] <= d[2] /\ SubSeq(s, d[1], d[2]) \in strings
      /\ \A x \in 1..N : \A y \in x..N : SubSeq(s, x, y) \in strings => \E d \in T!Scan(s, W) : x \in d[1]..d[2]
  <2>. HIDE DEF strings
  <2>. QED BY <1>2, LongestCovers
<1>4. ASSUME NEW w, T!HasHan(w)
      PROVE  T!Occurrences(s, w) = {d \in (1..N) \X (1..N) : SubSeq(s, d[1], d[2]) = w}
  BY <1>1, <1>4 DEF T!Occurrences
<1>5. ASSUME NEW w \in W, NEW b \in T!Occurrences(s, w), T!HasHan(w)
      PROVE  \E c \in T!Scan(s, W) : b[1] \in c[1]..c[2]
  <2>1. b[1] \in 1..N /\ b[2] \in 1..N /\ SubSeq(s, b[1], b[2]) = w
    BY <1>4, <1>5
  <2>2. ~(b[2] < b[1])
    <3>1. SUFFICES ASSUME b[2] < b[1] PROVE FALSE
      OBVIOUS
    <3>2. w = <<>>
      BY <2>1, <3>1, SubSeqEmpty
    <3>3. DOMAIN w = {}
      BY <3>2
    <3>. QED BY <1>5, <3>3 DEF T!HasHan
  <2>3. b[2] \in b[1]..N
    BY <1>1, <2>1, <2>2
  <2>. QED BY <1>3, <1>5, <2>1, <2>3
<1>6. ASSUME NEW c \in T!Scan(s, W)
      PROVE  (\E w \in W : T!HasHan(w) /\ c \in T!Occurrences(s, w)) /\ c[1] \in 1..N /\ c[2] \in 1..N
  <2>1. c \in (1..N) \X (1..N) /\ SubSeq(s, c[1], c[2]) \in strings
    BY <1>3
  <2>. QED BY <1>4, <2>1
<1>. QED BY <1>5, <1>6

LEMMA FindFacts ==
    ASSUME NEW s, Listed(s), NEW W
    PROVE  /\ \A b \in Occurring(s, W) : \E c \in Occurring(s, W) :
                  /\ b[1] \in c[1]..c[2]
                  /\ \A i \in c[1]..c[2] : i \in DOMAIN s /\ i \in T!Find(s, W)
           /\ \A i \in T!Find(s, W) : \E b \in Occurring(s, W) : i \in b[1]..b[2]
<1>1. Len(s) \in Nat /\ DOMAIN s = 1..Len(s)
  BY ListedFacts
<1>2. T!Find(s, W) = UNION {b[1]..b[2] : b \in Spans(s, W)}
  BY DEF T!Find, Spans
<1>3. ASSUME NEW c \in Spans(s, W)
      PROVE  c \in Occurring(s, W) /\ c[1] \in 1..Len(s) /\ c[2] \in 1..Len(s)
  <2>1. (\E w \in W : c \in T!Occurrences(s, w)) /\ c[1] \in 1..Len(s) /\ c[2] \in 1..Len(s)
    <3>1. CASE c \in T!PhraseSpans(s, W)
      BY <3>1, PhrasesFound
    <3>2. CASE c \in T!Scan(s, W)
      BY <3>2, StringsFound
    <3>. QED BY <3>1, <3>2 DEF Spans
  <2>. QED BY <2>1 DEF Occurring
<1>4. ASSUME NEW b \in Occurring(s, W) PROVE \E c \in Spans(s, W) : b[1] \in c[1]..c[2]
  <2>1. PICK w \in W : b \in T!Occurrences(s, w)
    BY DEF Occurring
  <2>2. CASE T!HasHan(w)
    BY <2>1, <2>2, StringsFound DEF Spans
  <2>3. CASE ~T!HasHan(w)
    BY <2>1, <2>3, PhrasesFound DEF Spans
  <2>. QED BY <2>2, <2>3
<1>5. \A c \in Spans(s, W) : \A i \in c[1]..c[2] : i \in DOMAIN s /\ i \in T!Find(s, W)
  <2>1. \A c \in Spans(s, W) : c[1]..c[2] \subseteq 1..Len(s)
    BY <1>1, <1>3
  <2>. QED BY <1>1, <1>2, <2>1
<1>6. \A i \in T!Find(s, W) : \E b \in Spans(s, W) : i \in b[1]..b[2]
  BY <1>2
<1>. QED BY <1>3, <1>4, <1>5, <1>6

LEMMA MaskFacts ==
    ASSUME NEW s, Listed(s), NEW found
    PROVE  \A i \in DOMAIN s : (i \in found /\ T!Hidden(s[i]) => T!Mask(s, found)[i] # s[i])
                               /\ (i \notin found => T!Mask(s, found)[i] = s[i])
<1>1. ASSUME NEW i \in DOMAIN s, i \in found, T!Hidden(s[i]) PROVE T!Mask(s, found)[i] # s[i]
  <2>1. s[i] # "*" /\ s[i] # T!Dropped
    BY <1>1, TextsAssumption DEF T!Hidden, T!IsWord, T!Letters
  <2>. QED BY <1>1, <2>1 DEF T!Mask
<1>. QED BY <1>1 DEF T!Mask

-----------------------------------------------------------------------------
(* Pages, as a matter of the nodes read (x), what was written (o), the     *)
(* open elements (st) and the policy: its languages (p), the language of   *)
(* the page (d) and the words added (ex).                                  *)

OpenedIn(x, open, j) ==
    LET same == {i \in open : x[i].name = x[j].name}
    IN  IF x[j].kind = "start" /\ x[j].name \notin VoidTags THEN open \cup {j}
        ELSE IF x[j].kind = "end" /\ same # {} THEN {i \in open : i < T!Max(same)}
        ELSE open
OpenIn(x, k) == LET open[j \in 0..k] == IF j = 0 THEN {} ELSE OpenedIn(x, open[j - 1], j) IN open[k]
OpensBy(x, f, k) == f[0] = {} /\ \A j \in 1..k : f[j] = OpenedIn(x, f[j - 1], j)

LEMMA OpenExists ==
    ASSUME NEW x, NEW k \in Nat
    PROVE  \E f : OpensBy(x, f, k) /\ OpenIn(x, k) = f[k]
<1>. DEFINE S == SUBSET Nat
            G1(j, b) == OpenedIn(x, b, j)
            step == [j \in 1..k |-> [b \in S |-> G1(j, b)]]
            F(f) == f = [j \in 0..k |-> IF j = 0 THEN {} ELSE OpenedIn(x, f[j - 1], j)]
            base == {}
<1>1. ASSUME NEW j \in 1..k, NEW b \in S PROVE G1(j, b) \in S
  <2>1. j \in Nat /\ b \cup {j} \in S
    OBVIOUS
  <2>2. \A m : {i \in b : i < m} \in S
    OBVIOUS
  <2>3. G1(j, b) = b \cup {j} \/ G1(j, b) = b \/ \E m : G1(j, b) = {i \in b : i < m}
    BY DEF OpenedIn
  <2>. HIDE DEF G1, S
  <2>. QED BY <2>1, <2>2, <2>3
<1>2. step \in [1..k -> [S -> S]]
  <2>. HIDE DEF G1, S
  <2>. QED BY <1>1
<1>3. base \in S
  OBVIOUS
<1>4. PICK g \in [0..k -> S] : g[0] = base /\ \A j \in 1..k : g[j] = step[j][g[j - 1]]
  <2>. HIDE DEF step, S, base, F, G1
  <2>. QED BY <1>2, <1>3, Recursion
<1>5. ASSUME NEW j \in 1..k PROVE g[j] = OpenedIn(x, g[j - 1], j)
  <2>1. j - 1 \in 0..k
    OBVIOUS
  <2>2. g[j - 1] \in S
    BY <1>4, <2>1
  <2>3. step[j][g[j - 1]] = G1(j, g[j - 1])
    <3>. HIDE DEF G1, S
    <3>. QED BY <2>2
  <2>. QED BY <1>4, <2>3
<1>6. F(g)
  <2>1. ASSUME NEW i \in 0..k PROVE g[i] = IF i = 0 THEN {} ELSE OpenedIn(x, g[i - 1], i)
    <3>1. i = 0 \/ i \in 1..k
      OBVIOUS
    <3>. QED BY <1>4, <1>5, <3>1
  <2>. QED BY <1>4, <2>1
<1>. HIDE DEF S, step
<1>7. PICK f : F(f) /\ OpenIn(x, k) = f[k]
  <2>. DEFINE c == CHOOSE f : F(f)
  <2>1. F(c)
    <3>. HIDE DEF F
    <3>. QED BY <1>6
  <2>2. OpenIn(x, k) = c[k]
    BY DEF OpenIn
  <2>. HIDE DEF c
  <2>. QED BY <2>1, <2>2
<1>8. OpensBy(x, f, k)
  <2>1. 0 \in 0..k /\ \A j \in 1..k : j \in 0..k /\ j # 0
    OBVIOUS
  <2>. QED BY <1>7, <2>1 DEF OpensBy
<1>. QED BY <1>7, <1>8

LEMMA OpenAgree ==
    ASSUME NEW x, NEW y, NEW f, NEW g, NEW k \in Nat,
           OpensBy(x, f, k), OpensBy(y, g, k), \A i \in 1..k : x[i] = y[i]
    PROVE  f[k] = g[k] /\ f[k] \in SUBSET (1..k)
<1>. DEFINE Z == {j \in 0..k : f[j] = g[j] /\ f[j] \in SUBSET (1..j)}
<1>1. 0 \in Z
  <2>1. f[0] = {} /\ g[0] = {} /\ 0 \in 0..k
    BY DEF OpensBy
  <2>2. f[0] \in SUBSET (1..0)
    BY <2>1
  <2>. QED BY <2>1, <2>2
<1>2. ASSUME NEW j \in 1..k, j - 1 \in Z PROVE j \in Z
  <2>1. f[j] = OpenedIn(x, f[j - 1], j) /\ g[j] = OpenedIn(y, f[j - 1], j) /\ f[j - 1] \in SUBSET (1..j - 1)
    BY <1>2 DEF OpensBy
  <2>. DEFINE open == f[j - 1]
  <2>. HIDE DEF open
  <2>2. open \in SUBSET (1..j - 1) /\ f[j] = OpenedIn(x, open, j) /\ g[j] = OpenedIn(y, open, j)
    BY <2>1 DEF open
  <2>3. x[j] = y[j] /\ \A i \in open : x[i] = y[i]
    BY <2>2
  <2>4. {i \in open : x[i].name = x[j].name} = {i \in open : y[i].name = y[j].name}
    BY <2>3
  <2>5. OpenedIn(x, open, j) = OpenedIn(y, open, j)
    BY <2>3, <2>4 DEF OpenedIn
  <2>6. OpenedIn(x, open, j) \in SUBSET (1..j)
    <3>1. open \cup {j} \in SUBSET (1..j) /\ open \in SUBSET (1..j)
      BY <2>2
    <3>2. \A m : {i \in open : i < m} \in SUBSET (1..j)
      BY <3>1
    <3>3. \/ OpenedIn(x, open, j) = open \cup {j} \/ OpenedIn(x, open, j) = open
          \/ \E m : OpenedIn(x, open, j) = {i \in open : i < m}
      BY DEF OpenedIn
    <3>. QED BY <3>1, <3>2, <3>3
  <2>. QED BY <2>2, <2>5, <2>6
<1>3. \A j \in 1..k : j - 1 \in Z => j \in Z
  BY <1>2
<1>. HIDE DEF Z
<1>4. k \in Z
  <2>1. \A j \in 0..k : j \in Z
    BY <1>1, <1>3, Upward
  <2>. QED BY <2>1
<1>. QED BY <1>4 DEF Z

LEMMA OpenFacts ==
    ASSUME NEW x, NEW k \in Nat
    PROVE  /\ OpenIn(x, k) \in SUBSET (1..k) /\ OpenIn(x, 0) = {}
           /\ OpenIn(x, k + 1) = OpenedIn(x, OpenIn(x, k), k + 1)
           /\ \A y : (\A i \in 1..k : x[i] = y[i]) => OpenIn(y, k) = OpenIn(x, k)
<1>1. PICK f : OpensBy(x, f, k) /\ OpenIn(x, k) = f[k]
  BY OpenExists
<1>2. OpenIn(x, k) \in SUBSET (1..k)
  BY <1>1, OpenAgree
<1>3. OpenIn(x, 0) = {}
  <2>1. PICK h : OpensBy(x, h, 0) /\ OpenIn(x, 0) = h[0]
    BY OpenExists
  <2>. QED BY <2>1 DEF OpensBy
<1>4. OpenIn(x, k + 1) = OpenedIn(x, OpenIn(x, k), k + 1)
  <2>1. PICK h : OpensBy(x, h, k + 1) /\ OpenIn(x, k + 1) = h[k + 1]
    BY OpenExists
  <2>2. OpensBy(x, h, k) /\ h[k + 1] = OpenedIn(x, h[k], k + 1)
    BY <2>1 DEF OpensBy
  <2>3. h[k] = f[k]
    BY <1>1, <2>2, OpenAgree
  <2>. QED BY <1>1, <2>1, <2>2, <2>3
<1>5. ASSUME NEW y, \A i \in 1..k : x[i] = y[i] PROVE OpenIn(y, k) = OpenIn(x, k)
  <2>1. PICK h : OpensBy(y, h, k) /\ OpenIn(y, k) = h[k]
    BY OpenExists
  <2>. QED BY <1>1, <1>5, <2>1, OpenAgree
<1>. QED BY <1>2, <1>3, <1>4, <1>5

PageTagsOf(p, d) == IF p # {} THEN p ELSE {d} \ {NoTag}
Declaring(x, k) == {i \in OpenIn(x, k) : x[i].lang # NoTag}
TagsIn(x, p, d, k) == IF p # {} \/ Declaring(x, k) = {} THEN PageTagsOf(p, d) ELSE {x[T!Max(Declaring(x, k))].lang}
Coded(x, k) == \E i \in OpenIn(x, k) : x[i].name \in SkipTags
WordsFor(ex, tags) ==
    {e.text : e \in {e \in Entries :
        T!Usable(e.text) /\ (T!IsLatinOnly(e.text) /\ ~T!HasHan(e.text) => e.lang \in T!Selected(tags))}} \cup ex
Censored(s, ex, tags) == T!Text(T!Mask(s, T!Find(s, WordsFor(ex, tags))))

(* The e-th nodes opened the elements on the stack, each of which extends  *)
(* what holds in the one around it.                                        *)
Opening(x, n, st, e, p) ==
    /\ \A i \in 2..Len(st) : e[i] \in 1..n /\ e[i] \in OpenIn(x, n)
    /\ \A i, j \in 2..Len(st) : i < j => e[i] < e[j]
    /\ \A k \in OpenIn(x, n) : \E i \in 2..Len(st) : e[i] = k
    /\ \A i \in 2..Len(st) :
           /\ st[i].name = x[e[i]].name
           /\ st[i].skip <=> st[i - 1].skip \/ x[e[i]].name \in SkipTags
           /\ st[i].tags = IF x[e[i]].lang = NoTag \/ p # {} THEN st[i - 1].tags ELSE {x[e[i]].lang}
StackFits(x, n, st, p, d) ==
    /\ Listed(st) /\ Len(st) >= 1 /\ st[1].tags = PageTagsOf(p, d) /\ st[1].skip = FALSE
    /\ \E e : Opening(x, n, st, e, p)

IsNode(v) == v.kind \in {"text", "start", "end"} /\ (v.kind = "text" => v.text \in Texts)
WrittenFor(x, o, p, d, ex, k) ==
    o[k] = IF x[k].kind # "text" \/ Coded(x, k) THEN x[k] ELSE Censored(x[k].text, ex, TagsIn(x, p, d, k))
PageFits(x, o, st, p, d, ex) ==
    /\ Listed(x) /\ Listed(o) /\ Len(o) = Len(x)
    /\ StackFits(x, Len(x), st, p, d)
    /\ \A k \in 1..Len(x) : IsNode(x[k]) /\ WrittenFor(x, o, p, d, ex, k)

(* What the innermost element says is what all open ones come to.          *)
LEMMA InnermostFits ==
    ASSUME NEW x, NEW n \in Nat, NEW st, NEW p, NEW d, StackFits(x, n, st, p, d)
    PROVE  /\ st[Len(st)].skip <=> Coded(x, n)
           /\ st[Len(st)].tags = TagsIn(x, p, d, n)
<1>. DEFINE L == Len(st)
<1>1. PICK e : Opening(x, n, st, e, p)
  BY DEF StackFits
<1>2. L \in Nat /\ L >= 1 /\ st[1].tags = PageTagsOf(p, d) /\ st[1].skip = FALSE
  BY ListedFacts DEF StackFits
<1>3. OpenIn(x, n) \in SUBSET (1..n)
  BY OpenFacts
<1>. DEFINE Own(m) == {e[i] : i \in {i \in 2..m : x[e[i]].lang # NoTag}}
            Tags1(m) == IF p # {} \/ Own(m) = {} THEN PageTagsOf(p, d) ELSE {x[T!Max(Own(m))].lang}
            Z == {k \in 0..L - 1 : /\ st[k + 1].skip <=> \E i \in 2..k + 1 : x[e[i]].name \in SkipTags
                                   /\ st[k + 1].tags = Tags1(k + 1)}
<1>4. 0 \in Z
  BY <1>2
<1>5. ASSUME NEW k \in 1..L - 1, k - 1 \in Z PROVE k \in Z
  <2>. DEFINE m == k + 1
  <2>1. m \in 2..L /\ m - 1 = k /\ (k - 1) + 1 = k /\ k \in 0..L - 1
    BY <1>2
  <2>2. \A i : i \in 2..m <=> i \in 2..k \/ i = m
    BY <1>2
  <2>3. /\ st[k].skip <=> \E i \in 2..k : x[e[i]].name \in SkipTags
        /\ st[k].tags = Tags1(k)
    BY <1>5, <2>1
  <2>4. /\ st[m].skip <=> st[k].skip \/ x[e[m]].name \in SkipTags
        /\ st[m].tags = IF x[e[m]].lang = NoTag \/ p # {} THEN st[k].tags ELSE {x[e[m]].lang}
    BY <1>1, <2>1 DEF Opening
  <2>5. st[m].skip <=> \E i \in 2..m : x[e[i]].name \in SkipTags
    BY <2>2, <2>3, <2>4
  <2>6. st[m].tags = Tags1(m)
    <3>1. CASE p # {}
      BY <2>3, <2>4, <3>1
    <3>2. CASE p = {} /\ x[e[m]].lang = NoTag
      <4>1. Own(m) = Own(k)
        BY <2>2, <3>2
      <4>. QED BY <2>3, <2>4, <3>2, <4>1
    <3>3. CASE p = {} /\ x[e[m]].lang # NoTag
      <4>1. e[m] \in Own(m)
        BY <2>1, <3>3
      <4>2. \A i \in 2..m : e[i] \in 1..n /\ e[i] <= e[m]
        <5>1. ASSUME NEW i \in 2..m PROVE e[i] \in 1..n /\ e[i] <= e[m]
          <6>1. i \in 2..L /\ (i < m \/ i = m)
            BY <1>2, <2>1
          <6>2. e[i] \in 1..n /\ e[m] \in 1..n /\ (i < m => e[i] < e[m])
            BY <1>1, <2>1, <6>1 DEF Opening
          <6>. QED BY <6>1, <6>2
        <5>. QED BY <5>1
      <4>3. Own(m) \in SUBSET (0..n) /\ \A y \in Own(m) : y <= e[m]
        BY <4>2
      <4>4. T!Max(Own(m)) \in Own(m) /\ \A y \in Own(m) : y <= T!Max(Own(m))
        <5>. HIDE DEF Own
        <5>. QED BY <4>1, <4>3, MaxFacts
      <4>5. T!Max(Own(m)) = e[m]
        <5>. HIDE DEF Own
        <5>1. e[m] <= T!Max(Own(m)) /\ T!Max(Own(m)) <= e[m]
          BY <4>1, <4>3, <4>4
        <5>2. e[m] \in Int /\ T!Max(Own(m)) \in Int
          BY <4>1, <4>3, <4>4
        <5>. QED BY <5>1, <5>2
      <4>. QED BY <2>4, <3>3, <4>1, <4>5
    <3>. QED BY <3>1, <3>2, <3>3
  <2>. QED BY <2>1, <2>5, <2>6
<1>. HIDE DEF Z
<1>6. \A k \in 1..L - 1 : k - 1 \in Z => k \in Z
  BY <1>5
<1>7. L - 1 \in Z /\ L - 1 \in Nat /\ (L - 1) + 1 = L
  <2>1. L - 1 \in Nat /\ (L - 1) + 1 = L
    BY <1>2
  <2>2. \A k \in 0..L - 1 : k \in Z
    BY <1>4, <1>6, <2>1, Upward
  <2>. QED BY <2>1, <2>2
<1>8. /\ st[L].skip <=> \E i \in 2..L : x[e[i]].name \in SkipTags
      /\ st[L].tags = Tags1(L)
  BY <1>7 DEF Z
<1>9. /\ \A i \in 2..L : e[i] \in OpenIn(x, n)
      /\ \A k \in OpenIn(x, n) : \E i \in 2..L : e[i] = k
  BY <1>1 DEF Opening
<1>10. Own(L) = Declaring(x, n)
  BY <1>9 DEF Declaring
<1>. QED BY <1>8, <1>9, <1>10 DEF Coded, TagsIn

(* One more node: those before it are judged as they were.                 *)
LEMMA EarlierKept ==
    ASSUME NEW x, NEW o, NEW st, NEW p, NEW d, NEW ex, NEW v, NEW w, NEW st2,
           PageFits(x, o, st, p, d, ex), IsNode(v),
           StackFits(Append(x, v), Len(x) + 1, st2, p, d),
           WrittenFor(Append(x, v), Append(o, w), p, d, ex, Len(x) + 1)
    PROVE  PageFits(Append(x, v), Append(o, w), st2, p, d, ex)
<1>. DEFINE y == Append(x, v)
            q == Append(o, w)
            n == Len(x)
<1>1. /\ Listed(y) /\ Len(y) = n + 1 /\ n \in Nat /\ \A i \in 1..n : y[i] = x[i]
      /\ y[n + 1] = v
  BY AppendListed, ListedFacts DEF PageFits
<1>2. Listed(q) /\ Len(q) = n + 1 /\ \A i \in 1..n : q[i] = o[i]
  BY AppendListed DEF PageFits
<1>. HIDE DEF y, q
<1>3. ASSUME NEW k \in 1..n PROVE IsNode(y[k]) /\ WrittenFor(y, q, p, d, ex, k)
  <2>1. y[k] = x[k] /\ q[k] = o[k] /\ k \in Nat /\ \A i \in 1..k : i \in 1..n /\ y[i] = x[i]
    BY <1>1, <1>2
  <2>2. OpenIn(y, k) = OpenIn(x, k) /\ OpenIn(x, k) \in SUBSET (1..k)
    BY <2>1, OpenFacts
  <2>3. \A i \in OpenIn(x, k) : y[i] = x[i]
    BY <2>1, <2>2
  <2>4. Declaring(y, k) = Declaring(x, k) /\ (Coded(y, k) <=> Coded(x, k))
    BY <2>2, <2>3 DEF Declaring, Coded
  <2>5. TagsIn(y, p, d, k) = TagsIn(x, p, d, k)
    <3>1. CASE p # {} \/ Declaring(x, k) = {}
      BY <2>4, <3>1 DEF TagsIn
    <3>2. CASE p = {} /\ Declaring(x, k) # {}
      <4>1. Declaring(x, k) \in SUBSET (0..k) /\ Declaring(x, k) \subseteq OpenIn(x, k)
        BY <2>2 DEF Declaring
      <4>2. T!Max(Declaring(x, k)) \in Declaring(x, k)
        BY <2>1, <3>2, <4>1, MaxFacts
      <4>3. y[T!Max(Declaring(x, k))] = x[T!Max(Declaring(x, k))]
        BY <2>3, <4>1, <4>2
      <4>. QED BY <2>4, <3>2, <4>3 DEF TagsIn
    <3>. QED BY <3>1, <3>2
  <2>6. IsNode(x[k]) /\ WrittenFor(x, o, p, d, ex, k)
    BY DEF PageFits
  <2>. QED BY <2>1, <2>4, <2>5, <2>6 DEF WrittenFor
<1>4. IsNode(y[n + 1]) /\ WrittenFor(y, q, p, d, ex, n + 1)
  BY <1>1 DEF y, q
<1>5. \A k \in 1..Len(y) : k \in 1..n \/ k = n + 1
  BY <1>1
<1>6. StackFits(y, Len(y), st2, p, d)
  BY <1>1 DEF y
<1>7. PageFits(y, q, st2, p, d, ex)
  BY <1>1, <1>2, <1>3, <1>4, <1>5, <1>6 DEF PageFits
<1>. QED BY <1>7 DEF y, q

(* What is open, after a node that opens or closes nothing.                *)
LEMMA StackKept ==
    ASSUME NEW x, NEW st, NEW p, NEW d, NEW v, Listed(x), StackFits(x, Len(x), st, p, d),
           OpenedIn(Append(x, v), OpenIn(x, Len(x)), Len(x) + 1) = OpenIn(x, Len(x))
    PROVE  /\ OpenIn(Append(x, v), Len(x) + 1) = OpenIn(x, Len(x))
           /\ StackFits(Append(x, v), Len(x) + 1, st, p, d)
<1>. DEFINE y == Append(x, v)
            n == Len(x)
<1>1. n \in Nat /\ \A i \in 1..n : y[i] = x[i]
  BY AppendListed, ListedFacts
<1>. HIDE DEF y
<1>2. OpenIn(y, n) = OpenIn(x, n)
  BY <1>1, OpenFacts
<1>3. OpenIn(y, n + 1) = OpenIn(x, n)
  BY <1>1, <1>2, OpenFacts DEF y
<1>4. PICK e : Opening(x, n, st, e, p)
  BY DEF StackFits
<1>5. \A i \in 2..Len(st) : e[i] \in 1..n /\ e[i] \in 1..n + 1 /\ y[e[i]] = x[e[i]]
  BY <1>1, <1>4 DEF Opening
<1>6. Opening(y, n + 1, st, e, p)
  BY <1>3, <1>4, <1>5 DEF Opening
<1>. QED BY <1>3, <1>6 DEF StackFits, y

-----------------------------------------------------------------------------
(* The steps.  Text, void elements and end tags of nothing leave the stack. *)

LEMMA TextStep ==
    ASSUME NEW x, NEW o, NEW st, NEW p, NEW d, NEW ex, NEW t \in Texts, PageFits(x, o, st, p, d, ex)
    PROVE  PageFits(Append(x, T!Text(t)),
                    Append(o, IF st[Len(st)].skip THEN T!Text(t) ELSE Censored(t, ex, st[Len(st)].tags)), st, p, d, ex)
<1>. DEFINE v == T!Text(t)
            y == Append(x, v)
            n == Len(x)
            top == st[Len(st)]
            w == IF top.skip THEN v ELSE Censored(t, ex, top.tags)
            q == Append(o, w)
<1>1. Listed(x) /\ Listed(o) /\ Len(o) = n /\ StackFits(x, n, st, p, d) /\ n \in Nat
  BY ListedFacts DEF PageFits
<1>2. v.kind = "text" /\ v.text = t /\ IsNode(v)
  BY DEF T!Text, T!Node, IsNode
<1>3. y[n + 1] = v /\ q[n + 1] = w
  BY <1>1, AppendListed
<1>. HIDE DEF v, w, q
<1>4. OpenedIn(y, OpenIn(x, n), n + 1) = OpenIn(x, n)
  BY <1>2, <1>3 DEF OpenedIn
<1>5. StackFits(y, n + 1, st, p, d)
  BY <1>1, <1>4, StackKept
<1>. HIDE DEF y, n
<1>6. (top.skip <=> Coded(y, n + 1)) /\ top.tags = TagsIn(y, p, d, n + 1)
  <2>1. n + 1 \in Nat
    BY <1>1
  <2>. QED BY <1>5, <2>1, InnermostFits
<1>7. WrittenFor(y, q, p, d, ex, n + 1)
  BY <1>2, <1>3, <1>6 DEF WrittenFor, w
<1>8. PageFits(Append(x, v), q, st, p, d, ex)
  BY <1>2, <1>5, <1>7, EarlierKept DEF y, n, q
<1>. QED BY <1>8 DEF v, w, q

LEMMA TagStep ==
    ASSUME NEW x, NEW o, NEW st, NEW p, NEW d, NEW ex, NEW v, NEW st2,
           PageFits(x, o, st, p, d, ex), IsNode(v), v.kind # "text",
           StackFits(Append(x, v), Len(x) + 1, st2, p, d)
    PROVE  PageFits(Append(x, v), Append(o, v), st2, p, d, ex)
<1>1. Listed(x) /\ Listed(o) /\ Len(o) = Len(x)
  BY DEF PageFits
<1>2. Append(x, v)[Len(x) + 1] = v /\ Append(o, v)[Len(x) + 1] = v
  BY <1>1, AppendListed
<1>3. WrittenFor(Append(x, v), Append(o, v), p, d, ex, Len(x) + 1)
  BY <1>2 DEF WrittenFor
<1>. QED BY <1>3, EarlierKept

LEMMA StartPushes ==
    ASSUME NEW x, NEW st, NEW p, NEW d, NEW nm, NEW l, Listed(x), StackFits(x, Len(x), st, p, d)
    PROVE  StackFits(Append(x, T!Start(nm, l)), Len(x) + 1,
                     IF nm \in VoidTags THEN st
                     ELSE Append(st, [name |-> nm, skip |-> st[Len(st)].skip \/ nm \in SkipTags,
                                      tags |-> IF l = NoTag \/ p # {} THEN st[Len(st)].tags ELSE {l}]), p, d)
<1>. DEFINE v == T!Start(nm, l)
            y == Append(x, v)
            n == Len(x)
            L == Len(st)
            c == [name |-> nm, skip |-> st[L].skip \/ nm \in SkipTags,
                  tags |-> IF l = NoTag \/ p # {} THEN st[L].tags ELSE {l}]
            st2 == Append(st, c)
<1>1. n \in Nat /\ (\A i \in 1..n : y[i] = x[i]) /\ y[n + 1] = v
  BY AppendListed, ListedFacts
<1>2. v.kind = "start" /\ v.name = nm /\ v.lang = l
  BY DEF T!Start, T!Node
<1>3. CASE nm \in VoidTags
  <2>1. OpenedIn(y, OpenIn(x, n), n + 1) = OpenIn(x, n)
    BY <1>1, <1>2, <1>3 DEF OpenedIn
  <2>. QED BY <1>3, <2>1, StackKept
<1>4. CASE nm \notin VoidTags
  <2>1. OpenIn(y, n + 1) = OpenIn(x, n) \cup {n + 1}
    <3>1. OpenIn(y, n) = OpenIn(x, n) /\ OpenIn(y, n + 1) = OpenedIn(y, OpenIn(y, n), n + 1)
      BY <1>1, OpenFacts
    <3>. QED BY <1>1, <1>2, <1>4, <3>1 DEF OpenedIn
  <2>2. /\ Listed(st2) /\ Len(st2) = L + 1 /\ L \in Nat /\ L >= 1
        /\ (\A i \in 1..L : st2[i] = st[i]) /\ st2[L + 1] = c
    BY AppendListed, ListedFacts DEF StackFits
  <2>3. PICK e : Opening(x, n, st, e, p)
    BY DEF StackFits
  <2>4. c.name = nm /\ (c.skip <=> st[L].skip \/ nm \in SkipTags)
        /\ c.tags = IF l = NoTag \/ p # {} THEN st[L].tags ELSE {l}
    OBVIOUS
  <2>5. st[1].tags = PageTagsOf(p, d) /\ st[1].skip = FALSE
    BY DEF StackFits
  <2>. HIDE DEF v, y, n, L, c, st2
  <2>. DEFINE f == [i \in 2..L + 1 |-> IF i = L + 1 THEN n + 1 ELSE e[i]]
  <2>6. /\ \A i \in 2..L + 1 : i \in 2..L \/ i = L + 1
        /\ \A i \in 2..L : i \in 2..L + 1 /\ i # L + 1 /\ i - 1 \in 1..L /\ i \in 1..L
        /\ L + 1 \in 2..L + 1 /\ (L + 1) - 1 = L /\ L \in 1..L
    BY <2>2
  <2>7. f[L + 1] = n + 1 /\ \A i \in 2..L : f[i] = e[i]
    BY <2>6
  <2>. HIDE DEF f
  <2>8. \A i \in 2..L : e[i] \in 1..n /\ e[i] \in OpenIn(x, n) /\ y[e[i]] = x[e[i]]
    BY <1>1, <2>3 DEF Opening, L, n
  <2>9. \A i \in 2..L + 1 : f[i] \in 1..n + 1 /\ f[i] \in OpenIn(y, n + 1)
    <3>1. ASSUME NEW i \in 2..L + 1 PROVE f[i] \in 1..n + 1 /\ f[i] \in OpenIn(y, n + 1)
      <4>1. CASE i \in 2..L
        <5>1. f[i] \in 1..n /\ f[i] \in OpenIn(x, n)
          BY <2>7, <2>8, <4>1
        <5>. QED BY <1>1, <2>1, <5>1
      <4>2. CASE i = L + 1
        BY <1>1, <2>1, <2>7, <4>2
      <4>. QED BY <2>6, <4>1, <4>2
    <3>. QED BY <3>1
  <2>10. \A i, j \in 2..L + 1 : i < j => f[i] < f[j]
    <3>1. ASSUME NEW i \in 2..L + 1, NEW j \in 2..L + 1, i < j PROVE f[i] < f[j]
      <4>1. i \in 2..L
        BY <2>2, <3>1
      <4>2. CASE j \in 2..L
        BY <2>3, <2>7, <3>1, <4>1, <4>2 DEF Opening, L, n
      <4>3. CASE j = L + 1
        <5>1. f[i] \in 1..n /\ f[j] = n + 1
          BY <2>7, <2>8, <4>1, <4>3
        <5>. QED BY <1>1, <5>1
      <4>. QED BY <2>6, <4>2, <4>3
    <3>. QED BY <3>1
  <2>11. \A k \in OpenIn(y, n + 1) : \E i \in 2..L + 1 : f[i] = k
    <3>1. ASSUME NEW k \in OpenIn(y, n + 1) PROVE \E i \in 2..L + 1 : f[i] = k
      <4>1. CASE k \in OpenIn(x, n)
        <5>1. PICK i \in 2..L : e[i] = k
          BY <2>3, <4>1 DEF Opening, L, n
        <5>. QED BY <2>6, <2>7, <5>1
      <4>2. CASE k = n + 1
        BY <2>6, <2>7, <4>2
      <4>. QED BY <2>1, <4>1, <4>2
    <3>. QED BY <3>1
  <2>12. ASSUME NEW i \in 2..L + 1
         PROVE  /\ st2[i].name = y[f[i]].name
                /\ st2[i].skip <=> st2[i - 1].skip \/ y[f[i]].name \in SkipTags
                /\ st2[i].tags = IF y[f[i]].lang = NoTag \/ p # {} THEN st2[i - 1].tags ELSE {y[f[i]].lang}
    <3>1. CASE i \in 2..L
      <4>1. st2[i] = st[i] /\ st2[i - 1] = st[i - 1] /\ y[f[i]] = x[e[i]]
        BY <2>2, <2>6, <2>7, <2>8, <3>1
      <4>2. /\ st[i].name = x[e[i]].name
            /\ st[i].skip <=> st[i - 1].skip \/ x[e[i]].name \in SkipTags
            /\ st[i].tags = IF x[e[i]].lang = NoTag \/ p # {} THEN st[i - 1].tags ELSE {x[e[i]].lang}
        BY <2>3, <3>1 DEF Opening, L, n
      <4>. QED BY <4>1, <4>2
    <3>2. CASE i = L + 1
      <4>1. st2[i] = c /\ st2[i - 1] = st[L] /\ y[f[i]] = v
        BY <1>1, <2>2, <2>6, <2>7, <3>2
      <4>. QED BY <1>2, <2>4, <4>1
    <3>. QED BY <2>6, <3>1, <3>2
  <2>13. Opening(y, n + 1, st2, f, p)
    BY <2>2, <2>9, <2>10, <2>11, <2>12 DEF Opening
  <2>14. StackFits(y, n + 1, st2, p, d)
    <3>1. st2[1] = st[1] /\ Len(st2) >= 1
      <4>1. 1 \in 1..L /\ L + 1 >= 1
        BY <2>2
      <4>. QED BY <2>2, <4>1
    <3>. QED BY <2>2, <2>5, <2>13, <3>1 DEF StackFits
  <2>. QED BY <1>4, <2>14 DEF v, y, n, L, c, st2
<1>. QED BY <1>3, <1>4

LEMMA EndPops ==
    ASSUME NEW x, NEW st, NEW p, NEW d, NEW nm, NEW open,
           Listed(x), \A k \in 1..Len(x) : IsNode(x[k]), StackFits(x, Len(x), st, p, d),
           open = {i \in 2..Len(st) : st[i].name = nm}
    PROVE  StackFits(Append(x, T!EndOf(nm)), Len(x) + 1,
                     IF open = {} THEN st ELSE SubSeq(st, 1, T!Max(open) - 1), p, d)
<1>. DEFINE v == T!EndOf(nm)
            y == Append(x, v)
            n == Len(x)
            L == Len(st)
            same == {i \in OpenIn(x, n) : y[i].name = y[n + 1].name}
<1>1. n \in Nat /\ (\A i \in 1..n : y[i] = x[i]) /\ y[n + 1] = v
  BY AppendListed, ListedFacts
<1>2. v.kind = "end" /\ v.name = nm
  BY DEF T!EndOf, T!Node
<1>3. PICK e : Opening(x, n, st, e, p)
  BY DEF StackFits
<1>4. L \in Nat /\ L >= 1 /\ Listed(st) /\ st[1].tags = PageTagsOf(p, d) /\ st[1].skip = FALSE
  BY ListedFacts DEF StackFits
<1>5. OpenIn(x, n) \in SUBSET (1..n)
  BY <1>1, OpenFacts
<1>6. \A i \in 2..L : e[i] \in 1..n /\ e[i] \in OpenIn(x, n) /\ y[e[i]] = x[e[i]] /\ st[i].name = y[e[i]].name
  BY <1>1, <1>3 DEF Opening
<1>7. \A i \in 2..L : i \in open <=> e[i] \in same
  BY <1>1, <1>2, <1>6
<1>8. \A k \in same : \E i \in open : e[i] = k
  BY <1>3, <1>7 DEF Opening
<1>9. /\ OpenIn(y, n) = OpenIn(x, n)
      /\ OpenIn(y, n + 1) = OpenedIn(y, OpenIn(x, n), n + 1)
  <2>1. OpenIn(y, n) = OpenIn(x, n) /\ OpenIn(y, n + 1) = OpenedIn(y, OpenIn(y, n), n + 1)
    BY <1>1, OpenFacts
  <2>. QED BY <2>1
<1>10. OpenIn(y, n + 1) = IF same # {} THEN {i \in OpenIn(x, n) : i < T!Max(same)} ELSE OpenIn(x, n)
  <2>1. ~(y[n + 1].kind = "start") /\ y[n + 1].kind = "end"
    BY <1>1, <1>2
  <2>. QED BY <1>9, <2>1 DEF OpenedIn
<1>11. CASE open = {}
  <2>1. same = {}
    BY <1>8, <1>11
  <2>2. OpenedIn(y, OpenIn(x, n), n + 1) = OpenIn(x, n)
    BY <1>9, <1>10, <2>1
  <2>. QED BY <1>11, <2>2, StackKept
<1>12. CASE open # {}
  <2>. DEFINE m == T!Max(open)
              st2 == SubSeq(st, 1, m - 1)
  <2>1. m \in open /\ \A i \in open : i <= m
    <3>1. open \in SUBSET (0..L)
      BY <1>4
    <3>. QED BY <1>4, <1>12, <3>1, MaxFacts
  <2>. HIDE DEF m
  <2>2. m \in 2..L /\ m - 1 \in Nat /\ m - 1 <= L /\ m - 1 >= 1
    <3>1. m \in 2..L
      BY <2>1
    <3>. QED BY <1>4, <3>1
  <2>3. /\ Listed(st2) /\ Len(st2) = m - 1
        /\ \A i \in 1..m - 1 : st2[i] = st[i]
    BY <1>4, <2>2, PrefixListed
  <2>. HIDE DEF v, y, n, L, same, st2
  <2>4. e[m] \in same /\ same \in SUBSET (0..n)
    <3>1. e[m] \in same
      BY <1>7, <2>1, <2>2
    <3>2. same \in SUBSET (0..n)
      BY <1>1, <1>5 DEF same
    <3>. QED BY <3>1, <3>2
  <2>5. T!Max(same) = e[m]
    <3>1. T!Max(same) \in same /\ \A k \in same : k <= T!Max(same)
      BY <1>1, <2>4, MaxFacts
    <3>2. PICK i \in open : e[i] = T!Max(same)
      BY <1>8, <3>1
    <3>3. i \in 2..L /\ i <= m /\ e[i] \in 1..n /\ e[m] \in 1..n
      BY <1>6, <2>1, <2>2, <3>2 DEF L
    <3>4. i < m => e[i] < e[m]
      BY <1>3, <2>2, <3>3 DEF Opening, L
    <3>5. e[m] <= e[i]
      BY <2>4, <3>1, <3>2
    <3>6. i = m
      BY <2>2, <3>3, <3>4, <3>5
    <3>. QED BY <3>2, <3>6
  <2>6. \A i \in 2..m - 1 : i \in 2..L /\ i < m /\ i \in 1..m - 1 /\ i - 1 \in 1..m - 1
    BY <1>4, <2>2 DEF L
  <2>7. OpenIn(y, n + 1) = {k \in OpenIn(x, n) : k < e[m]}
    BY <1>10, <2>4, <2>5
  <2>8. \A i \in 2..m - 1 : e[i] \in 1..n + 1 /\ e[i] \in OpenIn(y, n + 1)
    <3>1. ASSUME NEW i \in 2..m - 1 PROVE e[i] \in 1..n + 1 /\ e[i] \in OpenIn(y, n + 1)
      <4>1. e[i] \in 1..n /\ e[i] \in OpenIn(x, n)
        BY <1>6, <2>6
      <4>2. e[i] < e[m]
        BY <1>3, <2>2, <2>6 DEF Opening, L
      <4>. QED BY <1>1, <2>7, <4>1, <4>2
    <3>. QED BY <3>1
  <2>9. \A i, j \in 2..m - 1 : i < j => e[i] < e[j]
    BY <1>3, <2>6 DEF Opening, L
  <2>10. ASSUME NEW k \in OpenIn(y, n + 1) PROVE \E i \in 2..m - 1 : e[i] = k
    <3>1. k \in OpenIn(x, n) /\ k < e[m]
      BY <2>7
    <3>2. PICK i \in 2..L : e[i] = k
      BY <1>3, <3>1 DEF Opening, L
    <3>3. e[i] \in 1..n /\ e[m] \in 1..n /\ (m < i => e[m] < e[i])
      BY <1>3, <1>6, <2>2, <3>2 DEF Opening, L
    <3>4. i < m
      <4>1. SUFFICES ASSUME m <= i PROVE FALSE
        BY <2>2
      <4>2. m = i \/ m < i
        BY <2>2, <4>1
      <4>. QED BY <3>1, <3>2, <3>3, <4>2
    <3>5. i \in 2..m - 1
      BY <2>2, <3>4
    <3>. QED BY <3>2, <3>5
  <2>11. ASSUME NEW i \in 2..m - 1
         PROVE  /\ st2[i].name = y[e[i]].name
                /\ st2[i].skip <=> st2[i - 1].skip \/ y[e[i]].name \in SkipTags
                /\ st2[i].tags = IF y[e[i]].lang = NoTag \/ p # {} THEN st2[i - 1].tags ELSE {y[e[i]].lang}
    <3>1. st2[i] = st[i] /\ st2[i - 1] = st[i - 1] /\ y[e[i]] = x[e[i]]
      BY <1>6, <2>3, <2>6
    <3>2. /\ st[i].name = x[e[i]].name
          /\ st[i].skip <=> st[i - 1].skip \/ x[e[i]].name \in SkipTags
          /\ st[i].tags = IF x[e[i]].lang = NoTag \/ p # {} THEN st[i - 1].tags ELSE {x[e[i]].lang}
      BY <1>3, <2>6 DEF Opening, L
    <3>. QED BY <3>1, <3>2
  <2>12. Opening(y, n + 1, st2, e, p)
    BY <2>3, <2>8, <2>9, <2>10, <2>11 DEF Opening
  <2>13. StackFits(y, n + 1, st2, p, d)
    <3>1. st2[1] = st[1]
      <4>1. 1 \in 1..m - 1
        BY <2>2
      <4>. QED BY <2>3, <4>1
    <3>. QED BY <1>4, <2>2, <2>3, <2>12, <3>1 DEF StackFits
  <2>. QED BY <1>12, <2>13 DEF v, y, n, L, m, st2
<1>. QED BY <1>11, <1>12

CensorInv ==
    /\ PageFits(seen, out, stack, pinned, declared, extra)
    /\ body \in {T!Unfinished, out, seen}

LEMMA CensorStart == T!Init => CensorInv
<1>. SUFFICES ASSUME T!Init PROVE CensorInv
  OBVIOUS
<1>1. /\ seen = <<>> /\ out = <<>> /\ body = T!Unfinished
      /\ stack = <<[name |-> "", tags |-> PageTagsOf(pinned, declared), skip |-> FALSE]>>
  BY DEF T!Init, T!PageTags, PageTagsOf
<1>2. Listed(seen) /\ Listed(out) /\ Len(seen) = 0 /\ Len(out) = 0
  <2>1. \A S : <<>> \in Seq(S) /\ Len(<<>>) = 0
    OBVIOUS
  <2>2. \A o : o = <<>> => Listed(o) /\ Len(o) = 0
    BY <2>1 DEF Listed
  <2>. QED BY <1>1, <2>2
<1>3. /\ Listed(stack) /\ Len(stack) = 1
      /\ stack[1].tags = PageTagsOf(pinned, declared) /\ stack[1].skip = FALSE
  <2>. DEFINE c == [name |-> "", tags |-> PageTagsOf(pinned, declared), skip |-> FALSE]
  <2>1. c.tags = PageTagsOf(pinned, declared) /\ c.skip = FALSE
    OBVIOUS
  <2>. HIDE DEF c
  <2>2. stack = <<c>>
    BY <1>1 DEF c
  <2>3. stack \in Seq({c}) /\ Len(stack) = 1 /\ stack[1] = c
    BY <2>2
  <2>. QED BY <2>1, <2>3 DEF Listed
<1>4. OpenIn(seen, 0) = {}
  BY OpenFacts
<1>5. \A e : Opening(seen, 0, stack, e, pinned)
  <2>1. 2..Len(stack) = {}
    BY <1>3
  <2>. QED BY <1>4, <2>1 DEF Opening
<1>6. StackFits(seen, Len(seen), stack, pinned, declared)
  BY <1>2, <1>3, <1>5 DEF StackFits
<1>7. 1..Len(seen) = {}
  BY <1>2
<1>. QED BY <1>1, <1>2, <1>6, <1>7 DEF CensorInv, PageFits

LEMMA ReadsStep ==
    ASSUME CensorInv,
           \/ \E n \in Elements : T!EndTag(n) \/ \E l \in Tags \cup {NoTag} : T!StartTag(n, l)
           \/ \E t \in Texts : T!TextNode(t)
    PROVE  CensorInv'
<1>1. PageFits(seen, out, stack, pinned, declared, extra)
  BY DEF CensorInv
<1>2. /\ body = T!Unfinished /\ body' = body
      /\ pinned' = pinned /\ extra' = extra /\ declared' = declared
  BY DEF T!EndTag, T!StartTag, T!TextNode, T!Reads, T!policyVars
<1>3. SUFFICES PageFits(seen', out', stack', pinned, declared, extra)
  BY <1>2 DEF CensorInv
<1>4. /\ Listed(seen) /\ StackFits(seen, Len(seen), stack, pinned, declared)
      /\ \A k \in 1..Len(seen) : IsNode(seen[k])
  BY <1>1 DEF PageFits
<1>5. ASSUME NEW n \in Elements, T!EndTag(n) PROVE PageFits(seen', out', stack', pinned, declared, extra)
  <2>. DEFINE v == T!EndOf(n)
              open == {i \in 2..Len(stack) : stack[i].name = n}
              st2 == IF open = {} THEN stack ELSE SubSeq(stack, 1, T!Max(open) - 1)
  <2>1. seen' = Append(seen, v) /\ out' = Append(out, v) /\ stack' = st2
    BY <1>5 DEF T!EndTag, T!Reads
  <2>2. v.kind # "text" /\ IsNode(v)
    BY DEF T!EndOf, T!Node, IsNode
  <2>3. StackFits(Append(seen, v), Len(seen) + 1, st2, pinned, declared)
    BY <1>4, EndPops
  <2>. HIDE DEF v, st2
  <2>. QED BY <1>1, <2>1, <2>2, <2>3, TagStep
<1>6. ASSUME NEW n \in Elements, NEW l, T!StartTag(n, l)
      PROVE  PageFits(seen', out', stack', pinned, declared, extra)
  <2>. DEFINE v == T!Start(n, l)
              st2 == IF n \in VoidTags THEN stack
                     ELSE Append(stack, [name |-> n, skip |-> stack[Len(stack)].skip \/ n \in SkipTags,
                                         tags |-> IF l = NoTag \/ pinned # {} THEN stack[Len(stack)].tags ELSE {l}])
  <2>1. seen' = Append(seen, v) /\ out' = Append(out, v) /\ stack' = st2
    BY <1>6 DEF T!StartTag, T!Reads, T!Top
  <2>2. v.kind # "text" /\ IsNode(v)
    BY DEF T!Start, T!Node, IsNode
  <2>3. StackFits(Append(seen, v), Len(seen) + 1, st2, pinned, declared)
    BY <1>4, StartPushes
  <2>. HIDE DEF v, st2
  <2>. QED BY <1>1, <2>1, <2>2, <2>3, TagStep
<1>7. ASSUME NEW t \in Texts, T!TextNode(t) PROVE PageFits(seen', out', stack', pinned, declared, extra)
  <2>. DEFINE v == T!Text(t)
              w == IF stack[Len(stack)].skip THEN v ELSE Censored(t, extra, stack[Len(stack)].tags)
  <2>1. seen' = Append(seen, v) /\ out' = Append(out, w) /\ stack' = stack
    <3>1. /\ seen' = Append(seen, v) /\ stack' = stack
          /\ out' = Append(out, IF T!Top.skip THEN v ELSE T!Text(T!Mask(t, T!Find(t, T!ForLanguages(T!Top.tags)))))
      BY <1>7 DEF T!TextNode, T!Reads
    <3>2. T!Top = stack[Len(stack)] /\ \A tags : T!ForLanguages(tags) = WordsFor(extra, tags)
      BY DEF T!Top, T!ForLanguages, WordsFor
    <3>. QED BY <3>1, <3>2 DEF Censored
  <2>. QED BY <1>1, <2>1, TextStep
<1>. QED BY <1>5, <1>6, <1>7

LEMMA CensorStep == CensorInv /\ [T!Next]_censor => CensorInv'
<1>. SUFFICES ASSUME CensorInv, [T!Next]_censor PROVE CensorInv'
  OBVIOUS
<1>1. CASE T!EOF \/ T!Unreadable
  BY <1>1 DEF CensorInv, T!EOF, T!Unreadable, T!policyVars
<1>2. CASE UNCHANGED censor
  BY <1>2 DEF CensorInv, censor
<1>. QED BY <1>1, <1>2, ReadsStep DEF T!Next

LEMMA CensorHolds == ASSUME CensorInv PROVE T!CensoredAsWritten
<1>1. /\ Listed(seen) /\ Listed(out) /\ Len(out) = Len(seen)
      /\ \A k \in 1..Len(seen) : IsNode(seen[k]) /\ WrittenFor(seen, out, pinned, declared, extra, k)
      /\ DOMAIN out = 1..Len(seen) /\ Len(seen) \in Nat
  BY ListedFacts DEF CensorInv, PageFits
<1>2. ASSUME NEW k PROVE T!OpenAfter(k) = OpenIn(seen, k)
  BY DEF T!OpenAfter, OpenIn, T!Opened, OpenedIn
<1>3. ASSUME NEW k PROVE T!TagsAt(k) = TagsIn(seen, pinned, declared, k)
  BY <1>2 DEF T!TagsAt, TagsIn, Declaring, T!PageTags, PageTagsOf
<1>4. ASSUME NEW s, NEW tags PROVE T!AllOccurrences(s, tags) = Occurring(s, WordsFor(extra, tags))
  <2>1. T!ForLanguages(tags) = WordsFor(extra, tags)
    BY DEF T!ForLanguages, WordsFor
  <2>. QED BY <2>1 DEF T!AllOccurrences, Occurring
<1>5. ASSUME NEW k \in 1..Len(seen), seen[k].kind = "text", body = out
      PROVE  LET s == seen[k].text
                 masked == T!Masked(s, body[k].text)
                 all == T!AllOccurrences(s, T!TagsAt(k))
             IN  IF \E i \in T!OpenAfter(k) : seen[i].name \in SkipTags THEN masked = {}
                 ELSE /\ \A b \in all : \E c \in all :
                             b[1] \in c[1]..c[2] /\ \A i \in c[1]..c[2] : T!Hidden(s[i]) => i \in masked
                      /\ \A i \in masked : \E b \in all : i \in b[1]..b[2]
  <2>. DEFINE s == seen[k].text
              tags == TagsIn(seen, pinned, declared, k)
              W == WordsFor(extra, tags)
              m == out[k].text
              all == Occurring(s, W)
              masked == {i \in DOMAIN s : m[i] # s[i]}
  <2>1. T!Masked(s, body[k].text) = masked /\ T!AllOccurrences(s, T!TagsAt(k)) = all
    BY <1>3, <1>4, <1>5 DEF T!Masked
  <2>2. (\E i \in T!OpenAfter(k) : seen[i].name \in SkipTags) <=> Coded(seen, k)
    BY <1>2 DEF Coded
  <2>3. IsNode(seen[k]) /\ WrittenFor(seen, out, pinned, declared, extra, k)
    BY <1>1
  <2>4. CASE Coded(seen, k)
    <3>1. m = s
      BY <2>3, <2>4 DEF WrittenFor
    <3>. QED BY <2>1, <2>2, <2>4, <3>1
  <2>5. CASE ~Coded(seen, k)
    <3>1. out[k] = Censored(s, extra, tags)
      BY <1>5, <2>3, <2>5 DEF WrittenFor
    <3>2. m = T!Mask(s, T!Find(s, W))
      <4>1. \A t : T!Text(t).text = t
        BY DEF T!Text, T!Node
      <4>2. out[k] = T!Text(T!Mask(s, T!Find(s, W)))
        <5>. HIDE DEF s
        <5>. QED BY <3>1 DEF Censored
      <4>. HIDE DEF s, W
      <4>. QED BY <4>1, <4>2
    <3>3. Listed(s)
      <4>1. s \in Texts
        BY <1>5, <2>3 DEF IsNode
      <4>. QED BY <4>1, TextsAssumption DEF Listed
    <3>. HIDE DEF s, W, m
    <3>4. \A i \in DOMAIN s : /\ i \in T!Find(s, W) /\ T!Hidden(s[i]) => i \in masked
                              /\ i \in masked => i \in T!Find(s, W)
      BY <3>2, <3>3, MaskFacts
    <3>5. /\ \A b \in all : \E c \in all :
                 b[1] \in c[1]..c[2] /\ \A i \in c[1]..c[2] : T!Hidden(s[i]) => i \in masked
          /\ \A i \in masked : \E b \in all : i \in b[1]..b[2]
      <4>. HIDE DEF masked
      <4>1. \A i \in masked : i \in DOMAIN s
        BY DEF masked
      <4>. QED BY <3>3, <3>4, <4>1, FindFacts
    <3>6. T!Masked(s, body[k].text) = masked /\ T!AllOccurrences(s, T!TagsAt(k)) = all
      BY <2>1
    <3>. HIDE DEF all, masked
    <3>7. /\ \A b \in T!AllOccurrences(s, T!TagsAt(k)) : \E c \in T!AllOccurrences(s, T!TagsAt(k)) :
                 b[1] \in c[1]..c[2] /\ \A i \in c[1]..c[2] : T!Hidden(s[i]) => i \in T!Masked(s, body[k].text)
          /\ \A i \in T!Masked(s, body[k].text) : \E b \in T!AllOccurrences(s, T!TagsAt(k)) : i \in b[1]..b[2]
      BY <3>5, <3>6
    <3>. QED BY <2>2, <2>5, <3>7 DEF s
  <2>. QED BY <2>4, <2>5
<1>6. CASE body = T!Unfinished
  BY <1>6 DEF T!Unfinished, T!CensoredAsWritten
<1>7. CASE body = seen /\ out # seen
  BY <1>7 DEF T!CensoredAsWritten
<1>8. CASE body = out
  <2>1. ASSUME NEW k \in DOMAIN body, seen[k].kind # "text" PROVE body[k] = seen[k]
    BY <1>1, <1>8, <2>1 DEF WrittenFor
  <2>2. \A k \in DOMAIN body : k \in 1..Len(seen)
    BY <1>1, <1>8
  <2>. QED BY <1>5, <1>8, <2>1, <2>2 DEF T!CensoredAsWritten
<1>. QED BY <1>6, <1>7, <1>8 DEF CensorInv

-----------------------------------------------------------------------------
FiltersInv ==
    /\ matcher = "pattern" => GlobInv
    /\ matcher = "lists"   => ListsInv
    /\ matcher = "censor"  => CensorInv

LEMMA FiltersInvariant == FiltersSpec => []FiltersInv
<1>1. FiltersInit => FiltersInv
  BY GlobStart, ListsStart, CensorStart DEF FiltersInit, FiltersInv
<1>2. FiltersInv /\ [FiltersNext]_filterVars => FiltersInv'
  <2>. SUFFICES ASSUME FiltersInv, [FiltersNext]_filterVars PROVE FiltersInv'
    OBVIOUS
  <2>1. /\ matcher' = matcher
        /\ matcher = "pattern" => [G!Next]_glob
        /\ matcher = "lists"   => [R!Next]_lists
        /\ matcher = "censor"  => [T!Next]_censor
    BY DEF FiltersNext, PatternNext, ListsNext, CensorNext, filterVars
  <2>2. matcher = "pattern" => GlobInv'
    BY <2>1, GlobStep DEF FiltersInv
  <2>3. matcher = "lists" => ListsInv'
    BY <2>1, ListsStep DEF FiltersInv
  <2>4. matcher = "censor" => CensorInv'
    BY <2>1, CensorStep DEF FiltersInv
  <2>. QED BY <2>1, <2>2, <2>3, <2>4 DEF FiltersInv
<1>. QED BY <1>1, <1>2, PTL DEF FiltersSpec

(* For any lists, patterns, URLs and pages: the loop with its one place to *)
(* come back to, tried at the offsets where the literal start occurs,      *)
(* finds a match exactly if there is one, and a rule that matches is found *)
(* by its token; a request is blocked and an element hidden as the lines   *)
(* say, whatever their order and their buckets (internal/adblock/engine.go)*)
THEOREM FiltersAppliedAlways == FiltersSpec => []FiltersApplied
<1>1. FiltersInv => FiltersApplied
  <2>1. GlobInv => G!FindsMatches
    BY TokenIndexed DEF GlobInv, G!FindsMatches
  <2>. QED BY <2>1, BlocksHold, HidesHold DEF FiltersApplied, FiltersInv
<1>. QED BY <1>1, FiltersInvariant, PTL

(* For any pages, lists of words, languages and added words: what holds of *)
(* the innermost element on the stack is what all open elements come to,   *)
(* so every word is masked by the languages in force where it stands, and  *)
(* of words that overlap the first that begins is masked whole             *)
(* (internal/proxy/addons/text_censor.go, classify/profanity/profanity.go).*)
THEOREM CensoredAsWrittenAlways == FiltersSpec => []CensoredAsWritten
<1>1. FiltersInv => CensoredAsWritten
  BY CensorHolds DEF CensoredAsWritten, FiltersInv
<1>. QED BY <1>1, FiltersInvariant, PTL
=============================================================================
