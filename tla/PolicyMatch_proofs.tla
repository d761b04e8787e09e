------------------------- MODULE PolicyMatch_proofs --------------------------
(***************************************************************************)
(* Proofs about PolicyMatch for any policies, networks, schedules, devices *)
(* and lengths of the week and of the day.                                 *)
(***************************************************************************)
EXTENDS PolicyMatch, WellFoundedInduction, TLAPS

Pools   == UNION {[1..n -> Pool] : n \in 0..MaxPolicies}
Slots   == 0..Days * PerDay - 1
Windows == [days : SUBSET (0..Days - 1), start : 0..PerDay - 1, end : 0..PerDay - 1]

-----------------------------------------------------------------------------
(* The schedule                                                            *)

(* A difference that is less than a week away from zero, in the week.      *)
LEMMA InTheWeek ==
    ASSUME NEW x \in Int, NEW W \in Nat \ {0}, -W < x, x < W
    PROVE  x % W = IF x < 0 THEN x + W ELSE x
OBVIOUS

LEMMA Quotient ==
    ASSUME NEW a \in Nat, NEW k \in Nat \ {0}
    PROVE  a \div k \in Nat /\ a % k \in 0..k - 1 /\ a = k * (a \div k) + (a % k)
OBVIOUS

LEMMA DayAndMinute ==
    ASSUME NEW t \in Slots
    PROVE  /\ t \div PerDay \in 0..Days - 1 /\ t % PerDay \in 0..PerDay - 1
           /\ t = PerDay * (t \div PerDay) + (t % PerDay)
<1>1. t \in Nat /\ PerDay \in Nat \ {0} /\ Days \in Nat \ {0} /\ t < Days * PerDay
  BY PoolAssumption DEF Slots
<1>2. t \div PerDay \in Nat /\ t % PerDay \in 0..PerDay - 1 /\ t = PerDay * (t \div PerDay) + (t % PerDay)
  BY <1>1, Quotient
<1>3. t \div PerDay < Days
  <2>1. SUFFICES ASSUME t \div PerDay >= Days PROVE FALSE
    BY <1>1, <1>2
  <2>2. PerDay * (t \div PerDay) >= PerDay * Days
    BY <1>1, <1>2, <2>1
  <2>. QED BY <1>1, <1>2, <2>2
<1>. QED BY <1>1, <1>2, <1>3

(* A distance of whole days is none, one or at least two days long.        *)
LEMMA WholeDays ==
    ASSUME NEW k \in Nat, NEW P \in Nat \ {0}
    PROVE  (k = 0 /\ k * P = 0) \/ (k = 1 /\ k * P = P) \/ (k >= 2 /\ k * P >= 2 * P)
OBVIOUS

(* One day's part of a window, counted round the week.                     *)
LEMMA DayCovers ==
    ASSUME NEW d \in 0..Days - 1, NEW day \in 0..Days - 1, NEW hm \in 0..PerDay - 1,
           NEW s \in 0..PerDay - 1, NEW e \in 0..PerDay - 1
    PROVE  ((PerDay * day + hm) - (d * PerDay + s)) % (Days * PerDay) <= (e - s) % PerDay
           <=> IF s <= e THEN d = day /\ s <= hm /\ hm <= e
               ELSE (d = day /\ hm >= s) \/ (d = (day + Days - 1) % Days /\ hm <= e)
<1>. DEFINE W == Days * PerDay
<1>. DEFINE x == (PerDay * day + hm) - (d * PerDay + s)
<1>1. PerDay \in Nat \ {0} /\ Days \in Nat \ {0}
  BY PoolAssumption
<1>2. (e - s) % PerDay = IF s <= e THEN e - s ELSE e - s + PerDay
  <2>1. e - s \in Int /\ -PerDay < e - s /\ e - s < PerDay
    BY <1>1
  <2>2. (e - s) % PerDay = IF e - s < 0 THEN e - s + PerDay ELSE e - s
    BY <1>1, <2>1, InTheWeek
  <2>. QED BY <1>1, <2>2
<1>3. (day + Days - 1) % Days = IF day = 0 THEN Days - 1 ELSE day - 1
  BY <1>1
<1>4. W \in Nat \ {0} /\ W >= PerDay
  BY <1>1
<1>5. CASE day >= d
  <2>. DEFINE k == day - d
  <2>1. k \in Nat /\ k <= Days - 1 /\ x = k * PerDay + hm - s
    BY <1>1, <1>5
  <2>2. k * PerDay <= (Days - 1) * PerDay
    BY <1>1, <2>1
  <2>3. k * PerDay \in Nat /\ k * PerDay <= W - PerDay
    BY <1>1, <2>1, <2>2
  <2>4. x \in Int /\ -W < x /\ x < W
    BY <1>1, <1>4, <2>1, <2>3
  <2>5. x % W = IF x < 0 THEN x + W ELSE x
    BY <1>4, <2>4, InTheWeek
  <2>6. (k = 0 /\ k * PerDay = 0) \/ (k = 1 /\ k * PerDay = PerDay) \/ (k >= 2 /\ k * PerDay >= 2 * PerDay)
    BY <1>1, <2>1, WholeDays
  <2>7. (Days = 1 /\ W = PerDay) \/ (Days >= 2 /\ W >= 2 * PerDay)
    BY <1>1, WholeDays
  <2>. HIDE DEF x, W
  <2>. QED BY <1>1, <1>2, <1>3, <1>4, <1>5, <2>1, <2>3, <2>4, <2>5, <2>6, <2>7
<1>6. CASE day < d
  <2>. DEFINE k == Days + day - d
  <2>1. k \in Nat \ {0} /\ k <= Days - 1 /\ x + W = k * PerDay + hm - s
    BY <1>1, <1>6
  <2>2. k * PerDay <= (Days - 1) * PerDay
    BY <1>1, <2>1
  <2>3. k * PerDay \in Nat /\ k * PerDay <= W - PerDay
    BY <1>1, <2>1, <2>2
  <2>4. (k = 1 /\ k * PerDay = PerDay) \/ (k >= 2 /\ k * PerDay >= 2 * PerDay)
    BY <1>1, <2>1, WholeDays
  <2>5. x \in Int /\ -W < x /\ x < 0
    BY <1>1, <1>4, <2>1, <2>3, <2>4
  <2>6. x % W = x + W
    BY <1>4, <2>5, InTheWeek
  <2>. HIDE DEF x, W
  <2>. QED BY <1>1, <1>2, <1>3, <1>6, <2>1, <2>3, <2>4, <2>6
<1>. QED BY <1>1, <1>5, <1>6

(* The window of the code, split at midnight, is the one counted round the *)
(* week.                                                                   *)
LEMMA WindowsAgree ==
    ASSUME NEW w, w.days \subseteq 0..Days - 1, w.start \in 0..PerDay - 1, w.end \in 0..PerDay - 1, NEW t \in Slots
    PROVE  InWindow(w, t) <=> WindowCovers(w, t)
<1>. DEFINE day == t \div PerDay
<1>. DEFINE hm == t % PerDay
<1>1. day \in 0..Days - 1 /\ hm \in 0..PerDay - 1 /\ t = PerDay * day + hm
  BY DayAndMinute
<1>. HIDE DEF day, hm
<1>2. \A d \in w.days :
         (t - (d * PerDay + w.start)) % (Days * PerDay) <= (w.end - w.start) % PerDay
         <=> IF w.start <= w.end THEN d = day /\ w.start <= hm /\ hm <= w.end
             ELSE (d = day /\ hm >= w.start) \/ (d = (day + Days - 1) % Days /\ hm <= w.end)
  <2>. TAKE d \in w.days
  <2>1. d \in 0..Days - 1
    OBVIOUS
  <2>2. ((PerDay * day + hm) - (d * PerDay + w.start)) % (Days * PerDay) <= (w.end - w.start) % PerDay
        <=> IF w.start <= w.end THEN d = day /\ w.start <= hm /\ hm <= w.end
            ELSE (d = day /\ hm >= w.start) \/ (d = (day + Days - 1) % Days /\ hm <= w.end)
    BY <1>1, <2>1, DayCovers
  <2>3. t - (d * PerDay + w.start) = (PerDay * day + hm) - (d * PerDay + w.start)
    BY <1>1
  <2>. QED BY <2>2, <2>3, Zenon
<1>3. InWindow(w, t) <=>
         IF w.start <= w.end THEN day \in w.days /\ w.start <= hm /\ hm <= w.end
         ELSE (day \in w.days /\ hm >= w.start) \/ ((day + Days - 1) % Days \in w.days /\ hm <= w.end)
  BY DEF InWindow, day, hm
<1>4. WindowCovers(w, t) <=>
         \E d \in w.days : IF w.start <= w.end THEN d = day /\ w.start <= hm /\ hm <= w.end
                           ELSE (d = day /\ hm >= w.start) \/ (d = (day + Days - 1) % Days /\ hm <= w.end)
  BY <1>2 DEF WindowCovers
<1>. QED BY <1>3, <1>4

LEMMA UsableAreOn ==
    ASSUME NEW ps \in Pools, NEW t \in Slots
    PROVE  Usable(ps, t) = {j \in DOMAIN ps : On(ps[j], t)}
<1>1. \A j \in DOMAIN ps : ps[j] \in Pool
  BY DEF Pools
<1>2. ASSUME NEW p \in Pool PROVE IsActiveAt(p.schedule, t) <=> (p.schedule.enabled /\ p.schedule.windows # {} => \E w \in p.schedule.windows : WindowCovers(w, t))
  BY PoolAssumption, WindowsAgree DEF IsActiveAt
<1>. QED BY <1>1, <1>2 DEF Usable, On

-----------------------------------------------------------------------------
(* The tiers                                                               *)

LEMMA Least ==
    ASSUME NEW Z \in SUBSET Nat, Z # {}
    PROVE  Min(Z) \in Z /\ \A y \in Z : Min(Z) <= y
<1>1. PICK x \in Z : \A y \in Z : <<y, x>> \notin OpToRel(<, Nat)
  BY NatLessThanWellFounded, WFMin, Zenon
<1>2. \A y \in Z : <<y, x>> \notin OpToRel(<, Nat) => ~ (y < x)
  BY Zenon DEF OpToRel
<1>3. \A y \in Z : ~ (y < x) /\ x \in Nat /\ y \in Nat
  BY <1>1, <1>2
<1>4. x \in Z /\ \A y \in Z : x <= y
  BY <1>3
<1>. QED BY <1>4 DEF Min

LEMMA Greatest ==
    ASSUME NEW n \in Nat, NEW Z \in SUBSET (-1..n), Z # {}
    PROVE  Max(Z) \in Z /\ \A y \in Z : Max(Z) >= y
<1>. DEFINE T == {n - x : x \in Z}
<1>1. \A x \in Z : n - x \in Nat /\ x \in Int /\ x <= n
  OBVIOUS
<1>2. T \in SUBSET Nat /\ T # {}
  BY <1>1
<1>3. Min(T) \in T /\ \A c \in T : Min(T) <= c
  BY <1>2, Least
<1>4. PICK x \in Z : Min(T) = n - x
  BY <1>3
<1>5. ASSUME NEW y \in Z PROVE x >= y
  <2>1. n - y \in T
    OBVIOUS
  <2>2. n - x <= n - y
    BY <1>3, <1>4, <2>1
  <2>. QED BY <1>1, <2>2
<1>. QED BY <1>5 DEF Max

(* Within a tier a scheduled policy comes first, then the order of files.  *)
InFront(ps, i, j, tie) ==
    IF ps[i].schedule.enabled <=> ps[j].schedule.enabled THEN tie ELSE ps[i].schedule.enabled
Sooner(ps, i, j) == InFront(ps, i, j, i < j)

LEMMA FirstOfTier ==
    ASSUME NEW ps \in Pools, NEW Z \in SUBSET (DOMAIN ps)
    PROVE  /\ Z = {} => FirstOf(ps, Z) = 0
           /\ Z # {} => FirstOf(ps, Z) \in Z /\ \A j \in Z : j = FirstOf(ps, Z) \/ Sooner(ps, FirstOf(ps, Z), j)
<1>. DEFINE Y == IF Scheduled(ps, Z) = {} THEN Z ELSE Scheduled(ps, Z)
<1>1. DOMAIN ps \subseteq Nat \ {0}
  BY DEF Pools
<1>2. CASE Z # {}
  <2>1. Y # {} /\ Y \in SUBSET Nat /\ Y \subseteq Z
    BY <1>1, <1>2 DEF Scheduled
  <2>2. Min(Y) \in Y /\ \A y \in Y : Min(Y) <= y
    BY <2>1, Least
  <2>3. FirstOf(ps, Z) = Min(Y)
    BY <1>2 DEF FirstOf
  <2>4. \A j \in Z : j \in Nat /\ Min(Y) \in Nat
    BY <1>1, <2>1, <2>2
  <2>5. ASSUME NEW j \in Z PROVE j = Min(Y) \/ Sooner(ps, Min(Y), j)
    <3>1. CASE Scheduled(ps, Z) = {}
      <4>1. Min(Y) <= j /\ ~ps[j].schedule.enabled /\ ~ps[Min(Y)].schedule.enabled
        BY <2>1, <2>2, <3>1 DEF Scheduled
      <4>. QED BY <2>4, <4>1 DEF Sooner, InFront
    <3>2. CASE Scheduled(ps, Z) # {}
      <4>1. ps[Min(Y)].schedule.enabled /\ (ps[j].schedule.enabled => Min(Y) <= j)
        BY <2>1, <2>2, <3>2 DEF Scheduled
      <4>. QED BY <2>4, <4>1 DEF Sooner, InFront
    <3>. QED BY <3>1, <3>2
  <2>. QED BY <1>2, <2>1, <2>2, <2>3, <2>5
<1>. QED BY <1>2 DEF FirstOf

(* A network contains the addresses that share its prefix.                 *)
LEMMA ContainsCovers ==
    ASSUME NEW s \in [addr : Addrs, len : 0..Single], NEW a \in Addrs
    PROVE  Contains(s, a) <=> s.len # Single /\ Covers(s, a)
<1>1. Bits \in Nat /\ s.len \in Nat /\ s.len <= Bits + 1 /\ s.addr \in Nat /\ a \in Nat
  BY PoolAssumption DEF Addrs, Single
<1>2. CASE s.len = Single
  <2>1. ~(s.len <= Bits)
    BY <1>1, <1>2 DEF Single
  <2>. QED BY <1>2, <2>1, Zenon DEF Contains
<1>3. CASE s.len # Single
  <2>1. s.len <= Bits /\ Bits - s.len \in 0..Bits
    BY <1>1, <1>3 DEF Single
  <2>. DEFINE K == 2^(Bits - s.len)
  <2>2. K \in Nat \ {0}
    BY <2>1, PowersOfTwo
  <2>3. Contains(s, a) <=> s.addr \div K = a \div K
    BY <2>1 DEF Contains
  <2>4. Covers(s, a) <=> \E n \in 0..K - 1 : a = (s.addr \div K) * K + n
    BY DEF Covers
  <2>. HIDE DEF K
  <2>5. s.addr \div K \in Nat
    BY <1>1, <2>2, Quotient
  <2>6. a \div K \in Nat /\ a % K \in 0..K - 1 /\ a = K * (a \div K) + (a % K)
    BY <1>1, <2>2, Quotient
  <2>7. s.addr \div K = a \div K => \E n \in 0..K - 1 : a = (s.addr \div K) * K + n
    BY <2>2, <2>5, <2>6
  <2>8. ASSUME NEW n \in 0..K - 1, a = (s.addr \div K) * K + n PROVE s.addr \div K = a \div K
    <3>. DEFINE q == s.addr \div K
    <3>1. q \in Nat /\ a = q * K + n
      BY <2>5, <2>8
    <3>. HIDE DEF q
    <3>2. a \div K = q
      BY <1>1, <2>2, <3>1
    <3>. QED BY <3>2 DEF q
  <2>. QED BY <1>3, <2>3, <2>4, <2>7, <2>8
<1>. QED BY <1>2, <1>3

(* The prefix of a policy is the longest of its networks an address is in. *)
LEMMA PrefixOf ==
    ASSUME NEW p \in Pool, NEW a \in Addrs
    PROVE  /\ Prefix(p, a) \in -1..Bits
           /\ \A s \in p.sources : s.len # Single /\ Covers(s, a) => s.len \in 0..Prefix(p, a)
           /\ Prefix(p, a) >= 0 => \E s \in p.sources : s.len # Single /\ Covers(s, a) /\ s.len = Prefix(p, a)
<1>. DEFINE N == {s \in p.sources : Contains(s, a)}
<1>. DEFINE Z == {s.len : s \in N} \cup {-1}
<1>1. Bits \in Nat /\ p.sources \subseteq [addr : Addrs, len : 0..Single]
  BY PoolAssumption
<1>2. \A s \in p.sources : s.len \in Nat /\ s.len <= Bits + 1 /\ (Contains(s, a) <=> s.len # Single /\ Covers(s, a))
  BY <1>1, ContainsCovers DEF Single
<1>3. \A s \in N : s.len \in 0..Bits
  BY <1>1, <1>2 DEF Single
<1>4. Z \in SUBSET (-1..Bits) /\ Z # {}
  BY <1>1, <1>3
<1>5. Prefix(p, a) = Max(Z)
  BY DEF Prefix
<1>. HIDE DEF Z
<1>6. Max(Z) \in Z /\ \A y \in Z : Max(Z) >= y
  BY <1>1, <1>4, Greatest
<1>7. Max(Z) \in -1..Bits
  BY <1>4, <1>6
<1>8. \A s \in p.sources : s.len # Single /\ Covers(s, a) => s.len \in 0..Max(Z)
  <2>. SUFFICES ASSUME NEW s \in p.sources, s.len # Single, Covers(s, a) PROVE s.len \in 0..Max(Z)
    OBVIOUS
  <2>1. s \in N
    BY <1>2
  <2>2. s.len \in Z
    BY <2>1 DEF Z
  <2>. QED BY <1>2, <1>6, <1>7, <2>2
<1>9. Max(Z) >= 0 => \E s \in p.sources : s.len # Single /\ Covers(s, a) /\ s.len = Max(Z)
  <2>. SUFFICES ASSUME Max(Z) >= 0 PROVE \E s \in p.sources : s.len # Single /\ Covers(s, a) /\ s.len = Max(Z)
    OBVIOUS
  <2>1. Max(Z) # -1
    BY <1>7
  <2>2. PICK s \in N : s.len = Max(Z)
    BY <1>6, <2>1 DEF Z
  <2>. QED BY <1>2, <2>2
<1>. QED BY <1>5, <1>7, <1>8, <1>9

(* Among networks the longer prefix comes first, then the order of files.  *)
Nearer(ps, a, i, j) ==
    \/ Prefix(ps[j], a) < Prefix(ps[i], a)
    \/ Prefix(ps[j], a) = Prefix(ps[i], a) /\ i <= j

LEMMA LongestOf ==
    ASSUME NEW ps \in Pools, NEW Z \in SUBSET (DOMAIN ps), Z # {}, NEW a \in Addrs
    PROVE  LET i == Longest(ps, Z, a)
           IN  i \in Z /\ \A j \in Z : Nearer(ps, a, i, j)
<1>. DEFINE F == {Prefix(ps[i], a) : i \in Z}
<1>. DEFINE B == {i \in Z : Prefix(ps[i], a) = Max(F)}
<1>1. Bits \in Nat /\ \A j \in Z : ps[j] \in Pool /\ j \in Nat
  BY PoolAssumption DEF Pools
<1>2. \A j \in Z : Prefix(ps[j], a) \in -1..Bits
  BY <1>1, PrefixOf
<1>3. F \in SUBSET (-1..Bits) /\ F # {}
  BY <1>2
<1>4. Max(F) \in F /\ \A y \in F : Max(F) >= y
  BY <1>1, <1>3, Greatest
<1>5. B # {} /\ B \in SUBSET Nat
  BY <1>1, <1>4
<1>6. Min(B) \in B /\ \A y \in B : Min(B) <= y
  BY <1>5, Least
<1>7. Longest(ps, Z, a) = Min(B)
  BY DEF Longest
<1>8. ASSUME NEW j \in Z
      PROVE  Nearer(ps, a, Min(B), j)
  <2>1. Prefix(ps[Min(B)], a) = Max(F) /\ Prefix(ps[j], a) <= Max(F)
    BY <1>4, <1>6
  <2>2. Prefix(ps[j], a) = Max(F) => Min(B) <= j
    BY <1>6
  <2>3. Max(F) \in -1..Bits /\ Prefix(ps[j], a) \in -1..Bits
    BY <1>2, <1>3, <1>4
  <2>. QED BY <2>1, <2>2, <2>3 DEF Nearer
<1>9. Min(B) \in Z
  BY <1>6
<1>. HIDE DEF B
<1>. QED BY <1>7, <1>8, <1>9, Zenon

Networked(ps, t, a) == {i \in Usable(ps, t) : Prefix(ps[i], a) >= 0}
LEMMA ByNetworkIs ==
    ASSUME NEW ps \in Pools, NEW t \in Slots, NEW a \in Addrs
    PROVE  LET i == ByNetwork(ps, t, a)
           IN  /\ Networked(ps, t, a) = {} => i = 0
               /\ Networked(ps, t, a) # {} => i \in Networked(ps, t, a)
               /\ \A j \in Networked(ps, t, a) : InFront(ps, i, j, Nearer(ps, a, i, j))
<1>. DEFINE Z == Networked(ps, t, a)
<1>1. ByNetwork(ps, t, a) =
          IF Z = {} THEN 0
          ELSE IF Scheduled(ps, Z) # {} THEN Longest(ps, Scheduled(ps, Z), a) ELSE Longest(ps, Z, a)
  BY DEF ByNetwork, Networked
<1>2. Z \in SUBSET (DOMAIN ps) /\ Scheduled(ps, Z) \in SUBSET (DOMAIN ps)
  BY DEF Networked, Usable, Scheduled
<1>. HIDE DEF Z
<1>3. CASE Z # {} /\ Scheduled(ps, Z) # {}
  <2>. DEFINE i == Longest(ps, Scheduled(ps, Z), a)
  <2>1. /\ i \in Scheduled(ps, Z)
        /\ \A j \in Scheduled(ps, Z) : Nearer(ps, a, i, j)
    BY <1>2, <1>3, LongestOf
  <2>2. ByNetwork(ps, t, a) = i
    BY <1>1, <1>3
  <2>. HIDE DEF i
  <2>. QED BY <1>3, <2>1, <2>2 DEF Scheduled, Z, InFront
<1>4. CASE Z # {} /\ Scheduled(ps, Z) = {}
  <2>. DEFINE i == Longest(ps, Z, a)
  <2>1. i \in Z /\ \A j \in Z : Nearer(ps, a, i, j)
    BY <1>2, <1>4, LongestOf
  <2>2. ByNetwork(ps, t, a) = i
    BY <1>1, <1>4
  <2>. HIDE DEF i
  <2>. QED BY <1>4, <2>1, <2>2 DEF Scheduled, Z, InFront
<1>. QED BY <1>1, <1>3, <1>4 DEF Z

(* The first tier that has a policy decides.                               *)
LEMMA MatchPolicyIs ==
    ASSUME NEW ps, NEW t, NEW a, NEW mac
    PROVE  LET t1 == ByMac(ps, t, mac)
               t2 == ByAddress(ps, t, a)
               t3 == ByNetwork(ps, t, a)
           IN  MatchPolicy(ps, t, a, mac) =
                  IF t1 # 0 THEN t1 ELSE IF t2 # 0 THEN t2 ELSE IF t3 # 0 THEN t3 ELSE ByDefault(ps, t)
<1>. DEFINE tier == <<ByMac(ps, t, mac), ByAddress(ps, t, a), ByNetwork(ps, t, a), ByDefault(ps, t)>>
<1>. DEFINE hits == {k \in 1..4 : tier[k] # 0}
<1>1. MatchPolicy(ps, t, a, mac) = IF hits = {} THEN 0 ELSE tier[Min(hits)]
  BY DEF MatchPolicy
<1>2. /\ tier[1] = ByMac(ps, t, mac) /\ tier[2] = ByAddress(ps, t, a)
      /\ tier[3] = ByNetwork(ps, t, a) /\ tier[4] = ByDefault(ps, t)
  OBVIOUS
<1>. HIDE DEF tier
<1>3. hits = {} => tier[1] = 0 /\ tier[2] = 0 /\ tier[3] = 0 /\ tier[4] = 0
  OBVIOUS
<1>4. ASSUME hits # {} PROVE Min(hits) \in hits /\ \A k \in hits : Min(hits) <= k
  BY <1>4, Least
<1>5. ASSUME hits # {}
      PROVE  tier[Min(hits)] = IF tier[1] # 0 THEN tier[1] ELSE IF tier[2] # 0 THEN tier[2] ELSE IF tier[3] # 0 THEN tier[3] ELSE tier[4]
  <2>. DEFINE m == Min(hits)
  <2>1. m \in 1..4 /\ tier[m] # 0 /\ \A k \in 1..4 : k < m => tier[k] = 0
    BY <1>4, <1>5
  <2>. HIDE DEF m
  <2>2. m = 1 \/ m = 2 \/ m = 3 \/ m = 4
    BY <2>1
  <2>3. tier[m] = IF tier[1] # 0 THEN tier[1] ELSE IF tier[2] # 0 THEN tier[2] ELSE IF tier[3] # 0 THEN tier[3] ELSE tier[4]
    BY <2>1, <2>2
  <2>. QED BY <2>3 DEF m
<1>. QED BY <1>1, <1>2, <1>3, <1>5

-----------------------------------------------------------------------------
(* The right policy                                                        *)

(* What puts one rank before another.                                      *)
LEMMA RankBefore ==
    ASSUME NEW p, NEW q, NEW k \in 1..4, NEW m \in 1..4, NEW l \in Nat, NEW n \in Nat, NEW i \in Nat, NEW j \in Nat
    PROVE  LET x == Rank(p, k, l, i)
               y == Rank(q, m, n, j)
               same == p.schedule.enabled <=> q.schedule.enabled
           IN  /\ k < m => Before(x, y)
               /\ k = m /\ p.schedule.enabled /\ ~q.schedule.enabled => Before(x, y)
               /\ k = m /\ same /\ l > n => Before(x, y)
               /\ k = m /\ same /\ l = n /\ i < j => Before(x, y)
               /\ k = m /\ same /\ l = n /\ i = j => x = y
<1>. DEFINE x == Rank(p, k, l, i)
<1>. DEFINE y == Rank(q, m, n, j)
<1>1. /\ x[1] = k /\ x[2] = (IF p.schedule.enabled THEN 0 ELSE 1) /\ x[3] = -l /\ x[4] = i
      /\ y[1] = m /\ y[2] = (IF q.schedule.enabled THEN 0 ELSE 1) /\ y[3] = -n /\ y[4] = j
  BY DEF Rank
<1>2. (p.schedule.enabled <=> q.schedule.enabled) /\ k = m /\ l = n /\ i = j => x = y
  BY DEF Rank
<1>. HIDE DEF x, y
<1>3. ASSUME NEW h \in 1..4, x[h] < y[h], \A g \in 1..h - 1 : x[g] = y[g] PROVE Before(x, y)
  BY <1>3 DEF Before
<1>4. k < m => Before(x, y)
  <2>. SUFFICES ASSUME k < m PROVE Before(x, y)
    OBVIOUS
  <2>. QED BY <1>1, <1>3
<1>5. k = m /\ p.schedule.enabled /\ ~q.schedule.enabled => Before(x, y)
  <2>. SUFFICES ASSUME k = m, p.schedule.enabled, ~q.schedule.enabled PROVE Before(x, y)
    OBVIOUS
  <2>1. x[2] < y[2] /\ \A g \in 1..2 - 1 : x[g] = y[g]
    BY <1>1
  <2>. QED BY <1>3, <2>1
<1>6. k = m /\ (p.schedule.enabled <=> q.schedule.enabled) /\ l > n => Before(x, y)
  <2>. SUFFICES ASSUME k = m, p.schedule.enabled <=> q.schedule.enabled, l > n PROVE Before(x, y)
    OBVIOUS
  <2>1. x[3] < y[3] /\ \A g \in 1..3 - 1 : x[g] = y[g]
    BY <1>1
  <2>. QED BY <1>3, <2>1
<1>7. k = m /\ (p.schedule.enabled <=> q.schedule.enabled) /\ l = n /\ i < j => Before(x, y)
  <2>. SUFFICES ASSUME k = m, p.schedule.enabled <=> q.schedule.enabled, l = n, i < j PROVE Before(x, y)
    OBVIOUS
  <2>1. x[4] < y[4] /\ \A g \in 1..4 - 1 : x[g] = y[g]
    BY <1>1
  <2>. QED BY <1>3, <2>1
<1>. QED BY <1>2, <1>4, <1>5, <1>6, <1>7 DEF x, y

(* The policies that are on and fit in some tier.                          *)
Tier(ps, t, a, mac, k) ==
    CASE k = 1 -> {i \in Usable(ps, t) : mac # NoMac /\ mac \in ps[i].macs}
      [] k = 2 -> {i \in Usable(ps, t) : [addr |-> a, len |-> Single] \in ps[i].sources}
      [] k = 3 -> Networked(ps, t, a)
      [] k = 4 -> {i \in Usable(ps, t) : ps[i].sources = {}}
Length(ps, a, k, i) == IF k = 3 THEN Prefix(ps[i], a) ELSE 0

(* How well a policy fits is bounded by its place in a tier, and there is  *)
(* nothing to it that is not such a place.                                 *)
LEMMA FitsInTier ==
    ASSUME NEW ps \in Pools, NEW t \in Slots, NEW a \in Addrs, NEW mac, NEW i \in Usable(ps, t)
    PROVE  /\ \A k \in 1..4 : i \in Tier(ps, t, a, mac, k) => Rank(ps[i], k, Length(ps, a, k, i), i) \in Fits(ps[i], i, a, mac)
           /\ \A y \in Fits(ps[i], i, a, mac) :
                 \E k \in 1..4, n \in Nat : /\ i \in Tier(ps, t, a, mac, k) /\ y = Rank(ps[i], k, n, i)
                                           /\ n <= Length(ps, a, k, i) /\ (k # 3 => n = 0)
<1>. DEFINE p == ps[i]
<1>1. p \in Pool
  BY DEF Usable, Pools
<1>2. Bits \in Nat /\ p.sources \subseteq [addr : Addrs, len : 0..Single]
  BY <1>1, PoolAssumption
<1>3. /\ Prefix(p, a) \in -1..Bits
      /\ \A s \in p.sources : s.len # Single /\ Covers(s, a) => s.len \in 0..Prefix(p, a)
      /\ Prefix(p, a) >= 0 => \E s \in p.sources : s.len # Single /\ Covers(s, a) /\ s.len = Prefix(p, a)
  BY <1>1, PrefixOf
<1>4. \A s \in p.sources : s.len = Single /\ s.addr = a <=> s = [addr |-> a, len |-> Single]
  BY <1>2
<1>5. Fits(p, i, a, mac) =
        (IF mac # NoMac /\ mac \in p.macs THEN {Rank(p, 1, 0, i)} ELSE {})
        \cup {Rank(p, 2, 0, i) : s \in {s \in p.sources : s.len = Single /\ s.addr = a}}
        \cup {Rank(p, 3, s.len, i) : s \in {s \in p.sources : s.len # Single /\ Covers(s, a)}}
        \cup (IF p.sources = {} THEN {Rank(p, 4, 0, i)} ELSE {})
  BY DEF Fits
<1>6. /\ i \in Tier(ps, t, a, mac, 1) <=> mac # NoMac /\ mac \in p.macs
      /\ i \in Tier(ps, t, a, mac, 2) <=> [addr |-> a, len |-> Single] \in p.sources
      /\ i \in Tier(ps, t, a, mac, 3) <=> Prefix(p, a) >= 0
      /\ i \in Tier(ps, t, a, mac, 4) <=> p.sources = {}
  BY DEF Tier, Networked
<1>7. /\ Length(ps, a, 1, i) = 0 /\ Length(ps, a, 2, i) = 0
      /\ Length(ps, a, 3, i) = Prefix(p, a) /\ Length(ps, a, 4, i) = 0
  BY DEF Length
<1>. HIDE DEF p
<1>8. /\ i \in Tier(ps, t, a, mac, 1) => Rank(p, 1, 0, i) \in Fits(p, i, a, mac)
      /\ i \in Tier(ps, t, a, mac, 2) => Rank(p, 2, 0, i) \in Fits(p, i, a, mac)
      /\ i \in Tier(ps, t, a, mac, 3) => Rank(p, 3, Prefix(p, a), i) \in Fits(p, i, a, mac)
      /\ i \in Tier(ps, t, a, mac, 4) => Rank(p, 4, 0, i) \in Fits(p, i, a, mac)
  BY <1>3, <1>4, <1>5, <1>6
<1>9. \A k \in 1..4 : k = 1 \/ k = 2 \/ k = 3 \/ k = 4
  OBVIOUS
<1>10. \A k \in 1..4 : i \in Tier(ps, t, a, mac, k) => Rank(p, k, Length(ps, a, k, i), i) \in Fits(p, i, a, mac)
  BY <1>7, <1>8, <1>9
<1>11. ASSUME NEW y \in Fits(p, i, a, mac)
       PROVE  \E k \in 1..4, n \in Nat : /\ i \in Tier(ps, t, a, mac, k) /\ y = Rank(p, k, n, i)
                                       /\ n <= Length(ps, a, k, i) /\ (k # 3 => n = 0)
  <2>1. CASE mac # NoMac /\ mac \in p.macs /\ y = Rank(p, 1, 0, i)
    BY <1>6, <1>7, <2>1
  <2>2. CASE y = Rank(p, 2, 0, i) /\ \E s \in p.sources : s.len = Single /\ s.addr = a
    BY <1>4, <1>6, <1>7, <2>2
  <2>3. CASE \E s \in p.sources : s.len # Single /\ Covers(s, a) /\ y = Rank(p, 3, s.len, i)
    <3>1. PICK s \in p.sources : s.len # Single /\ Covers(s, a) /\ y = Rank(p, 3, s.len, i)
      BY <2>3
    <3>2. s.len \in Nat /\ s.len <= Prefix(p, a) /\ Prefix(p, a) >= 0
      BY <1>3, <3>1
    <3>. QED BY <1>6, <1>7, <3>1, <3>2
  <2>4. CASE p.sources = {} /\ y = Rank(p, 4, 0, i)
    BY <1>6, <1>7, <2>4
  <2>. QED BY <1>5, <2>1, <2>2, <2>3, <2>4
<1>. QED BY <1>10, <1>11 DEF p

(* The policy that a tier chooses, and that nothing in the tier is before. *)
LEMMA TierChooses ==
    ASSUME NEW ps \in Pools, NEW t \in Slots, NEW a \in Addrs, NEW mac, NEW k \in 1..4
    PROVE  LET i == CASE k = 1 -> ByMac(ps, t, mac) [] k = 2 -> ByAddress(ps, t, a)
                      [] k = 3 -> ByNetwork(ps, t, a) [] k = 4 -> ByDefault(ps, t)
               Z == Tier(ps, t, a, mac, k)
           IN  /\ Z = {} => i = 0
               /\ Z # {} => i \in Z
               /\ \A j \in Z : InFront(ps, i, j, IF k = 3 THEN Nearer(ps, a, i, j) ELSE i <= j)
<1>. DEFINE Z == Tier(ps, t, a, mac, k)
<1>1. k = 1 \/ k = 2 \/ k = 3 \/ k = 4
  OBVIOUS
<1>2. ASSUME NEW Y \in SUBSET (DOMAIN ps)
      PROVE  LET i == FirstOf(ps, Y)
             IN  /\ Y = {} => i = 0
                 /\ Y # {} => i \in Y
                 /\ \A j \in Y : InFront(ps, i, j, i <= j)
  <2>1. DOMAIN ps \subseteq Nat
    BY DEF Pools
  <2>2. CASE Y # {}
    <3>. DEFINE i == FirstOf(ps, Y)
    <3>1. i \in Y /\ \A j \in Y : j = i \/ Sooner(ps, i, j)
      BY <2>2, FirstOfTier
    <3>. HIDE DEF i
    <3>2. \A j \in Y : InFront(ps, i, j, i <= j)
      BY <2>1, <3>1 DEF Sooner, InFront
    <3>. QED BY <2>2, <3>1, <3>2 DEF i
  <2>. QED BY <2>2, FirstOfTier
<1>3. Usable(ps, t) \subseteq DOMAIN ps
  BY DEF Usable
<1>4. CASE k = 1
  <2>1. Z = {i \in Usable(ps, t) : mac # NoMac /\ mac \in ps[i].macs}
    BY <1>4 DEF Tier
  <2>2. CASE mac = NoMac
    <3>1. Z = {} /\ ByMac(ps, t, mac) = 0
      BY <2>1, <2>2 DEF ByMac
    <3>. QED BY <1>4, <3>1
  <2>3. CASE mac # NoMac
    <3>1. ByMac(ps, t, mac) = FirstOf(ps, Z)
      <4>1. Z = {i \in Usable(ps, t) : mac \in ps[i].macs}
        BY <2>1, <2>3
      <4>. QED BY <2>3, <4>1 DEF ByMac
    <3>2. Z \in SUBSET (DOMAIN ps)
      BY <1>3, <2>1
    <3>. HIDE DEF Z
    <3>. QED BY <1>2, <1>4, <3>1, <3>2 DEF Z
  <2>. QED BY <2>2, <2>3
<1>5. CASE k = 2
  <2>1. Z = {i \in Usable(ps, t) : [addr |-> a, len |-> Single] \in ps[i].sources}
    BY <1>5 DEF Tier
  <2>2. ByAddress(ps, t, a) = FirstOf(ps, Z) /\ Z \in SUBSET (DOMAIN ps)
    BY <1>3, <2>1 DEF ByAddress
  <2>. HIDE DEF Z
  <2>. QED BY <1>2, <1>5, <2>2 DEF Z
<1>6. CASE k = 3
  <2>1. Z = Networked(ps, t, a)
    BY <1>6 DEF Tier
  <2>. HIDE DEF Z
  <2>. QED BY <1>6, <2>1, ByNetworkIs DEF Z
<1>7. CASE k = 4
  <2>1. Z = {i \in Usable(ps, t) : ps[i].sources = {}}
    BY <1>7 DEF Tier
  <2>2. ByDefault(ps, t) = FirstOf(ps, Z) /\ Z \in SUBSET (DOMAIN ps)
    BY <1>3, <2>1 DEF ByDefault
  <2>. HIDE DEF Z
  <2>. QED BY <1>2, <1>7, <2>2 DEF Z
<1>. QED BY <1>1, <1>4, <1>5, <1>6, <1>7

LEMMA RightPolicyHolds == policies \in Pools /\ slot \in Slots => RightPolicy
<1>. SUFFICES ASSUME policies \in Pools, slot \in Slots, NEW a \in Addrs, NEW mac \in Macs \cup {NoMac}
     PROVE  LET all == UNION {Fits(policies[i], i, a, mac) : i \in {j \in DOMAIN policies : On(policies[j], slot)}}
                got == MatchPolicy(policies, slot, a, mac)
            IN  IF got = 0 THEN all = {}
                ELSE \E x \in all : x[4] = got /\ \A y \in all : y = x \/ Before(x, y)
  BY DEF RightPolicy
<1>. DEFINE ps == policies
<1>. DEFINE U == Usable(ps, slot)
<1>. DEFINE all == UNION {Fits(ps[i], i, a, mac) : i \in U}
<1>. DEFINE got == MatchPolicy(ps, slot, a, mac)
<1>. DEFINE Z(k) == Tier(ps, slot, a, mac, k)
<1>. DEFINE Of(k) == CASE k = 1 -> ByMac(ps, slot, mac) [] k = 2 -> ByAddress(ps, slot, a)
                       [] k = 3 -> ByNetwork(ps, slot, a) [] k = 4 -> ByDefault(ps, slot)
<1>1. U = {j \in DOMAIN ps : On(ps[j], slot)} /\ U \subseteq Nat \ {0}
  <2>1. DOMAIN ps \subseteq Nat \ {0}
    BY DEF Pools
  <2>. QED BY <2>1, UsableAreOn
<1>2. \A k \in 1..4 :
         /\ Z(k) \subseteq U
         /\ Z(k) = {} => Of(k) = 0
         /\ Z(k) # {} => Of(k) \in Z(k)
         /\ \A j \in Z(k) : InFront(ps, Of(k), j, IF k = 3 THEN Nearer(ps, a, Of(k), j) ELSE Of(k) <= j)
  <2>. TAKE k \in 1..4
  <2>1. Z(k) \subseteq U
    BY DEF Tier, Networked
  <2>. QED BY <2>1, TierChooses
<1>3. got = IF Of(1) # 0 THEN Of(1) ELSE IF Of(2) # 0 THEN Of(2) ELSE IF Of(3) # 0 THEN Of(3) ELSE Of(4)
  <2>1. Of(1) = ByMac(ps, slot, mac) /\ Of(2) = ByAddress(ps, slot, a) /\ Of(3) = ByNetwork(ps, slot, a) /\ Of(4) = ByDefault(ps, slot)
    OBVIOUS
  <2>. HIDE DEF Of
  <2>. QED BY <2>1, MatchPolicyIs
<1>4. \A i \in U, k \in 1..4 : i \in Z(k) => Rank(ps[i], k, Length(ps, a, k, i), i) \in all
  BY FitsInTier
<1>5. ASSUME NEW y \in all
      PROVE  \E i \in U, k \in 1..4, n \in Nat : /\ i \in Z(k) /\ y = Rank(ps[i], k, n, i)
                                              /\ n <= Length(ps, a, k, i) /\ (k # 3 => n = 0)
  <2>1. PICK i \in U : y \in Fits(ps[i], i, a, mac)
    OBVIOUS
  <2>2. PICK k \in 1..4, n \in Nat : /\ i \in Z(k) /\ y = Rank(ps[i], k, n, i)
                                   /\ n <= Length(ps, a, k, i) /\ (k # 3 => n = 0)
    BY <2>1, FitsInTier
  <2>. QED BY <2>2
<1>6. \A i \in U : Prefix(ps[i], a) \in Int /\ (i \in Z(3) => Prefix(ps[i], a) \in Nat)
  <2>1. \A i \in U : ps[i] \in Pool
    BY <1>1 DEF Pools
  <2>2. \A i \in Z(3) : Prefix(ps[i], a) >= 0
    BY DEF Tier, Networked
  <2>. QED BY <2>1, <2>2, PrefixOf, PoolAssumption
<1>. HIDE DEF all, got, Z, Of, U
<1>7. ASSUME NEW k \in 1..4, Of(k) # 0, got = Of(k), \A m \in 1..k - 1 : Of(m) = 0
      PROVE  \E x \in all : x[4] = got /\ \A y \in all : y = x \/ Before(x, y)
  <2>. DEFINE i == Of(k)
  <2>. DEFINE len == Length(ps, a, k, i)
  <2>. DEFINE x == Rank(ps[i], k, len, i)
  <2>1. i \in Z(k) /\ i \in U /\ i \in Nat
    BY <1>1, <1>2, <1>7
  <2>2. len \in Nat
    BY <1>6, <2>1 DEF Length
  <2>3. x \in all /\ x[4] = got
    BY <1>4, <1>7, <2>1 DEF Rank
  <2>4. ASSUME NEW y \in all PROVE y = x \/ Before(x, y)
    <3>1. PICK j \in U, m \in 1..4, n \in Nat :
             /\ j \in Z(m) /\ y = Rank(ps[j], m, n, j)
             /\ n <= Length(ps, a, m, j) /\ (m # 3 => n = 0)
      BY <1>5
    <3>2. j \in Nat
      BY <1>1
    <3>3. m >= k
      <4>1. Of(m) # 0
        BY <1>1, <1>2, <3>1
      <4>. QED BY <1>7, <4>1
    <3>4. /\ k < m => Before(x, y)
          /\ k = m /\ ps[i].schedule.enabled /\ ~ps[j].schedule.enabled => Before(x, y)
          /\ k = m /\ (ps[i].schedule.enabled <=> ps[j].schedule.enabled) =>
                 /\ len > n \/ (len = n /\ i < j) => Before(x, y)
                 /\ len = n /\ i = j => x = y
      <4>. HIDE DEF i, len
      <4>. QED BY <2>1, <2>2, <3>1, <3>2, RankBefore
    <3>. HIDE DEF x
    <3>5. CASE m = k
      <4>1. InFront(ps, i, j, IF k = 3 THEN Nearer(ps, a, i, j) ELSE i <= j)
        BY <1>2, <3>1, <3>5
      <4>2. CASE k = 3
        <5>1. len = Prefix(ps[i], a) /\ n <= Prefix(ps[j], a) /\ Prefix(ps[j], a) \in Int
          BY <1>6, <3>1, <3>5, <4>2 DEF Length
        <5>2. Nearer(ps, a, i, j) => len > n \/ (len = n /\ i <= j)
          BY <2>2, <5>1 DEF Nearer
        <5>. HIDE DEF i, len
        <5>3. len > n \/ (len = n /\ i <= j) => len > n \/ (len = n /\ i < j) \/ (len = n /\ i = j)
          BY <2>1, <3>2
        <5>. QED BY <3>4, <3>5, <4>1, <4>2, <5>2, <5>3 DEF InFront
      <4>3. CASE k # 3
        <5>1. len = 0 /\ n = 0
          BY <3>1, <3>5, <4>3 DEF Length
        <5>. HIDE DEF i, len
        <5>2. i <= j => i < j \/ i = j
          BY <2>1, <3>2
        <5>. QED BY <3>4, <3>5, <4>1, <4>3, <5>1, <5>2 DEF InFront
      <4>. QED BY <4>2, <4>3
    <3>6. m > k \/ m = k
      BY <3>3
    <3>. QED BY <3>4, <3>5, <3>6
  <2>. HIDE DEF x
  <2>. QED BY <2>3, <2>4
<1>8. ASSUME got = 0 PROVE all = {}
  <2>1. Of(1) = 0 /\ Of(2) = 0 /\ Of(3) = 0 /\ Of(4) = 0
    BY <1>3, <1>8
  <2>2. \A k \in 1..4 : Of(k) = 0
    <3>1. \A k \in 1..4 : k = 1 \/ k = 2 \/ k = 3 \/ k = 4
      OBVIOUS
    <3>. QED BY <2>1, <3>1
  <2>3. \A k \in 1..4 : Z(k) = {}
    BY <1>1, <1>2, <2>2
  <2>. QED BY <1>5, <2>3
<1>9. ASSUME got # 0 PROVE \E k \in 1..4 : Of(k) # 0 /\ got = Of(k) /\ \A m \in 1..k - 1 : Of(m) = 0
  <2>1. CASE Of(1) # 0
    BY <1>3, <2>1
  <2>2. CASE Of(1) = 0 /\ Of(2) # 0
    <3>1. \A m \in 1..2 - 1 : m = 1
      OBVIOUS
    <3>. QED BY <1>3, <2>2, <3>1
  <2>3. CASE Of(1) = 0 /\ Of(2) = 0 /\ Of(3) # 0
    <3>1. \A m \in 1..3 - 1 : m = 1 \/ m = 2
      OBVIOUS
    <3>. QED BY <1>3, <2>3, <3>1
  <2>4. CASE Of(1) = 0 /\ Of(2) = 0 /\ Of(3) = 0
    <3>1. \A m \in 1..4 - 1 : m = 1 \/ m = 2 \/ m = 3
      OBVIOUS
    <3>. QED BY <1>3, <1>9, <2>4, <3>1
  <2>. QED BY <2>1, <2>2, <2>3, <2>4
<1>10. IF got = 0 THEN all = {} ELSE \E x \in all : x[4] = got /\ \A y \in all : y = x \/ Before(x, y)
  BY <1>7, <1>8, <1>9
<1>. QED BY <1>1, <1>10 DEF all, got

-----------------------------------------------------------------------------
(* The neighbour table                                                     *)

Device == Macs \cup {NoMac}
MatchTypes ==
    /\ policies \in Pools /\ slot \in Slots
    /\ table \in [Addrs -> Device] /\ cache \in [Addrs -> Device] \cup {NoTable}
    /\ age \in 0..Forever /\ since \in [Addrs -> [Macs -> 0..Forever]]

(* Nothing has passed since a device was where it is.                      *)
PresentNow == \A a \in Addrs : table[a] # NoMac => since[a][table[a]] = 0

MatchInv == MatchTypes /\ PresentNow /\ DeviceFollowed

(* Whatever command answers, and for whichever addresses, a row that names *)
(* a device names the one at the address.                                  *)
LEMMA RowsAreTrue ==
    ASSUME table \in [Addrs -> Device], NEW c \in RawScan(table)
    PROVE  c \in [Addrs -> Device] /\ \A a \in Addrs : c[a] = NoMac \/ c[a] = table[a]
<1>1. \A S : Rows(table, S) \in [Addrs -> Device] /\ \A a \in Addrs : Rows(table, S)[a] = NoMac \/ Rows(table, S)[a] = table[a]
  BY DEF Rows, Device
<1>2. Empty \in [Addrs -> Device] /\ \A a \in Addrs : Empty[a] = NoMac
  BY DEF Empty, Device
<1>3. CASE c \in ScanLinux(table)
  BY <1>1, <1>2, <1>3 DEF ScanLinux, ParseLinuxIPNeigh, ParseProcNetARP
<1>4. CASE c \in ScanPair(table)
  <2>1. PICK arp \in {ParseARP(table), Empty}, ndp \in {ParseNDP(table), Empty} :
           c = [a \in Addrs |-> IF arp[a] # NoMac THEN arp[a] ELSE ndp[a]]
    BY <1>4 DEF ScanPair
  <2>2. /\ arp \in [Addrs -> Device] /\ \A a \in Addrs : arp[a] = NoMac \/ arp[a] = table[a]
        /\ ndp \in [Addrs -> Device] /\ \A a \in Addrs : ndp[a] = NoMac \/ ndp[a] = table[a]
    BY <1>1, <1>2 DEF ParseARP, ParseNDP
  <2>. QED BY <2>1, <2>2
<1>. QED BY <1>3, <1>4 DEF RawScan

LEMMA MatchInit == Init => MatchInv
<1>. SUFFICES ASSUME Init PROVE MatchInv
  OBVIOUS
<1>1. TTL \in Nat /\ Forever \in Nat /\ Forever \in 0..Forever /\ 0 \in 0..Forever
  BY PoolAssumption DEF Forever
<1>2. MatchTypes
  BY <1>1 DEF Init, MatchTypes, Pools, Slots, Device
<1>3. PresentNow
  BY <1>2 DEF Init, PresentNow, MatchTypes, Device
<1>4. DeviceFollowed
  BY DEF Init, DeviceFollowed
<1>. QED BY <1>2, <1>3, <1>4 DEF MatchInv

LEMMA SlotsTurn == slot \in Slots => (slot + 1) % (Days * PerDay) \in Slots
<1>. SUFFICES ASSUME slot \in Slots PROVE (slot + 1) % (Days * PerDay) \in Slots
  OBVIOUS
<1>. DEFINE W == Days * PerDay
<1>1. W \in Nat \ {0}
  BY WholeDays, PoolAssumption
<1>2. slot + 1 \in Nat
  BY <1>1 DEF Slots
<1>. HIDE DEF W
<1>3. (slot + 1) % W \in 0..W - 1
  BY <1>1, <1>2
<1>. QED BY <1>3 DEF Slots, W

LEMMA MatchNext == MatchInv /\ [Next]_vars => MatchInv'
<1>. SUFFICES ASSUME MatchInv, [Next]_vars PROVE MatchInv'
  OBVIOUS
<1>. USE DEF MatchInv
<1>0. TTL \in Nat /\ Forever = TTL + 1 /\ 0 \in 0..Forever
  BY PoolAssumption DEF Forever
<1>o. \A n \in 0..Forever : Older(n) \in 0..Forever /\ (Older(n) <= TTL => n < Forever /\ Older(n) = n + 1)
  BY <1>0 DEF Older
<1>1. CASE Tick
  <2>1. MatchTypes'
    BY <1>1, <1>0, <1>o, SlotsTurn DEF Tick, MatchTypes
  <2>2. PresentNow'
    BY <1>1 DEF Tick, PresentNow, MatchTypes, Device
  <2>3. DeviceFollowed'
    <3>. SUFFICES ASSUME age' <= TTL, cache' # NoTable, NEW a \in Addrs, cache'[a] # NoMac
         PROVE  since'[a][cache'[a]] <= age'
      BY DEF DeviceFollowed
    <3>1. age \in 0..Forever /\ age <= TTL /\ age' = age + 1 /\ cache' = cache /\ cache[a] \in Macs
      BY <1>1, <1>0, <1>o DEF Tick, MatchTypes, Device
    <3>2. since[a][cache[a]] <= age /\ since[a][cache[a]] \in 0..Forever
      BY <3>1 DEF DeviceFollowed, MatchTypes
    <3>3. since'[a][cache[a]] = 0 \/ since'[a][cache[a]] = Older(since[a][cache[a]])
      BY <1>1, <3>1 DEF Tick
    <3>. HIDE DEF MatchInv
    <3>4. Older(since[a][cache[a]]) = since[a][cache[a]] + 1
      BY <1>0, <3>1, <3>2 DEF Older
    <3>. QED BY <1>0, <3>1, <3>2, <3>3, <3>4
  <2>. QED BY <2>1, <2>2, <2>3
<1>2. CASE GetPolicy
  <2>1. UNCHANGED <<policies, slot, table, since>>
    BY <1>2 DEF GetPolicy, clientVars
  <2>2. CASE Expired
    <3>1. age' = 0 /\ cache' \in RawScan(table)
      BY <1>2, <2>2 DEF GetPolicy, Lookup
    <3>2. cache' \in [Addrs -> Device] /\ \A a \in Addrs : cache'[a] = NoMac \/ cache'[a] = table[a]
      BY <3>1, RowsAreTrue DEF MatchTypes
    <3>3. MatchTypes' /\ PresentNow'
      BY <1>0, <2>1, <3>1, <3>2 DEF MatchTypes, PresentNow
    <3>4. DeviceFollowed'
      BY <2>1, <3>1, <3>2 DEF DeviceFollowed, PresentNow
    <3>. QED BY <3>3, <3>4
  <2>3. CASE ~Expired
    <3>1. UNCHANGED <<cache, age>>
      BY <1>2, <2>3 DEF GetPolicy, Lookup, cacheVars
    <3>. QED BY <2>1, <3>1 DEF MatchTypes, PresentNow, DeviceFollowed
  <2>. QED BY <2>2, <2>3
<1>3. ASSUME NEW b \in Addrs, NEW m \in Device, Move(b, m) PROVE MatchInv'
  <2>1. UNCHANGED <<policies, slot, cache, age>> /\ table' = [table EXCEPT ![b] = m]
    BY <1>3 DEF Move, cacheVars
  <2>2. CASE m = NoMac
    <3>1. since' = since
      BY <1>3, <2>2 DEF Move
    <3>. QED BY <2>1, <2>2, <3>1 DEF MatchTypes, PresentNow, DeviceFollowed
  <2>3. CASE m # NoMac
    <3>1. since' = [since EXCEPT ![b][m] = 0] /\ m \in Macs
      BY <1>3, <2>3 DEF Move, Device
    <3>2. MatchTypes'
      BY <1>0, <2>1, <3>1 DEF MatchTypes
    <3>3. PresentNow'
      BY <2>1, <3>1, <3>2 DEF MatchTypes, PresentNow, Device
    <3>4. DeviceFollowed'
      <4>. SUFFICES ASSUME age <= TTL, cache # NoTable, NEW a \in Addrs, cache[a] # NoMac
           PROVE  since'[a][cache[a]] <= age
        BY <2>1 DEF DeviceFollowed
      <4>1. cache[a] \in Macs /\ age \in Nat /\ since[a][cache[a]] <= age
        BY DEF MatchTypes, Device, DeviceFollowed
      <4>2. since'[a][cache[a]] = 0 \/ since'[a][cache[a]] = since[a][cache[a]]
        BY <3>1, <4>1 DEF MatchTypes
      <4>. QED BY <4>1, <4>2
    <3>. QED BY <3>2, <3>3, <3>4
  <2>. QED BY <2>2, <2>3
<1>4. CASE UNCHANGED vars
  BY <1>4 DEF vars, clientVars, cacheVars, MatchTypes, PresentNow, DeviceFollowed
<1>. QED BY <1>1, <1>2, <1>3, <1>4 DEF Next, Device

(* Whatever policies are loaded, whatever the hour, and however devices    *)
(* move while tables are read, late or not at all: a client falls under    *)
(* the policy that fits it best of those that are on, and is taken for a   *)
(* device only where that device was when the table was read, TTL ago at   *)
(* most (state.MatchPolicy, models/schedule.go, internal/neighbors).       *)
THEOREM PolicySoundAlways == Spec => []PolicySound
<1>1. MatchInv => PolicySound
  BY RightPolicyHolds DEF MatchInv, MatchTypes, PolicySound
<1>. QED BY MatchInit, MatchNext, <1>1, PTL DEF Spec
=============================================================================
