----------------------------- MODULE PolicyMatch -----------------------------
(***************************************************************************)
(* Which policy a request falls under: state.MatchPolicy with the weekly   *)
(* schedules of models/schedule.go and the neighbour table of              *)
(* internal/neighbors, which ties a policy to a device while the device    *)
(* moves from address to address.                                          *)
(*                                                                         *)
(* An address is a number of Bits bits, a source an address and the length *)
(* of its prefix, or Single for one written without a slash.  The week has *)
(* Days days of PerDay minutes; slot is the minute of the week.            *)
(***************************************************************************)
EXTENDS Integers, Sequences, FiniteSets, FiniteSetsExt

CONSTANTS
    Bits, Days, PerDay,
    Macs, NoMac,    \* devices, and "" for an address without one
    Pool,           \* the policies that may be loaded
    MaxPolicies,    \* bound: policies loaded at the same time
    V4,             \* the addresses that are IPv4: commands list one family
    TTL,            \* neighbors.ttl, in ticks of the clock
    NoTable         \* the neighbour cache before the first lookup

Addrs  == 0..2^Bits - 1
Single == Bits + 1

(* What a loaded policy looks like.  The last line is arithmetic that the  *)
(* provers lack.                                                           *)
ASSUME PoolAssumption ==
    /\ Bits \in Nat /\ Days \in Nat \ {0} /\ PerDay \in Nat \ {0} /\ TTL \in Nat
    /\ \A p \in Pool :
          /\ p.inactive \in BOOLEAN /\ p.schedule.enabled \in BOOLEAN
          /\ p.sources \subseteq [addr : Addrs, len : 0..Single]
          /\ \A w \in p.schedule.windows : w.days \subseteq 0..Days - 1 /\ w.start \in 0..PerDay - 1 /\ w.end \in 0..PerDay - 1
ASSUME PowersOfTwo == \A n \in 0..Bits : 2^n \in Nat \ {0}

VARIABLES
    policies,   \* Runtime.Policies(), in the order of the files
    slot,       \* the wall clock, within its week
    table,      \* the system's neighbour table: the device at each address
    cache, age, \* neighbors.cache and the ticks since cachedAt
    since       \* ticks since an address last was each device's

clientVars == <<table, since>>
cacheVars  == <<cache, age>>
vars == <<policies, slot, clientVars, cacheVars>>

-----------------------------------------------------------------------------
(* models.ScheduleConfig                                                   *)

(* A window that ends before it starts runs over midnight.                 *)
BugSameDayOnly(w, t) ==
    t \div PerDay \in w.days /\ (IF w.start <= w.end
        THEN t % PerDay \in w.start..w.end ELSE t % PerDay >= w.start \/ t % PerDay <= w.end)
InWindow(w, t) ==
    LET day == t \div PerDay
        hm  == t % PerDay
    IN  IF w.start <= w.end
        THEN day \in w.days /\ w.start <= hm /\ hm <= w.end
        ELSE \/ day \in w.days /\ hm >= w.start
             \/ (day + Days - 1) % Days \in w.days /\ hm <= w.end

IsActiveAt(s, t) == s.enabled /\ s.windows # {} => \E w \in s.windows : InWindow(w, t)

-----------------------------------------------------------------------------
(* state.MatchPolicy: the first policy of a tier, a scheduled one before   *)
(* one that is always on; 0 is none.                                       *)

Usable(ps, t) == {i \in DOMAIN ps : ~ps[i].inactive /\ IsActiveAt(ps[i].schedule, t)}
Scheduled(ps, S) == {i \in S : ps[i].schedule.enabled}
FirstOf(ps, S) ==
    IF S = {} THEN 0 ELSE Min(IF Scheduled(ps, S) = {} THEN S ELSE Scheduled(ps, S))

ByMac(ps, t, mac) ==
    IF mac = NoMac THEN 0 ELSE FirstOf(ps, {i \in Usable(ps, t) : mac \in ps[i].macs})

ByAddress(ps, t, a) ==
    FirstOf(ps, {i \in Usable(ps, t) : [addr |-> a, len |-> Single] \in ps[i].sources})

(* The longest prefix among the scheduled ones, then among the others.     *)
Contains(src, a) ==
    src.len <= Bits /\ src.addr \div 2^(Bits - src.len) = a \div 2^(Bits - src.len)
Prefix(p, a) == Max({src.len : src \in {s \in p.sources : Contains(s, a)}} \cup {-1})
Longest(ps, S, a) ==
    LET best == Max({Prefix(ps[i], a) : i \in S})
    IN  Min({i \in S : Prefix(ps[i], a) = best})
ByNetwork(ps, t, a) ==
    LET S == {i \in Usable(ps, t) : Prefix(ps[i], a) >= 0}
    IN  IF S = {} THEN 0
        ELSE IF Scheduled(ps, S) # {} THEN Longest(ps, Scheduled(ps, S), a) ELSE Longest(ps, S, a)

(* A policy that names devices only has no sources either.                 *)
ByDefault(ps, t) == FirstOf(ps, {i \in Usable(ps, t) : ps[i].sources = {}})

MatchPolicy(ps, t, a, mac) ==
    LET tier == <<ByMac(ps, t, mac), ByAddress(ps, t, a), ByNetwork(ps, t, a), ByDefault(ps, t)>>
        hits == {k \in 1..4 : tier[k] # 0}
    IN  IF hits = {} THEN 0 ELSE tier[Min(hits)]

-----------------------------------------------------------------------------
(* The clock, the devices, and the lookups of internal/neighbors           *)

Forever == TTL + 1

Init ==
    /\ policies \in UNION {[1..n -> Pool] : n \in 0..MaxPolicies}
    /\ slot \in 0..Days * PerDay - 1
    /\ table \in {f \in [Addrs -> Macs \cup {NoMac}] : \A a, b \in Addrs : f[a] = f[b] => a = b \/ f[a] = NoMac}
    /\ since = [a \in Addrs |-> [m \in Macs |-> IF table[a] = m THEN 0 ELSE Forever]]
    /\ cache = NoTable /\ age = Forever

Older(n) == IF n = Forever THEN n ELSE n + 1
Tick ==
    /\ slot' \in {slot, (slot + 1) % (Days * PerDay)}
    /\ age' = Older(age)
    /\ since' = [a \in Addrs |-> [m \in Macs |-> IF table[a] = m THEN 0 ELSE Older(since[a][m])]]
    /\ UNCHANGED <<policies, table, cache>>

(* A device takes an address, or leaves; another may have had it before.   *)
Move(a, m) ==
    /\ table[a] # m /\ (m = NoMac \/ \A b \in Addrs : table[b] # m)
    /\ table' = [table EXCEPT ![a] = m]
    /\ since' = IF m = NoMac THEN since ELSE [since EXCEPT ![a][m] = 0]
    /\ UNCHANGED <<policies, slot, cacheVars>>

(* What each command prints becomes rows for the addresses it lists.  One  *)
(* that fails prints nothing, and the cache is replaced all the same: on   *)
(* Linux the file of the kernel is then read, elsewhere each family has a  *)
(* command of its own.                                                     *)
Empty == [a \in Addrs |-> NoMac]
Rows(t, S) == [a \in Addrs |-> IF a \in S THEN t[a] ELSE NoMac]
ParseLinuxIPNeigh(t) == t
ParseProcNetARP(t)   == Rows(t, V4)
ParseARP(t)          == Rows(t, V4)
ParseNDP(t)          == Rows(t, Addrs \ V4)
ScanLinux(t) == {ParseLinuxIPNeigh(t), ParseProcNetARP(t), Empty}
ScanPair(t)  ==
    {[a \in Addrs |-> IF arp[a] # NoMac THEN arp[a] ELSE ndp[a]] :
        arp \in {ParseARP(t), Empty}, ndp \in {ParseNDP(t), Empty}}
RawScan(t) == ScanLinux(t) \cup ScanPair(t)

Expired == age > TTL \/ cache = NoTable
BugKeepsOldTable ==
    IF Expired THEN age' = 0 /\ cache' \in {table, IF cache = NoTable THEN Empty ELSE cache}
               ELSE UNCHANGED cacheVars
(* The cache's mutex is held throughout; a scan takes no time here.        *)
Lookup == IF Expired THEN age' = 0 /\ cache' \in RawScan(table) ELSE UNCHANGED cacheVars

(* Runtime.GetPolicy.  Without a policy that names a device nobody looks.  *)
NamesDevice == \E i \in DOMAIN policies : policies[i].macs # {}
GetPolicy == NamesDevice /\ Lookup /\ UNCHANGED <<policies, slot, clientVars>>

Next ==
    \/ Tick
    \/ GetPolicy
    \/ \E a \in Addrs, m \in Macs \cup {NoMac} : Move(a, m)
Spec == Init /\ [][Next]_vars

-----------------------------------------------------------------------------
(* Properties                                                              *)

TypeOK ==
    /\ policies \in UNION {[1..n -> Pool] : n \in 0..MaxPolicies}
    /\ slot \in 0..Days * PerDay - 1
    /\ table \in [Addrs -> Macs \cup {NoMac}] /\ cache \in [Addrs -> Macs \cup {NoMac}] \cup {NoTable}
    /\ age \in 0..Forever /\ since \in [Addrs -> [Macs -> 0..Forever]]

(* A window covers the minutes from its start on a listed day to its end,  *)
(* counted round the week: also the hours after midnight of a window that  *)
(* starts on the last day.                                                 *)
WindowCovers(w, t) ==
    \E d \in w.days :
        (t - (d * PerDay + w.start)) % (Days * PerDay) <= (w.end - w.start) % PerDay
On(p, t) ==
    ~p.inactive /\ (p.schedule.enabled /\ p.schedule.windows # {} =>
        \E w \in p.schedule.windows : WindowCovers(w, t))

(* How well policy i fits, by the comment on MatchPolicy: the tier, then   *)
(* whether it is scheduled, then the prefix, then the order of the files.  *)
Covers(s, a) == \E n \in 0..2^(Bits - s.len) - 1 : a = (s.addr \div 2^(Bits - s.len)) * 2^(Bits - s.len) + n
Rank(p, tier, len, i) == <<tier, IF p.schedule.enabled THEN 0 ELSE 1, -len, i>>
Fits(p, i, a, mac) ==
    (IF mac # NoMac /\ mac \in p.macs THEN {Rank(p, 1, 0, i)} ELSE {})
    \cup {Rank(p, 2, 0, i) : s \in {s \in p.sources : s.len = Single /\ s.addr = a}}
    \cup {Rank(p, 3, s.len, i) : s \in {s \in p.sources : s.len # Single /\ Covers(s, a)}}
    \cup (IF p.sources = {} THEN {Rank(p, 4, 0, i)} ELSE {})
Before(x, y) ==
    \E k \in 1..4 : x[k] < y[k] /\ \A j \in 1..k - 1 : x[j] = y[j]

(* Whatever the tiers, schedules and networks of the loaded policies, the  *)
(* policy a client gets is the one that fits best of all that are on.      *)
RightPolicy ==
    \A a \in Addrs, mac \in Macs \cup {NoMac} :
        LET all == UNION {Fits(policies[i], i, a, mac) : i \in {j \in DOMAIN policies : On(policies[j], slot)}}
            got == MatchPolicy(policies, slot, a, mac)
        IN  IF got = 0 THEN all = {}
            ELSE \E x \in all : x[4] = got /\ \A y \in all : y = x \/ Before(x, y)

(* A device is recognised at an address only if it had the address when    *)
(* the table was read, and an entry of the table is used for TTL at most:  *)
(* a policy follows its device, and leaves the address it has given up.    *)
DeviceFollowed ==
    age <= TTL /\ cache # NoTable =>
        \A a \in Addrs : cache[a] # NoMac => since[a][cache[a]] <= age

PolicySound == RightPolicy /\ DeviceFollowed
=============================================================================
