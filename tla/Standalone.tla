----------------------------- MODULE Standalone -----------------------------
(***************************************************************************)
(* The components that share no state with the others: the documents of    *)
(* internal/models, an ICAP connection, a managed device, the root CA and  *)
(* who signs with it, the verdicts of a resolver, the door of the          *)
(* management API and the tun2socks executable.                            *)
(*                                                                         *)
(* Putting their steps side by side would multiply their states and show   *)
(* nothing more, so a behaviour is one of one component, the one named by  *)
(* `which`, and the variables of the others are parked.                    *)
(***************************************************************************)
EXTENDS Integers, Sequences, FiniteSets

CONSTANTS
    Absent, Null, Nothing, Blank, Parked,
    Names, Known, Other, Tabs, Values,                              \* Documents
    Messages, MaxBodyBytes, MaxHeaderBytes, TrustClientIPHeader,    \* Icap
    NormalizeAcceptEncoding, Peer,
    Docs, Ports, Levels, Dirs, Home,                                \* Device
    Bundles, Importers, Hosts, MaxMade,                             \* Certs
    Requests, Answers, Configs, BlockAddrs, EdeBlockCodes,          \* DohCache
    DefaultTTL, FailTTL, MaxTTL, Timeout, MaxClock,
    Browsers, Passwords, Bearers, MaxPasswords, MaxFlips,           \* Sessions
    Callers, Process, Assets, MaxAssetBytes, InUseFails             \* TunBinary

VARIABLES which,
          file, live, meant,
          client, msg, wire, reply, pc, req, txn,
          settings, policy, managed, place, mu, running, held, serving, plan, checked, halfway, overtaken, disturbed,
          together, crt, key, made, stage, mem, leaf, hand, issuer, tls, imp, outdated, mixed, imported, rooted, spoilt,
          clock, cfg, entry, look, told, said,
          known, off, locked, cookie, asking, set, newest, overlapped, flips,
          latest, step, lock, work, staged, bin, meta, child, torn, crossed

docs    == <<file, live, meant>>
icap    == <<client, msg, wire, reply, pc, req, txn>>
device  == <<settings, policy, managed, place, mu, running, held, serving, plan, checked, halfway, overtaken, disturbed>>
certs   == <<together, crt, key, made, stage, mem, leaf, hand, issuer, tls, imp, outdated, mixed, imported, rooted, spoilt>>
doh     == <<clock, cfg, entry, look, told, said>>
door    == <<known, off, locked, cookie, asking, set, newest, overlapped, flips>>
binary  == <<latest, step, lock, work, staged, bin, meta, child, torn, crossed>>
standaloneVars == <<which, docs, icap, device, certs, doh, door, binary>>

-----------------------------------------------------------------------------
(* What the constants stand for, as far as the proofs rely on it.          *)

ASSUME BinaryAssumption ==
    Absent \notin Callers /\ \A a \in Assets : a.version # Absent

Certificate == [ca : Nat, ends : BOOLEAN]
ASSUME CertsAssumption ==
    /\ Bundles \subseteq [crt : Certificate, key : Nat, isCA : BOOLEAN]
    /\ Null \notin Nat \cup Certificate /\ Importers \cap {"proxy", "mgmt"} = {}

ASSUME DohAssumption ==
    /\ DefaultTTL \in Nat /\ FailTTL \in Nat /\ MaxTTL \in Nat
    /\ \A m \in Answers : /\ m.records \in Seq({m.records[i] : i \in DOMAIN m.records})
                          /\ \A i \in DOMAIN m.records : m.records[i].ttl \in Nat

Hashes == [pw : Passwords, salt : Nat]
ASSUME SessionsAssumption == Absent \notin Nat /\ Null \notin Hashes

D == INSTANCE Documents
I == INSTANCE Icap WITH NoTxn <- Nothing
M == INSTANCE Device WITH NoFile <- Null, pc <- place, cache <- held, seen <- checked
C == INSTANCE Certs WITH None <- Null, at <- stage
H == INSTANCE DohCache WITH Messages <- Answers, verdict <- told
S == INSTANCE Sessions WITH NoHash <- Null, NoKey <- Absent, Idle <- Nothing, cfg <- known, req <- asking
B == INSTANCE TunBinary WITH pc <- step, mu <- lock, stage <- staged

(* A message without a body has no bytes, and OPTIONS and what the server  *)
(* does not know come without one.                                         *)
ASSUME IcapAssumption ==
    /\ MaxBodyBytes \in Nat /\ Nothing \notin I!Transactions
    /\ \A m \in Messages :
          /\ m.bytes \in Nat /\ m.preview \in Int /\ (I!HasBody(m) \/ m.bytes = 0)
          /\ m.method \in {"OPTIONS", "OTHER", "REQMOD", "RESPMOD"}
          /\ I!HasBody(m) => m.method \in {"REQMOD", "RESPMOD"}

(* What the documents that pass validation ask for, beside the user.       *)
Accepted   == {d \in Docs : ~d.bad}
Patches    == {d.patch : d \in {x \in Accepted : x.patch # Absent}}
WholeFiles == {d.json : d \in {x \in Accepted : x.json # Absent}}
AskedPorts == {1080} \cup Ports \cup {d.settings.port : d \in {x \in Accepted : x.settings.port # Absent}}
AskedLevels == {"family"} \cup Levels \cup {p.level : p \in WholeFiles \cup {x \in Patches : x.level # Absent}}
AskedActions ==
    {<<>>} \cup {p.acts : p \in WholeFiles \cup {x \in Patches : x.acts # Absent}}
    \cup {M!LegacyActions(p.categories) : p \in {x \in Patches : x.categories # Absent}}
SettingsFiles == [dir : Dirs, port : AskedPorts]
PolicyFiles   == [level : AskedLevels \cup {"off"}, acts : AskedActions]
ManagedFiles  == [doc : Accepted, locked : BOOLEAN]

(* Nobody asks for the policy that filters nothing, or for what fails.     *)
ASSUME DeviceAssumption ==
    /\ Home \in Dirs /\ WholeFiles \subseteq PolicyFiles /\ "off" \notin AskedLevels
    /\ Null \notin SettingsFiles \cup PolicyFiles \cup ManagedFiles
    /\ Nothing \notin SettingsFiles \cup Docs
    /\ \A d \in Docs : /\ d.bad \in BOOLEAN /\ d.lock \in BOOLEAN /\ d.settings.dir \in Dirs \cup {Absent}
                       /\ d.bad => d.settings.port \notin AskedPorts

(* Nothing a document may say, and no default, is one of the placeholders  *)
(* for what is missing and null; nor is a time, a listen address or a      *)
(* default that is kept as it is the blank one.                            *)
Addresses == {"0.0.0.0", "./logs"} \cup Values
Sockets   == D!DefaultListen \cup {D!Listen(h, "1080") : h \in Addresses}
Moments   == {"00:00"} \cup D!Times
Words     == {"block", "allow", "off", "censor", "both", "typo", "blacklist", "whitelist", "1080", "tun_address", Blank}
Engines   == UNION {[E -> SUBSET Tabs] : E \in SUBSET (Known \cup {Other})}
Sayable(values) == \A v \in values : v \notin {Absent, Null}
ASSUME DocumentsAssumption ==
    /\ Absent # Null /\ Known # {} /\ Other \notin Known /\ Blank \notin Sockets /\ Blank \notin Moments
    /\ \A s \in DOMAIN D!Sections : \A k \in DOMAIN D!Sections[s] :
          LET o == D!Sections[s][k]
          IN  /\ o.default \notin {Absent, Null} /\ (o.kind = "cleaned" => Blank \notin o.default)
              /\ o.kind = "beside" => o.default # Blank
    /\ Sayable(BOOLEAN) /\ Sayable(Words \cup Moments \cup Addresses) /\ Sayable(SUBSET (-1..8))
    /\ Absent \notin Int \X {"number", "string"} /\ Null \notin Int \X {"number", "string"}
    /\ Sayable(SUBSET Names) /\ Sayable([Names -> D!Actions \cup {"off", Absent}]) /\ Sayable(Engines)
    /\ Sayable(SUBSET Sockets) /\ Sayable(SUBSET (Values \cup {Blank, "typo"}))

-----------------------------------------------------------------------------
DocsParked == file = Parked /\ live = Parked /\ meant = Parked
IcapParked ==
    /\ client = Parked /\ msg = Parked /\ wire = Parked /\ reply = Parked
    /\ pc = Parked /\ req = Parked /\ txn = Parked
DeviceParked ==
    /\ settings = Parked /\ policy = Parked /\ managed = Parked /\ place = Parked /\ mu = Parked
    /\ running = Parked /\ held = Parked /\ serving = Parked /\ plan = Parked /\ checked = Parked
    /\ halfway = Parked /\ overtaken = Parked /\ disturbed = Parked
CertsParked ==
    /\ together = Parked /\ crt = Parked /\ key = Parked /\ made = Parked /\ stage = Parked /\ mem = Parked
    /\ leaf = Parked /\ hand = Parked /\ issuer = Parked /\ tls = Parked /\ imp = Parked
    /\ outdated = Parked /\ mixed = Parked /\ imported = Parked /\ rooted = Parked /\ spoilt = Parked
DohParked ==
    /\ clock = Parked /\ cfg = Parked /\ entry = Parked
    /\ look = Parked /\ told = Parked /\ said = Parked
DoorParked ==
    /\ known = Parked /\ off = Parked /\ locked = Parked /\ cookie = Parked /\ asking = Parked
    /\ set = Parked /\ newest = Parked /\ overlapped = Parked /\ flips = Parked
BinaryParked ==
    /\ latest = Parked /\ step = Parked /\ lock = Parked /\ work = Parked /\ staged = Parked
    /\ bin = Parked /\ meta = Parked /\ child = Parked /\ torn = Parked /\ crossed = Parked

Components == {"documents", "icap", "device", "certs", "doh", "door", "binary"}
ComponentsInit ==
    /\ IF which = "documents" THEN D!Init ELSE DocsParked
    /\ IF which = "icap" THEN I!Init ELSE IcapParked
    /\ IF which = "device" THEN M!Init ELSE DeviceParked
    /\ IF which = "certs" THEN C!Init ELSE CertsParked
    /\ IF which = "doh" THEN H!Init ELSE DohParked
    /\ IF which = "door" THEN S!Init ELSE DoorParked
    /\ IF which = "binary" THEN B!Init ELSE BinaryParked
ComponentsNext ==
    /\ UNCHANGED which
    /\ \/ which = "documents" /\ D!Next /\ UNCHANGED <<icap, device, certs, doh, door, binary>>
       \/ which = "icap"      /\ I!Next /\ UNCHANGED <<docs, device, certs, doh, door, binary>>
       \/ which = "device"    /\ M!Next /\ UNCHANGED <<docs, icap, certs, doh, door, binary>>
       \/ which = "certs"     /\ C!Next /\ UNCHANGED <<docs, icap, device, doh, door, binary>>
       \/ which = "doh"       /\ H!Next /\ UNCHANGED <<docs, icap, device, certs, door, binary>>
       \/ which = "door"      /\ S!Next /\ UNCHANGED <<docs, icap, device, certs, doh, binary>>
       \/ which = "binary"    /\ B!Next /\ UNCHANGED <<docs, icap, device, certs, doh, door>>
StandaloneSpec ==
    which \in Components /\ ComponentsInit /\ [][ComponentsNext]_standaloneVars

-----------------------------------------------------------------------------
(* Properties                                                              *)

(* Documents: what is in force is what the document asks for.              *)
MeaningKept == which = "documents" => D!MeaningKept
(* An ICAP transaction is judged once and answered as judged, however it   *)
(* is previewed, chunked and cut off.                                      *)
TransactionSound == which = "icap" => I!TransactionSound
(* A managed device keeps what its manager wrote, whatever is killed,      *)
(* fails or is edited in between.                                          *)
DeviceSound == which = "device" => M!DeviceSound
(* Restarts and imports that overlap make no new root, who signs signs with*)
(* the pair on disk or is known to lag, and every leaf has its issuer.     *)
RootSound == which = "certs" => C!RootSound
(* No request is let through or refused but on the resolver's word.        *)
VerdictOnGrounds == which = "doh" => H!VerdictOnGrounds
(* Nobody is let in or turned away but on grounds, and a password that was *)
(* replaced takes its sessions with it.                                    *)
SessionSound == which = "door" => S!SessionSound
(* The executable that is run is whole, and its record its own.            *)
InstallSound == which = "binary" => B!InstallSound
=============================================================================
