-------------------------- MODULE HostSetup_proofs --------------------------
(***************************************************************************)
(* Proofs about HostSetup, for any sysctls, any platforms and any number   *)
(* of processes: type correctness, that what is served is in force, that   *)
(* capture is never stacked, bare or unmarked, and that a process that     *)
(* ends has given its host back.                                           *)
(***************************************************************************)
EXTENDS HostSetup, TLAPS

(* The step names, as far as it matters what has been done by then.        *)
Clearing == {"preclean", "configure", "undo", "teardown"}
Late     == {"unmark", "delete", "restore", "returned", "exited"}

(* Where runEngineWithTun is, and what it has started by then.             *)
StepInv ==
    /\ pc \notin Clearing \cup {"crashed"} => cursor = 1
    /\ pc \in {"down", "listen", "gateway", "sysctl"} => deferred = {}
    /\ pc \in {"down", "listen", "gateway", "sysctl", "mark", "tun", "preclean", "launch"} =>
          ~launched
    /\ pc \in {"await", "teardown"} => launched
    /\ pc \in {"delete", "restore"} => calls >= 1
    /\ pc = "preclean" => cfg.auto /\ platform = "linux"
    /\ pc = "configure" => cfg.auto /\ (launched <=> platform = "windows")
    /\ pc = "serve" => (launched => "tun" \in deferred) /\ (cfg.tun = "on" => launched)
    /\ pc \in {"tun", "preclean", "configure", "launch", "await", "undo"} => mark
    /\ launched /\ pc \in {"serve", "shutdown", "teardown", "unmark"} => mark

(* What the saver owes the host, and whose the table is.                   *)
GatewayInv ==
    /\ \A k \in Keys : IF prior[k] = "unsaved" THEN sysctl[k] = found.sysctl[k]
                                               ELSE prior[k] = found.sysctl[k]
    /\ (pc \in {"down", "returned", "exited"} \/
        ("gateway" \notin deferred /\ pc \notin {"sysctl", "delete", "restore", "crashed"})) =>
          \A k \in Keys : prior[k] = "unsaved"
    /\ pc \in {"restore", "returned", "exited"} /\ "gateway" \in deferred => table = NoTable
    /\ pc = "restore" => table = NoTable
    /\ "gateway" \notin deferred /\ pc \notin {"delete", "crashed"} =>
          table \in {NoTable, found.table}

(* From the transaction to the end of Serve the gateway is in force.       *)
InForceInv ==
    /\ pc = "sysctl" => \A k \in Keys : prior[k] # "unsaved" => sysctl[k] = "wanted"
    /\ cfg.gateway = "on" /\ pc \in {"mark", "tun", "preclean", "configure", "launch",
                                     "await", "serve"} =>
          table = gen /\ \A k \in Keys : sysctl[k] = "wanted"

(* The supervision goroutine.                                              *)
SuperviseInv ==
    /\ sup = "none" <=> ~launched
    /\ sup # "teardown" => supCursor = 1
    /\ sup = "teardown" => ctx = "cancelled"
    /\ sup = "done" => ctx = "cancelled" \/ reported = "error"
    /\ launched /\ pc \in {"configure", "serve"} => reported = "ok"
    /\ child => launched

(* What the commands before the n-th of unconfigure have removed.          *)
Cleared(n) ==
    IF platform = "linux"
    THEN /\ n > 1 => rules["capture"] = 0
         /\ n > 2 => rules["egress"] = 0
         /\ n > 3 => rules["route"] = 0 /\ rules["bypass"] = 0
         /\ n > 4 => rules["device"] = 0
    ELSE n > 1 => rules["route"] = 0

(* What the commands before the n-th of configure have installed on Linux, *)
(* and that those which add do not add twice.                              *)
Installed(n) ==
    /\ n > 1 => rules["device"] = 1
    /\ n > 2 => rules["route"] = 1
    /\ n > 3 => rules["bypass"] = 1
    /\ n > 4 => rules["egress"] = 1
    /\ n > 5 => rules["capture"] = 1
Absent(n) ==
    /\ n < 5 => rules["egress"] = 0
    /\ n < 6 => rules["capture"] = 0

(* How much of the capture routing there is.                               *)
RoutingInv ==
    /\ NoStackedRules
    /\ CaptureNeverBare
    /\ platform = "windows" => \A r \in Rules \ {"dns", "route"} : rules[r] = 0
    /\ pc = "preclean" /\ ctx = "live" => Cleared(cursor)
    /\ pc = "configure" /\ platform = "linux" =>
          Installed(cursor) /\ (ctx = "live" \/ cursor > 1 => Absent(cursor))
    /\ (platform = "linux" /\ cfg.auto /\ sup \notin {"teardown", "done"} /\
        (pc \in {"launch", "await"} \/ (pc = "serve" /\ launched))) => Installed(6)
    /\ pc \in {"undo", "teardown"} /\ cfg.auto => Cleared(cursor)
    /\ sup = "teardown" /\ platform = "linux" /\ cfg.auto => Cleared(supCursor)
    /\ launched /\ cfg.auto /\ pc \in Late => Cleared(5)
    /\ (pc = "down" \/ (pc # "crashed" /\ (~cfg.auto \/
            (~launched /\ pc \notin {"configure", "launch", "undo"})))) =>
          \A r \in Rules \ {"dns"} : rules[r] <= found.rules[r]

IInv == TypeOK /\ StepInv /\ GatewayInv /\ InForceInv /\ SuperviseInv /\ RoutingInv

-----------------------------------------------------------------------------
(* The command lists                                                       *)

LEMMA Platform == TypeOK => platform \in {"linux", "windows"}
BY PlatformsAssumption DEF TypeOK

LEMMA ConfigureList ==
    ASSUME TypeOK
    PROVE  /\ platform = "linux" =>
                 /\ Len(ConfigureOrder(platform)) = 5
                 /\ ConfigureOrder(platform)[1] = "device"
                 /\ ConfigureOrder(platform)[2] = "route"
                 /\ ConfigureOrder(platform)[3] = "bypass"
                 /\ ConfigureOrder(platform)[4] = "egress"
                 /\ ConfigureOrder(platform)[5] = "capture"
           /\ platform = "windows" =>
                 /\ Len(ConfigureOrder(platform)) = 2
                 /\ ConfigureOrder(platform)[1] = "dns"
                 /\ ConfigureOrder(platform)[2] = "route"
BY DEF ConfigureOrder

LEMMA UnconfigureList ==
    ASSUME TypeOK
    PROVE  /\ platform = "linux" =>
                 /\ Len(UnconfigureOrder(platform)) = 4
                 /\ UnconfigureOrder(platform)[1] = {"capture"}
                 /\ UnconfigureOrder(platform)[2] = {"egress"}
                 /\ UnconfigureOrder(platform)[3] = {"route", "bypass"}
                 /\ UnconfigureOrder(platform)[4] = {"device", "route"}
           /\ platform = "windows" =>
                 /\ Len(UnconfigureOrder(platform)) = 2
                 /\ UnconfigureOrder(platform)[1] = {"route"}
                 /\ UnconfigureOrder(platform)[2] = {"dns"}
BY DEF UnconfigureOrder

(* A removal only removes.                                                 *)
LEMMA WithoutRemoves ==
    ASSUME rules \in [Rules -> Nat], NEW S
    PROVE  /\ Without(S) \in [Rules -> Nat]
           /\ \A r \in Rules : Without(S)[r] <= rules[r]
           /\ \A r \in Rules \ S : Without(S)[r] = rules[r]
           /\ \A r \in S \cap Rules : rules[r] <= 1 => Without(S)[r] = 0
BY DEF Without

(* The n-th command of unconfigure, after those before it: one more piece  *)
(* is gone, and capture never loses an exception it still needs.           *)
LEMMA RemoveNext ==
    ASSUME TypeOK, NoStackedRules, CaptureNeverBare, NEW n \in Nat \ {0},
           n <= Len(UnconfigureOrder(platform)), platform = "linux" => Cleared(n),
           platform = "windows" => \A r \in Rules \ {"dns", "route"} : rules[r] = 0,
           rules' \in {Without(UnconfigureOrder(platform)[n])}
                         \cup Removed(UnconfigureOrder(platform)[n]),
           platform' = platform
    PROVE  /\ rules' \in [Rules -> Nat] /\ \A r \in Rules : rules'[r] <= rules[r]
           /\ NoStackedRules' /\ CaptureNeverBare' /\ (Cleared(n) => Cleared(n + 1)')
<1>. DEFINE S == UnconfigureOrder(platform)[n]
<1>1. rules \in [Rules -> Nat] /\ \A r \in Rules : rules[r] <= 1
  BY DEF TypeOK, NoStackedRules
<1>2. rules' = Without(S) \/ ("dns" \in S /\ rules' = rules)
  BY DEF Removed
<1>3. /\ rules' \in [Rules -> Nat] /\ \A r \in Rules : rules'[r] <= rules[r]
      /\ \A r \in Rules \ S : rules'[r] = rules[r]
      /\ "dns" \notin S => \A r \in S \cap Rules : rules'[r] = 0
  BY <1>1, <1>2, WithoutRemoves
<1>4. NoStackedRules'
  BY <1>1, <1>3 DEF NoStackedRules
<1>. HIDE DEF S
<1>5. CASE platform = "linux"
  <2>1. n \in {1, 2, 3, 4}
    BY <1>5, UnconfigureList
  <2>2. CASE n = 1
    <3>1. S = {"capture"} BY <1>5, <2>2, UnconfigureList DEF S
    <3>. QED BY <1>1, <1>3, <1>4, <1>5, <2>2, <3>1 DEF Cleared, CaptureNeverBare, Rules
  <2>3. CASE n = 2
    <3>1. S = {"egress"} BY <1>5, <2>3, UnconfigureList DEF S
    <3>. QED BY <1>1, <1>3, <1>4, <1>5, <2>3, <3>1 DEF Cleared, CaptureNeverBare, Rules
  <2>4. CASE n = 3
    <3>1. S = {"route", "bypass"} BY <1>5, <2>4, UnconfigureList DEF S
    <3>. QED BY <1>1, <1>3, <1>4, <1>5, <2>4, <3>1 DEF Cleared, CaptureNeverBare, Rules
  <2>5. CASE n = 4
    <3>1. S = {"device", "route"} BY <1>5, <2>5, UnconfigureList DEF S
    <3>. QED BY <1>1, <1>3, <1>4, <1>5, <2>5, <3>1 DEF Cleared, CaptureNeverBare, Rules
  <2>. QED BY <2>1, <2>2, <2>3, <2>4, <2>5
<1>6. CASE platform = "windows"
  <2>1. n \in {1, 2}
    BY <1>6, UnconfigureList
  <2>2. rules'["capture"] = 0
    BY <1>1, <1>3, <1>6 DEF Rules
  <2>3. CaptureNeverBare'
    BY <2>2 DEF CaptureNeverBare
  <2>4. CASE n = 1
    <3>1. S = {"route"} BY <1>6, <2>4, UnconfigureList DEF S
    <3>. QED BY <1>1, <1>3, <1>4, <1>6, <2>3, <2>4, <3>1 DEF Cleared, Rules
  <2>5. CASE n = 2
    BY <1>1, <1>3, <1>4, <1>6, <2>3, <2>5 DEF Cleared, Rules
  <2>. QED BY <2>1, <2>4, <2>5
<1>. QED BY <1>5, <1>6, Platform

(* Every piece that configure installs is a piece there is.                *)
LEMMA WithAdds ==
    ASSUME rules \in [Rules -> Nat], NEW r \in Rules
    PROVE  /\ With(r) \in [Rules -> Nat]
           /\ \A q \in Rules \ {r} : With(r)[q] = rules[q]
           /\ With(r)[r] = IF r \in Additive THEN rules[r] + 1 ELSE 1
BY DEF With

(* The n-th command of configure on Linux, after those before it: the next *)
(* piece is there once, and capture comes last.                            *)
LEMMA InstallNext ==
    ASSUME TypeOK, NoStackedRules, CaptureNeverBare, platform = "linux", NEW n \in 1..5,
           Installed(n), Absent(n), rules' = With(ConfigureOrder(platform)[n])
    PROVE  /\ NoStackedRules' /\ CaptureNeverBare'
           /\ Installed(n + 1)' /\ Absent(n + 1)'
<1>. DEFINE p == ConfigureOrder(platform)[n]
<1>1. rules \in [Rules -> Nat] /\ \A r \in Rules : rules[r] <= 1
  BY DEF TypeOK, NoStackedRules
<1>2. /\ \/ (n = 1 /\ p = "device") \/ (n = 2 /\ p = "route") \/ (n = 3 /\ p = "bypass")
         \/ (n = 4 /\ p = "egress") \/ (n = 5 /\ p = "capture")
      /\ p \in Rules
  <2>1. n = 1 \/ n = 2 \/ n = 3 \/ n = 4 \/ n = 5
    OBVIOUS
  <2>2. /\ n = 1 => p = "device"
        /\ n = 2 => p = "route"
        /\ n = 3 => p = "bypass"
        /\ n = 4 => p = "egress"
        /\ n = 5 => p = "capture"
    BY ConfigureList
  <2>. HIDE DEF p
  <2>3. \/ (n = 1 /\ p = "device") \/ (n = 2 /\ p = "route") \/ (n = 3 /\ p = "bypass")
         \/ (n = 4 /\ p = "egress") \/ (n = 5 /\ p = "capture")
    BY <2>1, <2>2
  <2>. QED BY <2>3 DEF Rules
<1>. HIDE DEF p
<1>3. /\ rules' \in [Rules -> Nat] /\ \A q \in Rules \ {p} : rules'[q] = rules[q]
      /\ rules'[p] = IF p \in Additive THEN rules[p] + 1 ELSE 1
  BY <1>1, <1>2, WithAdds DEF p
<1>4. rules'[p] = 1
  BY <1>1, <1>2, <1>3 DEF Absent, Additive
<1>. QED BY <1>1, <1>2, <1>3, <1>4 DEF NoStackedRules, CaptureNeverBare, Installed, Absent, Rules

LEMMA ListsInRange ==
    ASSUME TypeOK
    PROVE  /\ cursor <= Len(ConfigureOrder(platform)) =>
                 cursor < 6 /\ ConfigureOrder(platform)[cursor] \in Rules
           /\ cursor <= Len(UnconfigureOrder(platform)) => cursor < 5
           /\ supCursor <= Len(UnconfigureOrder(platform)) => supCursor < 5
<1>1. platform \in {"linux", "windows"} /\ cursor \in 1..6 /\ supCursor \in 1..6
  BY Platform DEF TypeOK
<1>2. cursor <= Len(ConfigureOrder(platform)) =>
         cursor \in 1..5 /\ (platform = "windows" => cursor \in 1..2)
  <2>1. CASE platform = "linux"
    <3>1. Len(ConfigureOrder(platform)) = 5 BY <2>1, ConfigureList
    <3>2. platform # "windows" BY <2>1
    <3>. QED BY <1>1, <3>1, <3>2
  <2>2. CASE platform = "windows"
    <3>1. Len(ConfigureOrder(platform)) = 2 BY <2>2, ConfigureList
    <3>. QED BY <1>1, <3>1
  <2>. QED BY <1>1, <2>1, <2>2
<1>3. cursor <= Len(ConfigureOrder(platform)) => ConfigureOrder(platform)[cursor] \in Rules
  <2>1. CASE platform = "linux" /\ cursor \in 1..5
    <3>1. cursor = 1 \/ cursor = 2 \/ cursor = 3 \/ cursor = 4 \/ cursor = 5
      BY <2>1
    <3>. QED BY <2>1, <3>1, ConfigureList DEF Rules
  <2>2. CASE platform = "windows" /\ cursor \in 1..2
    <3>1. cursor = 1 \/ cursor = 2
      BY <2>2
    <3>. QED BY <2>2, <3>1, ConfigureList DEF Rules
  <2>. QED BY <1>1, <1>2, <2>1, <2>2
<1>4. Len(UnconfigureOrder(platform)) \in {2, 4}
  BY <1>1, UnconfigureList
<1>5. /\ cursor <= Len(UnconfigureOrder(platform)) => cursor < 5
      /\ supCursor <= Len(UnconfigureOrder(platform)) => supCursor < 5
  <2>1. CASE Len(UnconfigureOrder(platform)) = 2 BY <1>1, <2>1
  <2>2. CASE Len(UnconfigureOrder(platform)) = 4 BY <1>1, <2>2
  <2>. QED BY <1>4, <2>1, <2>2
<1>6. cursor <= Len(ConfigureOrder(platform)) => cursor < 6
  BY <1>2
<1>. QED BY <1>3, <1>5, <1>6

-----------------------------------------------------------------------------
(* Types: of the host and of what is remembered of it, of the process's    *)
(* step, of the flags and of what is deferred.                             *)

HostType ==
    /\ platform \in Platforms
    /\ sysctl \in [Keys -> Values] /\ table \in Nat /\ rules \in [Rules -> Nat]
    /\ found \in [sysctl : [Keys -> Values], table : Nat, rules : [Rules -> Nat]]
    /\ gen \in Nat /\ cfg \in [gateway : Outcomes, tun : Outcomes, auto : BOOLEAN]
    /\ prior \in [Keys -> {"unsaved"} \cup Values]
StepType ==
    /\ pc \in {"down", "listen", "gateway", "sysctl", "delete", "restore", "mark", "tun",
               "preclean", "configure", "launch", "await", "undo", "serve", "shutdown",
               "teardown", "unmark", "returned", "exited", "crashed"}
    /\ calls \in 0..2 /\ cursor \in 1..6 /\ supCursor \in 1..6
FlagType ==
    /\ ctx \in {"live", "cancelled"} /\ failed \in BOOLEAN /\ listening \in BOOLEAN
    /\ mark \in BOOLEAN /\ launched \in BOOLEAN
    /\ reported \in {"none", "ok", "error"} /\ child \in BOOLEAN
    /\ sup \in {"none", "launch", "running", "backoff", "teardown", "done"}
    /\ mgmt \in {"absent", "serving", "returned"}
DeferredType == deferred \subseteq {"gateway", "tun"}

LEMMA TypeParts == TypeOK <=> HostType /\ StepType /\ FlagType /\ DeferredType
BY DEF TypeOK, HostType, StepType, FlagType, DeferredType

LEMMA TypeInit == Init => TypeOK
<1>1. Init => HostType BY DEF Init, HostType, NoTable, Outcomes, Values
<1>2. Init => StepType BY DEF Init, StepType
<1>3. Init => FlagType BY DEF Init, FlagType
<1>4. Init => DeferredType BY DEF Init, DeferredType
<1>. QED BY <1>1, <1>2, <1>3, <1>4, TypeParts

LEMMA HostTypeNext == TypeOK /\ [Next]_vars => HostType'
<1>. SUFFICES ASSUME TypeOK, [Next]_vars PROVE HostType'
  OBVIOUS
<1>1. HostType
  BY TypeParts
<1>. USE <1>1 DEF HostType, vars, hostVars, serveVars, gwVars, tunVars, fixedVars, ToEngine,
                  ToSupervise
<1>2. CASE Start \/ Signal \/ MgmtFails \/ MgmtStops \/ EngineFailed \/ Exit \/ Crash
  BY <1>2 DEF Start, Fresh, Signal, MgmtFails, MgmtStops, EngineFailed, Exit, Crash
<1>3. CASE AfterProcess
  <2>1. rules' \in [Rules -> Nat] /\ table' \in Nat
    BY <1>3, WithoutRemoves DEF AfterProcess, NoTable
  <2>. QED BY <1>3, <2>1 DEF AfterProcess, Fresh
<1>4. CASE Listen \/ GatewayGate \/ (\E k \in Keys : SetSysctl(k)) \/ GatewayFails \/ InstallRules
  BY <1>4 DEF Listen, GatewayGate, SetSysctl, GatewayFails, InstallRules, Values
<1>5. CASE DeleteTable \/ (\E k \in Keys : RestoreSysctl(k)) \/ Restored
  BY <1>5 DEF DeleteTable, RestoreSysctl, Restored, Values, NoTable
<1>6. CASE Mark \/ TunGate \/ Configured \/ Launch \/ Launched
  BY <1>6 DEF Mark, TunGate, Configured, Launch, Launched
<1>7. CASE PreClean
  BY <1>7, WithoutRemoves DEF PreClean
<1>8. CASE Configure \/ ConfigureFails
  BY <1>8, WithAdds, ListsInRange DEF Configure, ConfigureFails
<1>9. CASE Unconfigure
  BY <1>9, WithoutRemoves DEF Unconfigure, Removed
<1>10. CASE ServeStops \/ ServeFails \/ ShutdownTun \/ Unmark
  BY <1>10 DEF ServeStops, ServeFails, ShutdownTun, Unmark
<1>11. CASE LaunchChild \/ ChildEnds \/ ChildWaited \/ Backoff
  BY <1>11, WithoutRemoves DEF LaunchChild, ChildEnds, ChildWaited, Backoff
<1>12. CASE SuperviseTeardown
  BY <1>12, WithoutRemoves DEF SuperviseTeardown, Removed
<1>13. CASE Terminated \/ UNCHANGED vars
  BY <1>13 DEF Terminated
<1>. QED BY <1>2, <1>3, <1>4, <1>5, <1>6, <1>7, <1>8, <1>9, <1>10, <1>11, <1>12, <1>13
         DEF Next, EngineStep

LEMMA StepTypeNext == TypeOK /\ StepInv /\ [Next]_vars => StepType'
<1>. SUFFICES ASSUME TypeOK, StepInv, [Next]_vars PROVE StepType'
  OBVIOUS
<1>1. StepType
  BY TypeParts
<1>. USE <1>1 DEF StepType, vars, hostVars, serveVars, gwVars, tunVars, fixedVars, ToEngine,
                  ToSupervise
<1>2. CASE Start \/ Signal \/ MgmtFails \/ MgmtStops \/ EngineFailed \/ Exit \/ Crash
  BY <1>2 DEF Start, Fresh, Signal, MgmtFails, MgmtStops, EngineFailed, Exit, Crash
<1>3. CASE AfterProcess
  BY <1>3 DEF AfterProcess, Fresh
<1>4. CASE Listen \/ GatewayGate \/ (\E k \in Keys : SetSysctl(k)) \/ GatewayFails \/ InstallRules
  BY <1>4 DEF Listen, GatewayGate, SetSysctl, GatewayFails, InstallRules
<1>5. CASE DeleteTable \/ (\E k \in Keys : RestoreSysctl(k)) \/ Restored
  BY <1>5 DEF DeleteTable, RestoreSysctl, Restored, StepInv
<1>6. CASE Mark \/ TunGate \/ Configured \/ Launch \/ Launched
  BY <1>6 DEF Mark, TunGate, Configured, Launch, Launched
<1>7. CASE PreClean
  BY <1>7, ListsInRange DEF PreClean
<1>8. CASE Configure \/ ConfigureFails
  BY <1>8, ListsInRange DEF Configure, ConfigureFails
<1>9. CASE Unconfigure
  BY <1>9, ListsInRange DEF Unconfigure
<1>10. CASE ServeStops \/ ServeFails \/ ShutdownTun \/ Unmark
  BY <1>10 DEF ServeStops, ServeFails, AfterServe, ShutdownTun, Unmark
<1>11. CASE LaunchChild \/ ChildEnds \/ ChildWaited \/ Backoff \/ SuperviseTeardown
  BY <1>11, ListsInRange DEF LaunchChild, ChildEnds, ChildWaited, Backoff, SuperviseTeardown
<1>12. CASE Terminated \/ UNCHANGED vars
  BY <1>12 DEF Terminated
<1>. QED BY <1>2, <1>3, <1>4, <1>5, <1>6, <1>7, <1>8, <1>9, <1>10, <1>11, <1>12 DEF Next, EngineStep

LEMMA FlagTypeNext == TypeOK /\ [Next]_vars => FlagType'
<1>. SUFFICES ASSUME FlagType, [Next]_vars PROVE FlagType'
  BY TypeParts
<1>1. /\ ctx' \in {ctx, "live", "cancelled"}
      /\ failed' \in {failed, TRUE, FALSE}
      /\ listening' \in {listening, TRUE, FALSE}
      /\ mark' \in {mark, TRUE, FALSE}
      /\ launched' \in {launched, TRUE, FALSE}
      /\ reported' \in {reported, "none", "ok", "error"}
      /\ child' \in {child, TRUE, FALSE}
      /\ sup' \in {sup, "none", "launch", "running", "backoff", "teardown", "done"}
      /\ mgmt' \in {mgmt, "absent", "serving", "returned"}
  <2>. USE DEF Next, EngineStep, vars, Start, Fresh, AfterProcess, Signal, MgmtFails, MgmtStops,
              EngineFailed, Exit, Crash, Listen, GatewayGate, SetSysctl, GatewayFails, InstallRules,
              DeleteTable, RestoreSysctl, Restored, Mark, TunGate, PreClean, Configure,
              ConfigureFails, Configured, Launch, Launched, Unconfigure, ServeStops, ServeFails,
              ShutdownTun, Unmark, LaunchChild, ChildEnds, ChildWaited, Backoff, SuperviseTeardown,
              Terminated, ToEngine, ToSupervise, hostVars, serveVars, gwVars, tunVars, fixedVars
  <2>1. ctx' \in {ctx, "live", "cancelled"}
    OBVIOUS
  <2>2. failed' \in {failed, TRUE, FALSE}
    OBVIOUS
  <2>3. listening' \in {listening, TRUE, FALSE}
    OBVIOUS
  <2>4. mark' \in {mark, TRUE, FALSE}
    OBVIOUS
  <2>5. launched' \in {launched, TRUE, FALSE}
    OBVIOUS
  <2>6. reported' \in {reported, "none", "ok", "error"}
    OBVIOUS
  <2>7. child' \in {child, TRUE, FALSE}
    OBVIOUS
  <2>8. sup' \in {sup, "none", "launch", "running", "backoff", "teardown", "done"}
    OBVIOUS
  <2>9. mgmt' \in {mgmt, "absent", "serving", "returned"}
    OBVIOUS
  <2>. QED BY <2>1, <2>2, <2>3, <2>4, <2>5, <2>6, <2>7, <2>8, <2>9, Zenon
<1>2. ctx' \in {"live", "cancelled"} /\ failed' \in BOOLEAN /\ listening' \in BOOLEAN
  BY <1>1, Zenon DEF FlagType
<1>3. mark' \in BOOLEAN /\ launched' \in BOOLEAN /\ child' \in BOOLEAN
  BY <1>1, Zenon DEF FlagType
<1>4. /\ reported' \in {"none", "ok", "error"} /\ mgmt' \in {"absent", "serving", "returned"}
      /\ sup' \in {"none", "launch", "running", "backoff", "teardown", "done"}
  BY <1>1, Zenon DEF FlagType
<1>. QED BY <1>2, <1>3, <1>4, Zenon DEF FlagType

LEMMA DeferredTypeNext == TypeOK /\ [Next]_vars => DeferredType'
<1>. SUFFICES ASSUME DeferredType, [Next]_vars PROVE DeferredType'
  BY TypeParts
<1>1. deferred' \in {deferred, {}, deferred \cup {"gateway"}, deferred \cup {"tun"}}
  BY DEF Next, EngineStep, vars, Start, Fresh, AfterProcess, Signal, MgmtFails, MgmtStops,
         EngineFailed, Exit, Crash, Listen, GatewayGate, SetSysctl, GatewayFails, InstallRules,
         DeleteTable, RestoreSysctl, Restored, Mark, TunGate, PreClean, Configure,
         ConfigureFails, Configured, Launch, Launched, Unconfigure, ServeStops, ServeFails,
         ShutdownTun, Unmark, LaunchChild, ChildEnds, ChildWaited, Backoff, SuperviseTeardown,
         Terminated, ToSupervise
<1>. QED BY <1>1 DEF DeferredType

LEMMA TypeNext == TypeOK /\ StepInv /\ [Next]_vars => TypeOK'
BY HostTypeNext, StepTypeNext, FlagTypeNext, DeferredTypeNext
   DEF TypeOK, HostType, StepType, FlagType, DeferredType

-----------------------------------------------------------------------------
(* Where the process is, and its gateway half                              *)

LEMMA StepNext == TypeOK /\ StepInv /\ SuperviseInv /\ [Next]_vars => StepInv'
<1>. SUFFICES ASSUME TypeOK, StepInv, SuperviseInv, [Next]_vars PROVE StepInv'
  OBVIOUS
<1>. USE DEF StepInv, Clearing, vars, hostVars, serveVars, gwVars, tunVars, fixedVars, ToEngine,
             ToSupervise
<1>0. CASE Start \/ AfterProcess
  BY <1>0 DEF Start, AfterProcess, Fresh
<1>1. CASE Signal \/ MgmtFails \/ MgmtStops \/ EngineFailed \/ Exit \/ Crash
  BY <1>1 DEF Signal, MgmtFails, MgmtStops, EngineFailed, Exit, Crash
<1>2. CASE Listen \/ GatewayGate \/ (\E k \in Keys : SetSysctl(k)) \/ GatewayFails \/ InstallRules
  BY <1>2 DEF Listen, GatewayGate, SetSysctl, GatewayFails, InstallRules
<1>3. CASE DeleteTable \/ (\E k \in Keys : RestoreSysctl(k)) \/ Restored \/ Mark
  BY <1>3, TypeParts DEF DeleteTable, RestoreSysctl, Restored, Mark, StepType
<1>4. CASE TunGate \/ PreClean
  BY <1>4 DEF TunGate, PreClean
<1>5. CASE Configure \/ ConfigureFails \/ Configured
  BY <1>5, Platform DEF Configure, ConfigureFails, Configured
<1>6. CASE Launch \/ Launched
  BY <1>6, Platform DEF Launch, Launched
<1>7. CASE Unconfigure
  BY <1>7 DEF Unconfigure
<1>8. CASE ServeStops \/ ServeFails \/ ShutdownTun \/ Unmark
  BY <1>8 DEF ServeStops, ServeFails, AfterServe, ShutdownTun, Unmark
<1>9. CASE LaunchChild \/ ChildEnds \/ ChildWaited \/ Backoff \/ SuperviseTeardown
  BY <1>9 DEF LaunchChild, ChildEnds, ChildWaited, Backoff, SuperviseTeardown
<1>10. CASE Terminated \/ UNCHANGED vars
  BY <1>10 DEF Terminated
<1>. QED BY <1>0, <1>1, <1>2, <1>3, <1>4, <1>5, <1>6, <1>7, <1>8, <1>9, <1>10
         DEF Next, EngineStep

LEMMA GatewayNext == TypeOK /\ StepInv /\ GatewayInv /\ [Next]_vars => GatewayInv'
<1>. SUFFICES ASSUME TypeOK, StepInv, GatewayInv, [Next]_vars PROVE GatewayInv'
  OBVIOUS
<1>. USE DEF GatewayInv, vars, hostVars, serveVars, gwVars, tunVars, fixedVars, ToEngine, ToSupervise
<1>0. CASE AfterProcess
  <2>1. /\ found'.sysctl = sysctl' /\ found'.table = table' /\ pc' = "down" /\ deferred' = {}
        /\ prior' = [k \in Keys |-> "unsaved"]
    BY <1>0 DEF AfterProcess, Fresh
  <2>. QED BY <2>1
<1>1. CASE Start \/ Signal \/ MgmtFails \/ MgmtStops \/ EngineFailed \/ Exit \/ Crash
  BY <1>1 DEF Start, Fresh, Signal, MgmtFails, MgmtStops, EngineFailed, Exit, Crash, StepInv
<1>2. CASE Listen \/ GatewayGate
  BY <1>2 DEF Listen, GatewayGate, StepInv
<1>3. CASE \E k \in Keys : SetSysctl(k)
  BY <1>3 DEF SetSysctl, TypeOK, Values
<1>4. CASE GatewayFails \/ InstallRules
  BY <1>4 DEF GatewayFails, InstallRules
<1>5. CASE DeleteTable
  BY <1>5 DEF DeleteTable
<1>6. CASE \E k \in Keys : RestoreSysctl(k)
  BY <1>6 DEF RestoreSysctl, TypeOK, Values
<1>7. CASE Restored
  BY <1>7 DEF Restored
<1>8. CASE Mark \/ TunGate \/ PreClean \/ Configure \/ ConfigureFails \/ Configured \/ Launch
  BY <1>8 DEF Mark, TunGate, PreClean, Configure, ConfigureFails, Configured, Launch
<1>9. CASE Launched \/ Unconfigure \/ ServeStops \/ ServeFails \/ ShutdownTun \/ Unmark
  BY <1>9 DEF Launched, Unconfigure, ServeStops, ServeFails, AfterServe, ShutdownTun, Unmark
<1>10. CASE LaunchChild \/ ChildEnds \/ ChildWaited \/ Backoff \/ SuperviseTeardown
  BY <1>10 DEF LaunchChild, ChildEnds, ChildWaited, Backoff, SuperviseTeardown
<1>11. CASE Terminated \/ UNCHANGED vars
  BY <1>11 DEF Terminated
<1>. QED BY <1>0, <1>1, <1>2, <1>3, <1>4, <1>5, <1>6, <1>7, <1>8, <1>9, <1>10, <1>11
         DEF Next, EngineStep

LEMMA InForceNext ==
    TypeOK /\ StepInv /\ GatewayInv /\ InForceInv /\ [Next]_vars => InForceInv'
<1>. SUFFICES ASSUME TypeOK, StepInv, GatewayInv, InForceInv, [Next]_vars PROVE InForceInv'
  OBVIOUS
<1>. USE DEF InForceInv, vars, hostVars, serveVars, gwVars, tunVars, fixedVars, ToEngine, ToSupervise
<1>1. CASE Start \/ Signal \/ MgmtFails \/ MgmtStops \/ EngineFailed \/ Exit \/ Crash \/ AfterProcess
  BY <1>1 DEF Start, Signal, MgmtFails, MgmtStops, EngineFailed, Exit, Crash, AfterProcess
<1>2. CASE Listen \/ GatewayGate
  BY <1>2 DEF Listen, GatewayGate, GatewayInv, StepInv
<1>3. CASE \E k \in Keys : SetSysctl(k)
  BY <1>3 DEF SetSysctl, TypeOK
<1>4. CASE GatewayFails \/ InstallRules
  BY <1>4 DEF GatewayFails, InstallRules
<1>5. CASE DeleteTable \/ (\E k \in Keys : RestoreSysctl(k)) \/ Restored
  BY <1>5 DEF DeleteTable, RestoreSysctl, Restored
<1>6. CASE Mark \/ TunGate \/ PreClean \/ Configure \/ ConfigureFails \/ Configured \/ Launch
  BY <1>6 DEF Mark, TunGate, PreClean, Configure, ConfigureFails, Configured, Launch
<1>7. CASE Launched \/ Unconfigure \/ ServeStops \/ ServeFails \/ ShutdownTun \/ Unmark
  BY <1>7 DEF Launched, Unconfigure, ServeStops, ServeFails, AfterServe, ShutdownTun, Unmark
<1>8. CASE LaunchChild \/ ChildEnds \/ ChildWaited \/ Backoff \/ SuperviseTeardown
  BY <1>8 DEF LaunchChild, ChildEnds, ChildWaited, Backoff, SuperviseTeardown
<1>9. CASE Terminated \/ UNCHANGED vars
  BY <1>9 DEF Terminated
<1>. QED BY <1>1, <1>2, <1>3, <1>4, <1>5, <1>6, <1>7, <1>8, <1>9 DEF Next, EngineStep

LEMMA SuperviseNext ==
    TypeOK /\ StepInv /\ SuperviseInv /\ [Next]_vars => SuperviseInv'
<1>. SUFFICES ASSUME TypeOK, StepInv, SuperviseInv, [Next]_vars PROVE SuperviseInv'
  OBVIOUS
<1>. USE DEF SuperviseInv, vars, hostVars, serveVars, gwVars, tunVars, fixedVars, ToEngine,
             ToSupervise
<1>1. CASE Start \/ Signal \/ MgmtFails \/ MgmtStops \/ EngineFailed \/ Exit \/ Crash \/ AfterProcess
  BY <1>1 DEF Start, Fresh, Signal, MgmtFails, MgmtStops, EngineFailed, Exit, Crash, AfterProcess, Alive
<1>2. CASE Listen \/ GatewayGate \/ (\E k \in Keys : SetSysctl(k)) \/ GatewayFails \/ InstallRules
  BY <1>2 DEF Listen, GatewayGate, SetSysctl, GatewayFails, InstallRules
<1>3. CASE DeleteTable \/ (\E k \in Keys : RestoreSysctl(k)) \/ Restored \/ Mark
  BY <1>3 DEF DeleteTable, RestoreSysctl, Restored, Mark
<1>4. CASE TunGate \/ PreClean \/ Configure \/ ConfigureFails \/ Configured
  BY <1>4 DEF TunGate, PreClean, Configure, ConfigureFails, Configured, StepInv
<1>5. CASE Launch \/ Launched
  BY <1>5 DEF Launch, Launched, StepInv, TypeOK
<1>6. CASE Unconfigure \/ ServeStops \/ ServeFails \/ ShutdownTun \/ Unmark
  BY <1>6 DEF Unconfigure, ServeStops, ServeFails, AfterServe, ShutdownTun, Unmark
<1>7. CASE LaunchChild \/ ChildEnds \/ ChildWaited \/ Backoff \/ SuperviseTeardown
  BY <1>7 DEF LaunchChild, ChildEnds, ChildWaited, Backoff, SuperviseTeardown, StepInv
<1>8. CASE Terminated \/ UNCHANGED vars
  BY <1>8 DEF Terminated
<1>. QED BY <1>1, <1>2, <1>3, <1>4, <1>5, <1>6, <1>7, <1>8 DEF Next, EngineStep

-----------------------------------------------------------------------------
(* The capture routing                                                     *)

LEMMA RoutingInit == Init => RoutingInv
BY DEF Init, RoutingInv, NoStackedRules, CaptureNeverBare, Clearing, Late, Rules

(* Whatever removes pieces, without a step of the engine's goroutine, adds *)
(* nothing that the invariant forbids.                                     *)
LEMMA RemovedKeeps ==
    ASSUME TypeOK, StepInv, SuperviseInv, RoutingInv,
           rules' \in [Rules -> Nat], \A r \in Rules : rules'[r] <= rules[r],
           CaptureNeverBare', launched \/ rules' = rules,
           platform = "linux" => sup \in {"teardown", "done"} \/ rules' = rules,
           platform = "linux" => sup' \in {"teardown", "done"} \/ sup \notin {"teardown", "done"},
           sup' = "teardown" /\ platform = "linux" /\ cfg.auto => Cleared(supCursor)',
           UNCHANGED <<platform, found, cfg, ctx, pc, cursor, launched>>
    PROVE  RoutingInv'
<1>1. /\ rules \in [Rules -> Nat] /\ found.rules \in [Rules -> Nat]
      /\ \A r \in Rules : rules[r] = 0 => rules'[r] = 0
  BY DEF TypeOK
<1>2. NoStackedRules'
  BY <1>1 DEF RoutingInv, NoStackedRules
<1>3. \A n \in Nat : Cleared(n) => Cleared(n)'
  BY <1>1 DEF Cleared, Rules
<1>4. cursor \in Nat /\ cursor' = cursor
  BY DEF TypeOK
<1>5. (pc \in {"undo", "teardown"} /\ cfg.auto => Cleared(cursor))'
  BY <1>3, <1>4 DEF RoutingInv, Cleared
<1>6. (launched /\ cfg.auto /\ pc \in Late => Cleared(5))'
  BY <1>3 DEF RoutingInv, Late
<1>7. (platform = "windows" => \A r \in Rules \ {"dns", "route"} : rules[r] = 0)'
  BY <1>1 DEF RoutingInv
<1>8. ((pc = "down" \/ (pc # "crashed" /\ (~cfg.auto \/
            (~launched /\ pc \notin {"configure", "launch", "undo"})))) =>
          \A r \in Rules \ {"dns"} : rules[r] <= found.rules[r])'
  BY <1>1 DEF RoutingInv
<1>9. (pc = "preclean" /\ ctx = "live" => Cleared(cursor))'
  BY <1>3, <1>4 DEF RoutingInv, StepInv, Cleared
<1>10. (pc = "configure" /\ platform = "linux" =>
          Installed(cursor) /\ (ctx = "live" \/ cursor > 1 => Absent(cursor)))'
  BY DEF RoutingInv, StepInv, SuperviseInv, Installed, Absent
<1>11. ((platform = "linux" /\ cfg.auto /\ sup \notin {"teardown", "done"} /\
        (pc \in {"launch", "await"} \/ (pc = "serve" /\ launched))) => Installed(6))'
  BY DEF RoutingInv, Installed
<1>. QED BY <1>2, <1>5, <1>6, <1>7, <1>8, <1>9, <1>10, <1>11 DEF RoutingInv

(* A step that leaves the host's routing alone.                            *)
LEMMA RoutingStays ==
    ASSUME TypeOK, StepInv, SuperviseInv, RoutingInv, rules' = rules,
           Start \/ Signal \/ MgmtFails \/ MgmtStops \/ EngineFailed \/ Exit \/ Crash
           \/ Listen \/ GatewayGate \/ (\E k \in Keys : SetSysctl(k)) \/ GatewayFails
           \/ InstallRules \/ DeleteTable \/ (\E k \in Keys : RestoreSysctl(k)) \/ Restored
           \/ Mark \/ TunGate \/ Configured \/ Launch \/ Launched \/ ServeStops \/ ServeFails
           \/ ShutdownTun \/ Unmark \/ LaunchChild \/ ChildWaited \/ Backoff
    PROVE  RoutingInv'
<1>1. /\ NoStackedRules' /\ CaptureNeverBare'
      /\ rules \in [Rules -> Nat] /\ found.rules \in [Rules -> Nat]
  BY DEF RoutingInv, NoStackedRules, CaptureNeverBare, TypeOK
<1>. USE DEF RoutingInv, Late, Cleared, Installed, Absent, vars, hostVars, serveVars, gwVars,
             tunVars, fixedVars, ToEngine, ToSupervise
<1>2. CASE Start \/ Signal \/ MgmtFails \/ MgmtStops \/ EngineFailed
  BY <1>1, <1>2 DEF Start, Fresh, Signal, MgmtFails, MgmtStops, EngineFailed, Alive, StepInv
<1>3. CASE Exit \/ Crash
  BY <1>1, <1>3 DEF Exit, Crash
<1>4. CASE Listen \/ GatewayGate \/ (\E k \in Keys : SetSysctl(k)) \/ GatewayFails \/ InstallRules
  BY <1>1, <1>4 DEF Listen, GatewayGate, SetSysctl, GatewayFails, InstallRules, StepInv
<1>5. CASE DeleteTable \/ (\E k \in Keys : RestoreSysctl(k)) \/ Restored \/ Mark
  BY <1>1, <1>5 DEF DeleteTable, RestoreSysctl, Restored, Mark, StepInv
<1>6. CASE TunGate
  <2>1. /\ pc = "tun" /\ ~launched /\ sup = "none" /\ cursor' = 1
        /\ pc' \in {"serve", "shutdown", "preclean", "launch"}
        /\ pc' = "preclean" => cfg.auto
        /\ pc' = "launch" => ~(cfg.auto /\ platform = "linux")
    BY <1>6 DEF TunGate, StepInv, Clearing, SuperviseInv
  <2>2. UNCHANGED <<platform, found, cfg, ctx, launched, sup, supCursor>>
    BY <1>6 DEF TunGate
  <2>. QED BY <1>1, <2>1, <2>2
<1>7. CASE Configured
  <2>1. platform = "linux" => cursor = 6
    BY <1>7, ConfigureList DEF Configured, TypeOK
  <2>2. pc = "configure" /\ pc' \in {"launch", "serve"} /\ UNCHANGED <<found, cfg, platform, launched, sup>>
    BY <1>7 DEF Configured
  <2>3. platform = "linux" => Installed(6) /\ Installed(6)'
    BY <2>1, <2>2
  <2>4. ~launched => platform = "linux" /\ cfg.auto /\ pc' = "launch"
    BY <1>7, <2>2, Platform DEF Configured, StepInv
  <2>5. pc' = "serve" => platform = "windows" /\ launched
    BY <1>7, <2>2, Platform DEF Configured, StepInv
  <2>. QED BY <1>1, <1>7, <2>2, <2>3, <2>4, <2>5 DEF Configured, StepInv
<1>8. CASE Launch
  BY <1>1, <1>8 DEF Launch, StepInv, Clearing, SuperviseInv
<1>9. CASE Launched
  BY <1>1, <1>9 DEF Launched, StepInv, Clearing, SuperviseInv
<1>10. CASE ServeStops \/ ServeFails
  BY <1>1, <1>10 DEF ServeStops, ServeFails, AfterServe, StepInv
<1>11. CASE ShutdownTun \/ Unmark
  BY <1>1, <1>11 DEF ShutdownTun, Unmark, StepInv, Clearing, SuperviseInv
<1>12. CASE LaunchChild \/ ChildWaited \/ Backoff
  BY <1>1, <1>12 DEF LaunchChild, ChildWaited, Backoff, StepInv, SuperviseInv
<1>. QED BY <1>2, <1>3, <1>4, <1>5, <1>6, <1>7, <1>8, <1>9, <1>10, <1>11, <1>12

LEMMA RoutingNext ==
    TypeOK /\ StepInv /\ SuperviseInv /\ RoutingInv /\ [Next]_vars => RoutingInv'
<1>. SUFFICES ASSUME TypeOK, StepInv, SuperviseInv, RoutingInv, [Next]_vars PROVE RoutingInv'
  OBVIOUS
<1>. USE DEF hostVars, serveVars, gwVars, tunVars, fixedVars, ToEngine, ToSupervise
<1>1. /\ NoStackedRules /\ CaptureNeverBare /\ rules \in [Rules -> Nat]
      /\ found.rules \in [Rules -> Nat] /\ cursor \in 1..6 /\ supCursor \in 1..6
      /\ platform = "windows" => \A r \in Rules \ {"dns", "route"} : rules[r] = 0
  BY DEF RoutingInv, TypeOK
<1>2. CASE Start \/ Signal \/ MgmtFails \/ MgmtStops \/ EngineFailed \/ Exit \/ Crash
           \/ Listen \/ GatewayGate \/ (\E k \in Keys : SetSysctl(k)) \/ GatewayFails
           \/ InstallRules \/ DeleteTable \/ (\E k \in Keys : RestoreSysctl(k)) \/ Restored
           \/ Mark \/ TunGate \/ Configured \/ Launch \/ Launched \/ ServeStops \/ ServeFails
           \/ ShutdownTun \/ Unmark \/ LaunchChild \/ ChildWaited \/ Backoff
  <2>1. rules' = rules
    BY <1>2 DEF Start, Signal, MgmtFails, MgmtStops, EngineFailed, Exit, Crash, Listen,
                GatewayGate, SetSysctl, GatewayFails, InstallRules, DeleteTable, RestoreSysctl,
                Restored, Mark, TunGate, Configured, Launch, Launched, ServeStops, ServeFails,
                ShutdownTun, Unmark, LaunchChild, ChildWaited, Backoff
  <2>. QED BY <1>2, <2>1, RoutingStays
<1>3. CASE AfterProcess
  <2>1. /\ pc' = "down" /\ ~launched' /\ sup' = "none" /\ found'.rules = rules'
        /\ rules' = Without(Rules) \/ rules' = rules
    BY <1>3 DEF AfterProcess, Fresh
  <2>2. platform' = platform
    BY <1>3 DEF AfterProcess
  <2>3. CASE rules' = rules
    BY <1>1, <2>1, <2>2, <2>3 DEF RoutingInv, Late, NoStackedRules, CaptureNeverBare
  <2>4. CASE rules' = Without(Rules)
    <3>1. \A r \in Rules : rules'[r] = 0
      BY <1>1, <2>4, WithoutRemoves DEF NoStackedRules
    <3>. QED BY <2>1, <2>2, <3>1 DEF RoutingInv, Late, NoStackedRules, CaptureNeverBare, Rules
  <2>. QED BY <2>1, <2>3, <2>4
<1>4. CASE PreClean
  <2>1. /\ pc = "preclean" /\ platform = "linux" /\ cfg.auto /\ ~launched /\ sup = "none"
        /\ UNCHANGED <<platform, found, cfg, ctx, launched, sup, supCursor>>
    BY <1>4 DEF PreClean, StepInv, SuperviseInv
  <2>2. \A r \in Rules \ {"dns"} : rules[r] <= found.rules[r]
    BY <2>1 DEF RoutingInv
  <2>3. CASE cursor <= Len(UnconfigureOrder(platform)) /\ ctx = "live"
    <3>1. /\ Cleared(cursor) /\ rules' = Without(UnconfigureOrder(platform)[cursor])
          /\ cursor' = cursor + 1 /\ pc' = "preclean"
      BY <1>4, <2>1, <2>3 DEF PreClean, RoutingInv
    <3>2. /\ rules' \in [Rules -> Nat] /\ \A r \in Rules : rules'[r] <= rules[r]
          /\ NoStackedRules' /\ CaptureNeverBare'
          /\ Cleared(cursor)'
      BY <1>1, <2>1, <2>3, <3>1, RemoveNext DEF Cleared
    <3>3. \A r \in Rules \ {"dns"} : rules'[r] <= found.rules[r]
      BY <1>1, <2>2, <3>2
    <3>. QED BY <2>1, <3>1, <3>2, <3>3 DEF RoutingInv, Late
  <2>4. CASE cursor <= Len(UnconfigureOrder(platform)) /\ ctx # "live"
    <3>1. rules' = rules /\ pc' = "preclean"
      BY <1>4, <2>4 DEF PreClean
    <3>. QED BY <1>1, <2>1, <2>2, <2>4, <3>1 DEF RoutingInv, Late, NoStackedRules, CaptureNeverBare
  <2>5. CASE ~(cursor <= Len(UnconfigureOrder(platform)))
    <3>1. rules' = rules /\ pc' = "configure" /\ cursor' = 1
      BY <1>4, <2>5 DEF PreClean
    <3>2. cursor \in Nat /\ cursor > 4
      <4>1. Len(UnconfigureOrder(platform)) = 4
        BY <2>1, UnconfigureList
      <4>2. cursor \in Nat
        BY <1>1
      <4>. QED BY <2>5, <4>1, <4>2
    <3>3. ctx = "live" => Absent(1)
      BY <2>1, <3>2 DEF RoutingInv, Cleared, Absent
    <3>. QED BY <1>1, <2>1, <3>1, <3>3
             DEF RoutingInv, Late, NoStackedRules, CaptureNeverBare, Installed, Absent
  <2>. QED BY <2>3, <2>4, <2>5
<1>5. CASE Configure
  <2>1. /\ pc = "configure" /\ pc' = "configure" /\ cfg.auto /\ ctx = "live"
        /\ (launched <=> platform = "windows") /\ cursor' = cursor + 1
        /\ cursor <= Len(ConfigureOrder(platform))
        /\ rules' = With(ConfigureOrder(platform)[cursor])
        /\ UNCHANGED <<platform, found, cfg, ctx, launched, sup, supCursor>>
    BY <1>5 DEF Configure, StepInv
  <2>2. CASE platform = "linux"
    <3>1. cursor \in 1..5
      BY <1>1, <2>1, <2>2, ConfigureList
    <3>2. Installed(cursor) /\ Absent(cursor)
      BY <2>1, <2>2 DEF RoutingInv
    <3>3. NoStackedRules' /\ CaptureNeverBare' /\ Installed(cursor)' /\ Absent(cursor)'
      BY <1>1, <2>1, <2>2, <3>1, <3>2, InstallNext DEF Installed, Absent
    <3>. QED BY <2>1, <2>2, <3>3 DEF RoutingInv, Late, SuperviseInv
  <2>3. CASE platform = "windows"
    <3>1. cursor = 1 \/ cursor = 2
      BY <1>1, <2>1, <2>3, ConfigureList
    <3>2. ConfigureOrder(platform)[cursor] \in {"dns", "route"}
      BY <2>3, <3>1, ConfigureList
    <3>3. \A r \in Rules : rules'[r] = rules[r] \/ (r \in {"dns", "route"} /\ rules'[r] = 1)
      <4>1. rules \in [Rules -> Nat] /\ rules' = With(ConfigureOrder(platform)[cursor])
        BY <1>1, <2>1
      <4>. QED BY <3>2, <4>1, WithAdds DEF Additive, Rules
    <3>4. NoStackedRules' /\ \A r \in Rules \ {"dns", "route"} : rules'[r] = 0
      BY <1>1, <2>3, <3>3 DEF NoStackedRules
    <3>5. CaptureNeverBare'
      BY <3>4 DEF CaptureNeverBare, Rules
    <3>. QED BY <2>1, <2>3, <3>4, <3>5 DEF RoutingInv, Late
  <2>. QED BY <2>2, <2>3, Platform
<1>6. CASE ConfigureFails
  <2>1. /\ pc = "configure" /\ pc' = "undo" /\ cfg.auto
        /\ (launched <=> platform = "windows") /\ cursor' = 1
        /\ cursor <= Len(ConfigureOrder(platform))
        /\ rules' = rules \/ rules' = With(ConfigureOrder(platform)[cursor])
        /\ UNCHANGED <<platform, found, cfg, ctx, launched, sup, supCursor>>
    BY <1>6 DEF ConfigureFails, StepInv
  <2>2. /\ NoStackedRules' /\ CaptureNeverBare'
        /\ platform = "windows" => \A r \in Rules \ {"dns", "route"} : rules'[r] = 0
    <3>1. CASE rules' = rules
      BY <1>1, <3>1 DEF NoStackedRules, CaptureNeverBare
    <3>2. CASE platform = "linux" /\ (ctx = "live" \/ cursor > 1)
               /\ rules' = With(ConfigureOrder(platform)[cursor])
      <4>1. cursor \in 1..5
        BY <1>1, <2>1, <3>2, ConfigureList
      <4>2. Installed(cursor) /\ Absent(cursor)
        BY <2>1, <3>2 DEF RoutingInv
      <4>. QED BY <1>1, <3>2, <4>1, <4>2, InstallNext
    <3>3. CASE platform = "linux" /\ cursor = 1
               /\ rules' = With(ConfigureOrder(platform)[cursor])
      <4>1. rules' = With("device")
        BY <3>3, ConfigureList
      <4>2. \A r \in Rules : rules'[r] = IF r = "device" THEN 1 ELSE rules[r]
        BY <1>1, <4>1, WithAdds DEF Additive, Rules
      <4>. QED BY <1>1, <3>3, <4>2 DEF NoStackedRules, CaptureNeverBare, Rules
    <3>4. CASE platform = "windows" /\ rules' = With(ConfigureOrder(platform)[cursor])
      <4>1. cursor = 1 \/ cursor = 2
        BY <1>1, <2>1, <3>4, ConfigureList
      <4>2. ConfigureOrder(platform)[cursor] \in {"dns", "route"}
        BY <3>4, <4>1, ConfigureList
      <4>3. \A r \in Rules : rules'[r] = rules[r] \/ (r \in {"dns", "route"} /\ rules'[r] = 1)
        BY <1>1, <3>4, <4>2, WithAdds DEF Additive, Rules
      <4>4. NoStackedRules' /\ \A r \in Rules \ {"dns", "route"} : rules'[r] = 0
        BY <1>1, <3>4, <4>3 DEF NoStackedRules
      <4>5. CaptureNeverBare'
        BY <4>4 DEF CaptureNeverBare, Rules
      <4>. QED BY <4>4, <4>5
    <3>5. cursor > 1 \/ cursor = 1
      BY <1>1
    <3>. QED BY <2>1, <3>1, <3>2, <3>3, <3>4, <3>5, Platform
  <2>3. sup = "teardown" /\ platform = "linux" /\ cfg.auto => FALSE
    BY <2>1 DEF SuperviseInv
  <2>. QED BY <2>1, <2>2, <2>3 DEF RoutingInv, Late, Cleared
<1>7. CASE Unconfigure
  <2>1. /\ pc \in {"undo", "teardown"} /\ (pc = "teardown" => launched)
        /\ UNCHANGED <<platform, found, cfg, ctx, launched, sup, supCursor>>
    BY <1>7 DEF Unconfigure, StepInv
  <2>2. CASE cfg.auto /\ cursor <= Len(UnconfigureOrder(platform))
    <3>1. /\ rules' \in Removed(UnconfigureOrder(platform)[cursor])
          /\ cursor' = cursor + 1 /\ pc' = pc /\ Cleared(cursor)
      BY <1>7, <2>1, <2>2 DEF Unconfigure, RoutingInv
    <3>2. /\ rules' \in [Rules -> Nat] /\ \A r \in Rules : rules'[r] <= rules[r]
          /\ NoStackedRules' /\ CaptureNeverBare' /\ Cleared(cursor)'
      <4>1. cursor \in Nat \ {0}
        BY <1>1
      <4>. QED BY <1>1, <2>1, <2>2, <3>1, <4>1, RemoveNext DEF Cleared
    <3>3. \A r \in Rules : rules[r] = 0 => rules'[r] = 0
      BY <1>1, <3>2
    <3>5. (sup = "teardown" /\ platform = "linux" /\ cfg.auto => Cleared(supCursor))'
      BY <2>1, <3>3 DEF RoutingInv, Cleared, Rules
    <3>6. (platform = "windows" => \A r \in Rules \ {"dns", "route"} : rules[r] = 0)'
      BY <1>1, <2>1, <3>3
    <3>. QED BY <2>1, <2>2, <3>1, <3>2, <3>5, <3>6 DEF RoutingInv, Late
  <2>3. CASE ~(cfg.auto /\ cursor <= Len(UnconfigureOrder(platform)))
    <3>1. rules' = rules /\ pc' \in {"shutdown", "unmark"}
      BY <1>7, <2>3 DEF Unconfigure
    <3>2. cfg.auto => \A r \in Rules \ {"dns"} : rules[r] = 0
      <4>1. SUFFICES ASSUME cfg.auto PROVE \A r \in Rules \ {"dns"} : rules[r] = 0
        OBVIOUS
      <4>2. Cleared(cursor)
        BY <2>1, <4>1 DEF RoutingInv
      <4>3. (platform = "linux" => cursor > 4) /\ (platform = "windows" => cursor > 2)
        <5>1. cursor \in Nat /\ ~(cursor <= Len(UnconfigureOrder(platform)))
          BY <1>1, <2>3, <4>1
        <5>. QED BY <5>1, UnconfigureList
      <4>. QED BY <1>1, <4>2, <4>3, Platform DEF Cleared, Rules
    <3>3. (cfg.auto => Cleared(5))'
      BY <2>1, <3>1, <3>2 DEF Cleared, Rules
    <3>4. ~cfg.auto => \A r \in Rules \ {"dns"} : rules[r] <= found.rules[r]
      BY <2>1 DEF RoutingInv
    <3>5. (\A r \in Rules \ {"dns"} : rules[r] <= found.rules[r])'
      BY <1>1, <2>1, <3>1, <3>2, <3>4
    <3>6. (sup = "teardown" /\ platform = "linux" /\ cfg.auto => Cleared(supCursor))'
      BY <2>1, <3>1 DEF RoutingInv, Cleared
    <3>7. NoStackedRules' /\ CaptureNeverBare'
      BY <1>1, <3>1 DEF NoStackedRules, CaptureNeverBare
    <3>. QED BY <1>1, <2>1, <3>1, <3>3, <3>5, <3>6, <3>7 DEF RoutingInv
  <2>. QED BY <2>2, <2>3
<1>8. CASE ChildEnds
  <2>1. /\ child /\ rules' = (IF platform = "windows" THEN Without({"route"}) ELSE rules)
        /\ UNCHANGED <<platform, found, cfg, ctx, pc, cursor, launched, sup, supCursor>>
    BY <1>8 DEF ChildEnds
  <2>2. /\ rules' \in [Rules -> Nat] /\ \A r \in Rules : rules'[r] <= rules[r]
        /\ platform = "linux" => rules' = rules
    BY <1>1, <2>1, WithoutRemoves
  <2>3. CaptureNeverBare'
    <3>1. CASE platform = "linux"
      BY <1>1, <2>2, <3>1 DEF CaptureNeverBare
    <3>2. CASE platform = "windows"
      <4>1. rules["capture"] = 0 /\ "capture" \in Rules
        BY <1>1, <3>2 DEF Rules
      <4>2. rules'["capture"] = 0
        BY <2>2, <4>1
      <4>. QED BY <4>2 DEF CaptureNeverBare
    <3>. QED BY <3>1, <3>2, Platform
  <2>4. launched
    BY <2>1 DEF SuperviseInv
  <2>5. (sup' = "teardown" /\ platform = "linux" /\ cfg.auto => Cleared(supCursor)')
    BY <2>1, <2>2 DEF RoutingInv, Cleared
  <2>. QED BY <2>1, <2>2, <2>3, <2>4, <2>5, RemovedKeeps
<1>9. CASE SuperviseTeardown
  <2>1. /\ sup = "teardown" /\ launched
        /\ UNCHANGED <<platform, found, cfg, ctx, pc, cursor, launched>>
    BY <1>9 DEF SuperviseTeardown, SuperviseInv
  <2>2. CASE cfg.auto /\ supCursor <= Len(UnconfigureOrder(platform))
    <3>1. /\ rules' \in Removed(UnconfigureOrder(platform)[supCursor])
          /\ supCursor' = supCursor + 1 /\ sup' = "teardown"
          /\ platform = "linux" => Cleared(supCursor)
      BY <1>9, <2>1, <2>2 DEF SuperviseTeardown, RoutingInv
    <3>2. /\ rules' \in [Rules -> Nat] /\ \A r \in Rules : rules'[r] <= rules[r]
          /\ CaptureNeverBare' /\ (platform = "linux" => Cleared(supCursor)')
      <4>1. supCursor \in Nat \ {0}
        BY <1>1
      <4>. QED BY <1>1, <2>1, <2>2, <3>1, <4>1, RemoveNext DEF Cleared
    <3>. QED BY <2>1, <3>1, <3>2, RemovedKeeps
  <2>3. CASE ~(cfg.auto /\ supCursor <= Len(UnconfigureOrder(platform)))
    <3>1. rules' = rules /\ sup' = "done"
      BY <1>9, <2>3 DEF SuperviseTeardown
    <3>2. CaptureNeverBare'
      BY <1>1, <3>1 DEF CaptureNeverBare
    <3>. QED BY <1>1, <2>1, <3>1, <3>2, RemovedKeeps
  <2>. QED BY <2>2, <2>3
<1>10. CASE Terminated \/ UNCHANGED vars
  <2>1. UNCHANGED vars
    BY <1>10 DEF Terminated
  <2>. QED BY <2>1 DEF vars, RoutingInv, NoStackedRules, CaptureNeverBare, Cleared, Installed, Absent
<1>. QED BY <1>2, <1>3, <1>4, <1>5, <1>6, <1>7, <1>8, <1>9, <1>10 DEF Next, EngineStep

-----------------------------------------------------------------------------
(* The invariant                                                           *)

(* All of the above holds in every reachable state.                        *)
THEOREM Invariant == Spec => []IInv
<1>1. Init => IInv
  <2>1. Init => StepInv /\ GatewayInv /\ InForceInv /\ SuperviseInv
    BY DEF Init, StepInv, GatewayInv, InForceInv, SuperviseInv, Clearing
  <2>. QED BY <2>1, TypeInit, RoutingInit DEF IInv
<1>2. IInv /\ [Next]_vars => IInv'
  BY TypeNext, StepNext, GatewayNext, InForceNext, SuperviseNext, RoutingNext DEF IInv
<1>. QED BY <1>1, <1>2, PTL DEF Spec

(* Every variable keeps its type.                                          *)
THEOREM TypeCorrect == Spec => []TypeOK
BY Invariant, PTL DEF IInv

(* No piece of the routing is ever installed twice, although `ip rule add` *)
(* is additive and a process may be killed between any two commands.       *)
THEOREM NoStackedRulesAlways == Spec => []NoStackedRules
<1>1. IInv => NoStackedRules
  BY DEF IInv, RoutingInv
<1>. QED BY <1>1, Invariant, PTL

(* Traffic is captured only with the exceptions in place.                  *)
THEOREM CaptureNeverBareAlways == Spec => []CaptureNeverBare
<1>1. IInv => CaptureNeverBare
  BY DEF IInv, RoutingInv
<1>. QED BY <1>1, Invariant, PTL

(* What a live process captured is marked until nothing captures it.       *)
THEOREM CaptureIsMarkedAlways == Spec => []CaptureIsMarked
<1>1. ASSUME IInv, launched, cfg.auto, Alive, rules["capture"] > 0 PROVE mark
  <2>1. pc \notin Late
    BY <1>1, Platform DEF IInv, RoutingInv, Cleared, Rules
  <2>. QED BY <1>1, <2>1 DEF IInv, StepInv, Late, Alive, TypeOK
<1>2. IInv => CaptureIsMarked
  BY <1>1 DEF CaptureIsMarked
<1>. QED BY <1>2, Invariant, PTL

(* While the engine serves, gateway mode and the capture routing that the  *)
(* settings ask for are in force.                                          *)
THEOREM ServingMeansInForceAlways == Spec => []ServingMeansInForce
<1>1. ASSUME IInv, pc = "serve", ctx = "live", cfg.tun = "on", cfg.auto, platform = "linux"
      PROVE  \A r \in Rules \ {"dns"} : rules[r] = 1
  <2>1. launched /\ reported = "ok"
    BY <1>1 DEF IInv, StepInv, SuperviseInv
  <2>2. sup \notin {"teardown", "done"}
    BY <1>1, <2>1 DEF IInv, SuperviseInv
  <2>3. Installed(6)
    BY <1>1, <2>1, <2>2 DEF IInv, RoutingInv
  <2>. QED BY <2>3 DEF Installed, Rules
<1>2. IInv => ServingMeansInForce
  BY <1>1 DEF IInv, InForceInv, ServingMeansInForce
<1>. QED BY <1>2, Invariant, PTL

(* A process that has ended by itself has given its host back.             *)
THEOREM GivenBackAlways == Spec => []GivenBack
<1>1. ASSUME IInv, pc = "exited" PROVE sysctl = found.sysctl
  <2>1. \A k \in Keys : sysctl[k] = found.sysctl[k]
    BY <1>1 DEF IInv, GatewayInv
  <2>. QED BY <1>1, <2>1 DEF IInv, TypeOK
<1>2. ASSUME IInv, pc = "exited" PROVE /\ table = NoTable \/ table = found.table
                                       /\ "gateway" \in deferred => table = NoTable
  BY <1>2 DEF IInv, GatewayInv
<1>3. ASSUME IInv, pc = "exited", launched, cfg.auto
      PROVE  \A r \in Rules \ {"dns"} : rules[r] = 0
  <2>1. Cleared(5)
    BY <1>3 DEF IInv, RoutingInv, Late
  <2>. QED BY <1>3, <2>1, Platform DEF IInv, RoutingInv, Cleared, Rules
<1>4. ASSUME IInv, pc = "exited"
      PROVE  \A r \in Rules \ {"dns"} : rules[r] <= found.rules[r]
  <2>1. rules \in [Rules -> Nat] /\ found.rules \in [Rules -> Nat]
    BY <1>4 DEF IInv, TypeOK
  <2>2. CASE launched /\ cfg.auto
    BY <1>3, <1>4, <2>1, <2>2
  <2>3. CASE ~(launched /\ cfg.auto)
    BY <1>4, <2>3 DEF IInv, RoutingInv
  <2>. QED BY <2>2, <2>3
<1>5. IInv => GivenBack
  BY <1>1, <1>2, <1>3, <1>4 DEF GivenBack
<1>. QED BY <1>5, Invariant, PTL

(* Capture is installed once, has its exceptions and is marked, however    *)
(* many processes failed or were killed between two of its commands.       *)
THEOREM CaptureSoundAlways == Spec => []CaptureSound
BY NoStackedRulesAlways, CaptureNeverBareAlways, CaptureIsMarkedAlways, PTL
   DEF CaptureSound
=============================================================================
