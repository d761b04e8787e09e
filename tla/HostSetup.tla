------------------------------ MODULE HostSetup -----------------------------
(***************************************************************************)
(* What one `webfilter run` or `webfilter proxy` does to its host and how  *)
(* it gives it back: runEngineWithTun (cmd/webfilter/runners.go) with the  *)
(* gateway manager (internal/gateway) and the tun2socks supervisor         *)
(* (internal/tun2socks), next to the management server, over a host that   *)
(* outlives the process.  A process may be cancelled, fail at any command  *)
(* or be killed between two of them, and is started again on the host it   *)
(* left.                                                                   *)
(*                                                                         *)
(* One command (nft, ip, netsh, one sysctl) is one step.                   *)
(***************************************************************************)
EXTENDS Naturals, Sequences

CONSTANTS
    Keys,           \* the sysctls gateway mode needs
    Platforms,      \* those of "linux", "windows" the host may be
    MaxStarts       \* bound: processes ever started

ASSUME PlatformsAssumption == Platforms \subseteq {"linux", "windows"}
ASSUME MaxStartsAssumption == MaxStarts \in Nat

NoTable  == 0
Rules    == {"device", "route", "bypass", "egress", "capture", "dns"}
Values   == {"other", "wanted"}
Outcomes == {"off", "unable", "invalid", "on"}

(* configureLinux, configureWindows: what each command installs; and their *)
(* inverses: what each command removes.                                    *)
ConfigureOrder(p) ==
    IF p = "linux" THEN <<"device", "route", "bypass", "egress", "capture">>
                   ELSE <<"dns", "route">>
BugDeviceFirst(p) ==
    IF p = "linux" THEN <<{"device", "route"}, {"route", "bypass"}, {"egress"}, {"capture"}>>
                   ELSE <<{"route"}, {"dns"}>>
UnconfigureOrder(p) ==
    IF p = "linux" THEN <<{"capture"}, {"egress"}, {"route", "bypass"}, {"device", "route"}>>
                   ELSE <<{"route"}, {"dns"}>>
Additive == {"egress", "capture"}   \* `ip rule add`; the others replace

VARIABLES
    platform,
    sysctl,         \* the host: each sysctl,
    table,          \* the process whose port the nftables table redirects to,
    rules,          \* how often each piece of the capture routing is installed
    found,          \* history variable: the host as the process found it
    gen,            \* processes started so far
    pc,             \* step of runEngineWithTun, in the process running or last run
    cfg,            \* its settings, and what its platform allows
    ctx,            \* "live" or "cancelled"
    failed,         \* the engine's half ends in an error
    listening,      \* its listeners are open
    prior,          \* sysctlSaver.prior
    calls,          \* calls of Manager.Shutdown still to be made
    deferred,       \* the Shutdowns runEngineWithTun has deferred
    mark,           \* upstream sockets carry the egress mark
    cursor,         \* command of the list the engine's goroutine is working off
    launched,       \* Supervisor.launched
    reported,       \* what supervise said of the first launch
    child,          \* tun2socks runs
    sup, supCursor, \* step of the supervision goroutine
    mgmt            \* the management server's half

hostVars   == <<sysctl, table, rules>>
serveVars  == <<ctx, failed, listening, mgmt>>
gwVars     == <<prior, calls>>
tunVars    == <<launched, reported, child, sup, supCursor>>
fixedVars  == <<platform, found, gen, cfg>>
vars == <<hostVars, serveVars, gwVars, tunVars, fixedVars, pc, deferred, mark, cursor>>

(* What is left of the routing without one of each of S; with one of r.    *)
BugNotThere(S) == [r \in Rules |-> IF r \in S THEN rules[r] - 1 ELSE rules[r]]
Without(S) == [r \in Rules |-> IF r \in S /\ rules[r] > 0 THEN rules[r] - 1 ELSE rules[r]]
With(r) == [rules EXCEPT ![r] = IF r \in Additive THEN @ + 1 ELSE 1]

(* unconfigureLinux, unconfigureWindows: every command is best effort, and *)
(* the static DNS servers of an adapter that is gone may not be removable. *)
Removed(S) == {Without(S)} \cup (IF "dns" \in S /\ ~child THEN {rules} ELSE {})

Alive == pc \notin {"down", "exited", "crashed"}

Fresh ==    \* a process that has done nothing yet
    /\ ctx' = "live" /\ failed' = FALSE /\ listening' = FALSE
    /\ prior' = [k \in Keys |-> "unsaved"] /\ calls' = 0 /\ deferred' = {}
    /\ mark' = FALSE /\ cursor' = 1 /\ launched' = FALSE /\ reported' = "none"
    /\ child' = FALSE /\ sup' = "none" /\ supCursor' = 1

Init ==
    /\ platform \in Platforms
    /\ sysctl \in [Keys -> Values] /\ table = NoTable /\ rules = [r \in Rules |-> 0]
    /\ found = [sysctl |-> sysctl, table |-> table, rules |-> rules]
    /\ gen = 0 /\ pc = "down" /\ cfg = [gateway |-> "off", tun |-> "off", auto |-> FALSE]
    /\ ctx = "live" /\ failed = FALSE /\ listening = FALSE
    /\ prior = [k \in Keys |-> "unsaved"] /\ calls = 0 /\ deferred = {}
    /\ mark = FALSE /\ cursor = 1 /\ launched = FALSE /\ reported = "none"
    /\ child = FALSE /\ sup = "none" /\ supCursor = 1 /\ mgmt = "absent"

-----------------------------------------------------------------------------
(* The process: runProxy and runProxyAndMgmt                               *)

(* "proxy" has no management half.  What stands in the way of a capture    *)
(* mode (privileges, nft, the binary, the platform) is found at its gate.  *)
Start ==
    /\ pc = "down" /\ gen < MaxStarts
    /\ gen' = gen + 1 /\ pc' = "listen" /\ mgmt' \in {"absent", "serving"}
    /\ \E g \in Outcomes, t \in Outcomes, a \in BOOLEAN :
          /\ platform = "windows" => g \in {"off", "unable"}
          /\ cfg' = [gateway |-> g, tun |-> t, auto |-> a]
    /\ Fresh
    /\ UNCHANGED <<platform, found, hostVars>>

(* The service manager or the user stops it.                               *)
Signal ==
    /\ Alive /\ ctx = "live" /\ ctx' = "cancelled"
    /\ UNCHANGED <<hostVars, failed, listening, mgmt, gwVars, tunVars, fixedVars, pc,
                   deferred, mark, cursor>>

(* The management half fails: the other half is cancelled.                 *)
MgmtFails ==
    /\ Alive /\ mgmt = "serving" /\ mgmt' = "returned" /\ ctx' = "cancelled"
    /\ UNCHANGED <<hostVars, failed, listening, gwVars, tunVars, fixedVars, pc,
                   deferred, mark, cursor>>

MgmtStops ==
    /\ Alive /\ mgmt = "serving" /\ ctx = "cancelled" /\ mgmt' = "returned"
    /\ UNCHANGED <<hostVars, ctx, failed, listening, gwVars, tunVars, fixedVars, pc,
                   deferred, mark, cursor>>

(* The engine's half has failed: so is the other.                          *)
EngineFailed ==
    /\ pc = "returned" /\ failed /\ mgmt = "serving" /\ ctx = "live" /\ ctx' = "cancelled"
    /\ UNCHANGED <<hostVars, failed, listening, mgmt, gwVars, tunVars, fixedVars, pc,
                   deferred, mark, cursor>>

Exit ==
    /\ pc = "returned" /\ mgmt # "serving" /\ pc' = "exited"
    /\ UNCHANGED <<hostVars, serveVars, gwVars, tunVars, fixedVars, deferred, mark, cursor>>

(* SIGKILL, a panic, a power cut that keeps the host's state.              *)
Crash ==
    /\ Alive /\ pc' = "crashed"
    /\ UNCHANGED <<hostVars, serveVars, gwVars, tunVars, fixedVars, deferred, mark, cursor>>

(* The unit's ExecStopPost runs both cleanup commands, or nothing does.    *)
AfterProcess ==
    /\ pc \in {"exited", "crashed"} /\ pc' = "down"
    /\ \/ /\ table' = NoTable
          /\ rules' = Without(Rules)
       \/ UNCHANGED <<table, rules>>
    /\ found' = [sysctl |-> sysctl, table |-> table', rules |-> rules']
    /\ mgmt' = "absent" /\ Fresh
    /\ UNCHANGED <<platform, gen, cfg, sysctl>>

-----------------------------------------------------------------------------
(* runEngineWithTun: listeners, then the gateway manager                   *)

ToEngine == <<platform, found, gen, cfg, mgmt, ctx, launched, reported, child, sup, supCursor>>

Listen ==
    /\ pc = "listen"
    /\ \/ listening' = TRUE /\ pc' = "gateway" /\ UNCHANGED failed
       \/ failed' = TRUE /\ pc' = "returned" /\ UNCHANGED listening
    /\ UNCHANGED <<ToEngine, hostVars, gwVars, deferred, mark, cursor>>

(* Manager.Start up to its first command.  A disabled gateway is shut down *)
(* like an active one; one that cannot run here is not.                    *)
GatewayGate ==
    /\ pc = "gateway"
    /\ \/ cfg.gateway = "off" /\ pc' = "mark" /\ deferred' = deferred \cup {"gateway"}
          /\ UNCHANGED <<failed, calls>>
       \/ cfg.gateway = "unable" /\ pc' = "mark" /\ UNCHANGED <<failed, calls, deferred>>
       \/ cfg.gateway = "invalid" /\ pc' = "delete" /\ failed' = TRUE /\ calls' = 1
          /\ UNCHANGED deferred
       \/ cfg.gateway = "on" /\ pc' = "sysctl" /\ UNCHANGED <<failed, calls, deferred>>
    /\ UNCHANGED <<ToEngine, hostVars, listening, prior, mark, cursor>>

(* sysctlSaver.set: read, remember, write if it differs.                   *)
BugSavesAfterWrite(k) ==
    /\ pc = "sysctl" /\ prior[k] = "unsaved"
    /\ sysctl' = [sysctl EXCEPT ![k] = "wanted"]
    /\ prior' = [prior EXCEPT ![k] = sysctl'[k]]
    /\ UNCHANGED <<ToEngine, table, rules, failed, listening, pc, calls, deferred, mark, cursor>>
SetSysctl(k) ==
    /\ pc = "sysctl" /\ prior[k] = "unsaved"
    /\ prior' = [prior EXCEPT ![k] = sysctl[k]]
    /\ sysctl' = [sysctl EXCEPT ![k] = "wanted"]
    /\ UNCHANGED <<ToEngine, table, rules, failed, listening, pc, calls, deferred, mark, cursor>>

(* A sysctl or the ruleset is refused, or nft is killed after it took      *)
(* effect: Start rolls back with a Shutdown of its own and its caller      *)
(* shuts down once more.                                                   *)
GatewayFails ==
    /\ pc = "sysctl" /\ failed' = TRUE /\ calls' = 2 /\ pc' = "delete"
    /\ \/ (\A k \in Keys : prior[k] # "unsaved") /\ table' = gen
       \/ UNCHANGED table
    /\ UNCHANGED <<ToEngine, sysctl, rules, listening, prior, deferred, mark, cursor>>

(* One nft transaction replaces whatever table there was.                  *)
BugRedirectFirst ==
    /\ pc = "sysctl" /\ ctx = "live"
    /\ table' = gen /\ deferred' = deferred \cup {"gateway"} /\ pc' = "mark"
    /\ UNCHANGED <<ToEngine, sysctl, rules, failed, listening, gwVars, mark, cursor>>
InstallRules ==
    /\ pc = "sysctl" /\ \A k \in Keys : prior[k] # "unsaved"
    /\ ctx = "live"
    /\ table' = gen /\ deferred' = deferred \cup {"gateway"} /\ pc' = "mark"
    /\ UNCHANGED <<ToEngine, sysctl, rules, failed, listening, gwVars, mark, cursor>>

(* Manager.Shutdown                                                        *)
DeleteTable ==
    /\ pc = "delete" /\ table' = NoTable /\ pc' = "restore"
    /\ UNCHANGED <<ToEngine, sysctl, rules, failed, listening, gwVars, deferred, mark, cursor>>

RestoreSysctl(k) ==
    /\ pc = "restore" /\ prior[k] # "unsaved"
    /\ sysctl' = [sysctl EXCEPT ![k] = prior[k]]
    /\ prior' = [prior EXCEPT ![k] = "unsaved"]
    /\ UNCHANGED <<ToEngine, table, rules, failed, listening, pc, calls, deferred, mark, cursor>>

Restored ==
    /\ pc = "restore" /\ \A k \in Keys : prior[k] = "unsaved"
    /\ calls' = calls - 1
    /\ IF calls > 1 THEN pc' = "delete" /\ UNCHANGED listening
                    ELSE pc' = "returned" /\ listening' = FALSE
    /\ UNCHANGED <<ToEngine, hostVars, failed, prior, deferred, mark, cursor>>

-----------------------------------------------------------------------------
(* runEngineWithTun: the supervisor's Start                                *)

Mark ==
    /\ pc = "mark" /\ mark' = TRUE /\ pc' = "tun"
    /\ UNCHANGED <<ToEngine, hostVars, failed, listening, gwVars, deferred, cursor>>

TunGate ==
    /\ pc = "tun"
    /\ \/ cfg.tun = "off" /\ pc' = "serve" /\ deferred' = deferred \cup {"tun"}
          /\ UNCHANGED <<failed, mark>>
       \/ cfg.tun = "unable" /\ pc' = "serve" /\ mark' = FALSE /\ UNCHANGED <<failed, deferred>>
       \/ cfg.tun = "invalid" /\ pc' = "shutdown" /\ failed' = TRUE /\ UNCHANGED <<mark, deferred>>
       \/ cfg.tun = "on" /\ pc' = (IF cfg.auto /\ platform = "linux" THEN "preclean" ELSE "launch")
          /\ UNCHANGED <<failed, mark, deferred>>
    /\ UNCHANGED <<ToEngine, hostVars, listening, gwVars, cursor>>

(* configureLinux first removes what a killed process left.  Under a       *)
(* cancelled context the commands do not run.                              *)
BugPreCleanDevice ==
    /\ pc = "preclean" /\ pc' = "configure" /\ cursor' = 1
    /\ rules' = IF ctx = "live" THEN Without({"device", "route"}) ELSE rules
    /\ UNCHANGED <<ToEngine, sysctl, table, failed, listening, gwVars, deferred, mark>>
PreClean ==
    /\ pc = "preclean"
    /\ IF cursor <= Len(UnconfigureOrder(platform))
       THEN /\ rules' = (IF ctx = "live" THEN Without(UnconfigureOrder(platform)[cursor])
                                       ELSE rules)
            /\ cursor' = cursor + 1 /\ UNCHANGED pc
       ELSE pc' = "configure" /\ cursor' = 1 /\ UNCHANGED rules
    /\ UNCHANGED <<ToEngine, sysctl, table, failed, listening, gwVars, deferred, mark>>

(* `ip tuntap add` refuses an existing device, `netsh` a missing adapter.  *)
(* A command that fails may have been killed after it took effect.         *)
Configure ==
    /\ pc = "configure" /\ cursor <= Len(ConfigureOrder(platform)) /\ ctx = "live"
    /\ LET r == ConfigureOrder(platform)[cursor] IN
          /\ r = "device" => rules[r] = 0
          /\ platform = "windows" => child
          /\ rules' = With(r)
    /\ cursor' = cursor + 1
    /\ UNCHANGED <<ToEngine, sysctl, table, failed, listening, pc, gwVars, deferred, mark>>

ConfigureFails ==
    /\ pc = "configure" /\ cursor <= Len(ConfigureOrder(platform))
    /\ rules' \in {rules, With(ConfigureOrder(platform)[cursor])}
    /\ failed' = TRUE /\ pc' = "undo" /\ cursor' = 1
    /\ UNCHANGED <<ToEngine, sysctl, table, listening, gwVars, deferred, mark>>

(* On Linux the process is launched on the finished routing, on Windows    *)
(* the adapter it creates is configured afterwards.                        *)
Configured ==
    /\ pc = "configure" /\ cursor > Len(ConfigureOrder(platform)) /\ cursor' = 1
    /\ IF platform = "linux"
       THEN pc' = "launch" /\ UNCHANGED deferred
       ELSE pc' = "serve" /\ deferred' = deferred \cup {"tun"}
    /\ UNCHANGED <<ToEngine, hostVars, failed, listening, gwVars, mark>>

Launch ==
    /\ pc = "launch" /\ pc' = "await" /\ launched' = TRUE /\ sup' = "launch"
    /\ UNCHANGED <<fixedVars, hostVars, serveVars, gwVars, reported, child, supCursor,
                   deferred, mark, cursor>>

Launched ==
    /\ pc = "await"
    /\ \/ /\ reported = "ok" /\ platform = "windows" /\ cfg.auto
          /\ pc' = "configure" /\ UNCHANGED <<deferred, failed>>
       \/ /\ reported = "ok" /\ ~(platform = "windows" /\ cfg.auto)
          /\ pc' = "serve" /\ deferred' = deferred \cup {"tun"} /\ UNCHANGED failed
       \/ /\ reported = "error"
          /\ pc' = "undo" /\ failed' = TRUE /\ UNCHANGED deferred
    /\ UNCHANGED <<ToEngine, hostVars, listening, gwVars, mark, cursor>>

(* teardown, from Start ("undo") and from Shutdown ("teardown").           *)
Unconfigure ==
    /\ pc \in {"undo", "teardown"}
    /\ IF cfg.auto /\ cursor <= Len(UnconfigureOrder(platform))
       THEN /\ rules' \in Removed(UnconfigureOrder(platform)[cursor])
            /\ cursor' = cursor + 1 /\ UNCHANGED <<pc, listening>>
       ELSE /\ cursor' = 1 /\ UNCHANGED rules
            /\ IF pc = "undo" THEN pc' = "shutdown" /\ UNCHANGED listening
                              ELSE pc' = "unmark" /\ listening' = FALSE
    /\ UNCHANGED <<ToEngine, sysctl, table, failed, gwVars, deferred, mark>>

-----------------------------------------------------------------------------
(* runEngineWithTun: Serve, and the deferred calls                         *)

(* Serve closes every listener before it returns: when cancelled ...       *)
AfterServe == IF "tun" \in deferred THEN "shutdown" ELSE "unmark"
ServeStops ==
    /\ pc = "serve" /\ ctx = "cancelled" /\ listening' = FALSE /\ pc' = AfterServe
    /\ UNCHANGED <<ToEngine, hostVars, failed, gwVars, deferred, mark, cursor>>

(* ... or when one listener fails.                                         *)
ServeFails ==
    /\ pc = "serve" /\ failed' = TRUE /\ listening' = FALSE /\ pc' = AfterServe
    /\ UNCHANGED <<ToEngine, hostVars, gwVars, deferred, mark, cursor>>

(* Supervisor.Shutdown waits for the supervision goroutine, or for         *)
(* teardownTimeout, and tears down in any case.                            *)
BugWaitsForever ==
    /\ pc = "shutdown"
    /\ IF launched THEN sup = "done" /\ pc' = "teardown" /\ UNCHANGED listening
                   ELSE pc' = "unmark" /\ listening' = FALSE
    /\ UNCHANGED <<ToEngine, hostVars, failed, gwVars, deferred, mark, cursor>>
BugTrustsSupervise ==
    /\ pc = "shutdown" /\ pc' = "unmark" /\ listening' = FALSE
    /\ UNCHANGED <<ToEngine, hostVars, failed, gwVars, deferred, mark, cursor>>
ShutdownTun ==
    /\ pc = "shutdown"
    /\ IF launched THEN pc' = "teardown" /\ UNCHANGED listening
                   ELSE pc' = "unmark" /\ listening' = FALSE
    /\ UNCHANGED <<ToEngine, hostVars, failed, gwVars, deferred, mark, cursor>>

Unmark ==
    /\ pc = "unmark" /\ mark' = FALSE
    /\ IF "gateway" \in deferred THEN pc' = "delete" /\ calls' = 1
                                 ELSE pc' = "returned" /\ UNCHANGED calls
    /\ UNCHANGED <<ToEngine, hostVars, failed, listening, prior, deferred, cursor>>

-----------------------------------------------------------------------------
(* supervise, and the process it runs                                      *)

ToSupervise == <<fixedVars, sysctl, table, serveVars, gwVars, pc, deferred, mark, cursor, launched>>

LaunchChild ==
    /\ Alive /\ sup = "launch"
    /\ \/ /\ ctx = "live" /\ child' = TRUE /\ sup' = "running"
          /\ reported' = IF reported = "none" THEN "ok" ELSE reported
       \/ /\ reported = "none" /\ reported' = "error" /\ sup' = "done" /\ UNCHANGED child
       \/ /\ reported # "none" /\ sup' = "backoff" /\ UNCHANGED <<reported, child>>
    /\ UNCHANGED <<ToSupervise, rules, supCursor>>

(* tun2socks ends, by itself or killed once the context is cancelled; on   *)
(* Windows its adapter goes with it.                                       *)
ChildEnds ==
    /\ Alive /\ child /\ child' = FALSE
    /\ rules' = IF platform = "windows" THEN Without({"route"}) ELSE rules
    /\ UNCHANGED <<ToSupervise, reported, sup, supCursor>>

ChildWaited ==
    /\ Alive /\ sup = "running" /\ ~child
    /\ sup' = IF ctx = "cancelled" THEN "teardown" ELSE "backoff"
    /\ UNCHANGED <<ToSupervise, rules, reported, child, supCursor>>

Backoff ==
    /\ Alive /\ sup = "backoff"
    /\ \/ ctx = "cancelled" /\ sup' = "teardown"
       \/ sup' = "launch"
    /\ UNCHANGED <<ToSupervise, rules, reported, child, supCursor>>

SuperviseTeardown ==
    /\ Alive /\ sup = "teardown"
    /\ IF cfg.auto /\ supCursor <= Len(UnconfigureOrder(platform))
       THEN /\ rules' \in Removed(UnconfigureOrder(platform)[supCursor])
            /\ supCursor' = supCursor + 1 /\ UNCHANGED sup
       ELSE sup' = "done" /\ supCursor' = 1 /\ UNCHANGED rules
    /\ UNCHANGED <<ToSupervise, reported, child>>

-----------------------------------------------------------------------------
Terminated == pc = "down" /\ gen = MaxStarts /\ UNCHANGED vars

EngineStep ==
    \/ Listen \/ GatewayGate \/ (\E k \in Keys : SetSysctl(k)) \/ GatewayFails \/ InstallRules
    \/ DeleteTable \/ (\E k \in Keys : RestoreSysctl(k)) \/ Restored
    \/ Mark \/ TunGate \/ PreClean \/ Configure \/ ConfigureFails \/ Configured
    \/ Launch \/ Launched \/ Unconfigure \/ ServeStops \/ ShutdownTun \/ Unmark
    \/ EngineFailed \/ Exit

Next ==
    \/ Start \/ Signal \/ MgmtFails \/ MgmtStops \/ Crash \/ AfterProcess
    \/ EngineStep \/ ServeFails
    \/ LaunchChild \/ ChildEnds \/ ChildWaited \/ Backoff \/ SuperviseTeardown
    \/ Terminated

(* Goroutines run, commands and the waits with a timeout end, a cancelled  *)
(* server returns.  Nobody has to signal, nothing has to fail; the child   *)
(* need not die, nor supervision end, before the process does.             *)
Fairness == WF_vars(EngineStep) /\ WF_vars(MgmtStops) /\ WF_vars(LaunchChild)

Spec     == Init /\ [][Next]_vars
FairSpec == Spec /\ Fairness

-----------------------------------------------------------------------------
(* Properties                                                              *)

TypeOK ==
    /\ platform \in Platforms
    /\ sysctl \in [Keys -> Values] /\ table \in Nat /\ rules \in [Rules -> Nat]
    /\ found \in [sysctl : [Keys -> Values], table : Nat, rules : [Rules -> Nat]]
    /\ gen \in Nat /\ cfg \in [gateway : Outcomes, tun : Outcomes, auto : BOOLEAN]
    /\ pc \in {"down", "listen", "gateway", "sysctl", "delete", "restore", "mark", "tun",
               "preclean", "configure", "launch", "await", "undo", "serve", "shutdown",
               "teardown", "unmark", "returned", "exited", "crashed"}
    /\ ctx \in {"live", "cancelled"} /\ failed \in BOOLEAN /\ listening \in BOOLEAN
    /\ prior \in [Keys -> {"unsaved"} \cup Values] /\ calls \in 0..2
    /\ deferred \subseteq {"gateway", "tun"} /\ mark \in BOOLEAN
    /\ cursor \in 1..6 /\ launched \in BOOLEAN /\ reported \in {"none", "ok", "error"}
    /\ child \in BOOLEAN /\ sup \in {"none", "launch", "running", "backoff", "teardown", "done"}
    /\ supCursor \in 1..6 /\ mgmt \in {"absent", "serving", "returned"}

(* "`ip rule add` is additive": however often processes are killed half    *)
(* way, no restart stacks a second copy.                                   *)
NoStackedRules == \A r \in Rules : rules[r] <= 1

(* Traffic is never pointed at a capture table without its exceptions: the *)
(* engine's own traffic and the bypassed destinations, whichever command   *)
(* failed and whenever the process died.                                   *)
CaptureNeverBare ==
    rules["capture"] > 0 => rules["egress"] > 0 /\ rules["bypass"] > 0 /\ rules["route"] > 0

(* From the moment capture is up until the process ends, connections the   *)
(* engine still serves are marked as long as anything captures them.       *)
CaptureIsMarked == (launched /\ cfg.auto /\ Alive /\ rules["capture"] > 0) => mark

(* Capture is sound: installed once, never without its exceptions, marked. *)
CaptureSound == NoStackedRules /\ CaptureNeverBare /\ CaptureIsMarked

(* What is served is what was configured: the table redirects to this      *)
(* process, all sysctls are set and, on Linux, all the routing is there.   *)
ServingMeansInForce ==
    (pc = "serve" /\ ctx = "live") =>
        /\ cfg.gateway = "on" => table = gen /\ \A k \in Keys : sysctl[k] = "wanted"
        /\ (cfg.tun = "on" /\ cfg.auto /\ platform = "linux") =>
              \A r \in Rules \ {"dns"} : rules[r] = 1

(* A process that ends by itself, after success, cancellation or failure   *)
(* at any step, has put every sysctl back, leaves no redirect and no       *)
(* routing of its own, and nothing of an earlier one that it took over;    *)
(* static DNS servers excepted (DnsGivenBack).                             *)
GivenBack ==
    pc = "exited" =>
        /\ sysctl = found.sysctl
        /\ table = NoTable \/ table = found.table
        /\ \A r \in Rules \ {"dns"} : rules[r] <= found.rules[r]
        /\ "gateway" \in deferred => table = NoTable
        /\ (launched /\ cfg.auto) => \A r \in Rules \ {"dns"} : rules[r] = 0

(* A cancelled or failed process ends, whatever its child does.            *)
Stops == (Alive /\ (ctx = "cancelled" \/ failed)) ~> ~Alive

(* Supervisor.Shutdown: callers run it "after cancelling the context".     *)
CancelledFirst == (pc = "shutdown" /\ launched) => ctx = "cancelled"

(* "leaving a dead resolver configured on a vanished adapter is exactly    *)
(* the kind of state" teardown is there to remove.                         *)
DnsGivenBack == (pc = "exited" /\ launched /\ cfg.auto) => rules["dns"] = 0

(* A restarted child "recovers without user action": while it runs and the *)
(* engine serves, captured traffic reaches it.                             *)
RestartRecovers ==
    (pc = "serve" /\ ctx = "live" /\ cfg.tun = "on" /\ cfg.auto /\ child) => rules["route"] = 1

(* "the rules can never name a port nothing is serving".                   *)
RedirectIsServed == (Alive /\ table = gen) => listening
=============================================================================
