------------------------------- MODULE Device -------------------------------
(***************************************************************************)
(* The filter on a device that somebody manages: package mobile, which     *)
(* provisions, starts and stops the engine and edits its files, and        *)
(* settingsvc.ApplyManagedConfig, which writes what the manager asks for.  *)
(*                                                                         *)
(* A settings file is [dir, port], a policy file [level, acts]; patches    *)
(* have the same keys, Absent for those they leave alone.  The process may *)
(* be killed between any two steps, and the files outlive it.              *)
(***************************************************************************)
EXTENDS Integers, Sequences, FiniteSets, TLC

CONSTANTS
    Docs,           \* the documents a manager may push
    Ports, Levels,  \* what a user may set
    Dirs, Home,     \* policies_dir, and the one of a fresh install
    Absent, NoFile, Nothing

Actors == {"life", "app", "edit"}

VARIABLES
    settings,   \* settings.json
    policy,     \* default.json, in each policies_dir
    managed,    \* managed.json
    pc,         \* where each caller of package mobile is
    mu,         \* ctl.mu: its holder
    running,    \* ctl.running
    cache,      \* ctl.mgmtSrv's copy of the settings
    serving,    \* ctl.serving: whether the goroutines still hold the listeners
    plan,       \* what ApplyManagedConfig has read, merged and validated
    seen,       \* the managed.json an edit's lock check has passed
    halfway,    \* the document whose writes were cut short
    overtaken,  \* the files somebody has written behind a document's back
    disturbed   \* whether the first provisioning was cut short or overlapped

disk   == <<settings, policy, managed>>
engine == <<mu, running, cache, serving>>
ghosts == <<halfway, overtaken, disturbed>>
vars   == <<disk, pc, engine, plan, seen, ghosts>>

MobileDefaults == [dir |-> Home, port |-> 1080]
Family == [level |-> "family", acts |-> <<>>]
Plain  == [level |-> "off", acts |-> <<>>]

Goto(c, l) == pc' = [pc EXCEPT ![c] = l]
Acquire(c) == mu = Nothing /\ mu' = c

-----------------------------------------------------------------------------
(* Every exported function provisions the files first.                     *)

Stat(c) ==
    /\ pc[c] = "stat" /\ Goto(c, IF settings = NoFile THEN "save" ELSE "bootstrap")
    /\ UNCHANGED <<disk, engine, plan, seen, ghosts>>
SaveDefaults(c) ==
    /\ pc[c] = "save" /\ Goto(c, "seed") /\ settings' = MobileDefaults
    /\ overtaken' = IF settings = NoFile THEN overtaken ELSE overtaken \cup {"settings"}
    /\ UNCHANGED <<policy, managed, engine, plan, seen, halfway, disturbed>>
SeedDefault(c) ==
    /\ pc[c] = "seed" /\ Goto(c, "bootstrap")
    /\ policy' = IF policy[Home] = NoFile THEN [policy EXCEPT ![Home] = Family] ELSE policy
    /\ UNCHANGED <<settings, managed, engine, plan, seen, ghosts>>
BootstrapRuntimeFiles(c) ==
    /\ pc[c] = "bootstrap" /\ Goto(c, "body")
    /\ policy' = IF policy[settings.dir] = NoFile THEN [policy EXCEPT ![settings.dir] = Plain] ELSE policy
    /\ disturbed' = (disturbed \/ (policy[Home] = NoFile /\ \E d \in Actors : pc[d] = "seed"))
    /\ UNCHANGED <<settings, managed, engine, plan, seen, halfway, overtaken>>
Provision(c) == Stat(c) \/ SaveDefaults(c) \/ SeedDefault(c) \/ BootstrapRuntimeFiles(c)

-----------------------------------------------------------------------------
(* Start and Stop, under ctl.mu.                                           *)

Release == mu' = Nothing /\ Goto("life", "idle")
Start ==
    /\ pc["life"] = "idle" /\ Acquire("life")
    /\ ~running /\ Goto("life", "stat")
    /\ UNCHANGED <<disk, running, cache, serving, plan, seen, ghosts>>

(* Listen binds, unless a listener of ours is still there.                 *)
Listen ==
    /\ pc["life"] = "body" /\ ~serving
    /\ \/ Goto("life", "listening") /\ UNCHANGED mu
       \/ Release
    /\ UNCHANGED <<disk, running, cache, serving, plan, seen, ghosts>>
NewServer ==
    /\ pc["life"] = "listening"
    /\ \/ Goto("life", "serve") /\ cache' = settings /\ UNCHANGED mu
       \/ Release /\ UNCHANGED cache
    /\ UNCHANGED <<disk, running, serving, plan, seen, ghosts>>
Serve ==
    /\ pc["life"] = "serve" /\ Goto("life", "tun") /\ serving' = TRUE
    /\ UNCHANGED <<disk, mu, running, cache, plan, seen, ghosts>>
StartTun ==
    /\ pc["life"] = "tun"
    /\ \/ running' = TRUE /\ Release
       \/ Goto("life", "wait") /\ UNCHANGED <<running, mu>>
    /\ UNCHANGED <<disk, cache, serving, plan, seen, ghosts>>

Stop ==
    /\ pc["life"] = "idle" /\ Acquire("life")
    /\ running /\ Goto("life", "wait")
    /\ UNCHANGED <<disk, running, cache, serving, plan, seen, ghosts>>
ServeEnds ==
    /\ pc["life"] = "wait" /\ serving /\ serving' = FALSE
    /\ UNCHANGED <<disk, pc, mu, running, cache, plan, seen, ghosts>>
Stopped ==
    /\ pc["life"] = "wait" /\ ~serving
    /\ running' = FALSE /\ cache' = Nothing /\ Release
    /\ UNCHANGED <<disk, serving, plan, seen, ghosts>>

Life ==
    \/ Start \/ Provision("life") \/ Listen \/ NewServer \/ Serve \/ StartTun
    \/ Stop \/ ServeEnds \/ Stopped

-----------------------------------------------------------------------------
(* Edits of the user, over the API or in the app, one at a time.           *)

CheckUnlocked ==
    /\ pc["edit"] = "body"
    /\ \/ managed # NoFile /\ managed.locked /\ Goto("edit", "idle") /\ UNCHANGED seen
       \/ /\ managed # NoFile => ~managed.locked
          /\ Goto("edit", "write") /\ seen' = managed
    /\ UNCHANGED <<disk, engine, plan, ghosts>>

(* MergeSettings over what the engine remembers, or over the file.  A      *)
(* server that serves does not ask for ctl.mu, the app's own bridge does.  *)
(* What an edit reads, merges and writes is one step here (SettingsReload  *)
(* and PolicyStore have them apart).                                       *)
CurrentSettings == IF running \/ serving THEN cache ELSE settings
MayEdit  == pc["edit"] = "write" /\ (mu = Nothing \/ serving)
Overtakes == pc["app"] \in {"settings", "policy", "managed", "refresh"} \/ managed # seen
Edited    == Goto("edit", "idle") /\ seen' = Nothing
UpdateSettings ==
    /\ MayEdit
    /\ \E n \in Ports : settings' = [CurrentSettings EXCEPT !.port = n]
    /\ cache' = IF running \/ serving THEN settings' ELSE cache
    /\ overtaken' = overtaken \cup {k \in {"settings"} : Overtakes}
    /\ Edited
    /\ UNCHANGED <<policy, managed, mu, running, serving, plan, halfway, disturbed>>
UpdatePolicy ==
    LET dir == CurrentSettings.dir
    IN  /\ MayEdit /\ policy[dir] # NoFile
        /\ \E l \in Levels : policy' = [policy EXCEPT ![dir].level = l]
        /\ overtaken' = overtaken \cup {k \in {"policy"} : Overtakes}
        /\ Edited
        /\ UNCHANGED <<settings, managed, engine, plan, halfway, disturbed>>
Edit == Provision("edit") \/ CheckUnlocked \/ UpdateSettings \/ UpdatePolicy

-----------------------------------------------------------------------------
(* ApplyManagedConfig                                                      *)

MergeSettings(cur, patch) ==
    [dir |-> IF patch.dir = Absent THEN cur.dir ELSE patch.dir,
     port |-> IF patch.port = Absent THEN cur.port ELSE patch.port]

(* A patch that lists categories lists all of them: what it does not      *)
(* supersede is dropped.                                                   *)
BugKeepsActions(p, patch) ==
    [level |-> IF patch.level = Absent THEN p.level ELSE patch.level,
     acts |-> IF patch.acts = Absent THEN p.acts ELSE patch.acts]
LegacyActions(names) == [n \in names |-> "block"]
MergePolicyPatch(p, patch) ==
    [level |-> IF patch.level = Absent THEN p.level ELSE patch.level,
     acts |-> CASE patch.acts # Absent -> patch.acts
                [] patch.acts = Absent /\ patch.categories # Absent -> LegacyActions(patch.categories)
                [] OTHER -> p.acts]
MergedPolicy(d, p) ==
    CASE d.json # Absent -> d.json
      [] d.json = Absent /\ d.patch # Absent -> MergePolicyPatch(IF p = NoFile THEN Plain ELSE p, d.patch)
      [] OTHER -> p

(* Everything is merged and validated before anything is written.  The     *)
(* document that is recorded is not applied again.                         *)
Forget ==
    /\ pc["app"] = "body" /\ Goto("app", "idle")
    /\ managed' = NoFile
    /\ UNCHANGED <<settings, policy, engine, plan, seen, ghosts>>
Merge(d) ==
    /\ pc["app"] = "body"
    /\ IF d.bad \/ (managed # NoFile /\ managed.doc = d)
       THEN Goto("app", "idle") /\ UNCHANGED plan
       ELSE LET s == MergeSettings(settings, d.settings)
            IN  /\ plan' = [doc |-> d, settings |-> s, policy |-> MergedPolicy(d, policy[s.dir])]
                /\ Goto("app", "settings")
    /\ UNCHANGED <<disk, engine, seen, ghosts>>

SetsSettings(d) == d.settings.dir # Absent \/ d.settings.port # Absent
SetsPolicy(d)   == d.json # Absent \/ d.patch # Absent
SaveSettings ==
    /\ pc["app"] = "settings" /\ Goto("app", "policy")
    /\ IF SetsSettings(plan.doc)
       THEN settings' = plan.settings /\ halfway' = plan.doc /\ overtaken' = overtaken \ {"settings"}
       ELSE UNCHANGED <<settings, halfway, overtaken>>
    /\ UNCHANGED <<policy, managed, engine, plan, seen, disturbed>>
SavePolicy ==
    /\ pc["app"] = "policy" /\ Goto("app", "managed")
    /\ IF SetsPolicy(plan.doc)
       THEN policy' = [policy EXCEPT ![plan.settings.dir] = plan.policy] /\ halfway' = plan.doc /\ overtaken' = overtaken \ {"policy"}
       ELSE UNCHANGED <<policy, halfway, overtaken>>
    /\ UNCHANGED <<settings, managed, engine, plan, seen, disturbed>>
SaveManagedState ==
    /\ pc["app"] = "managed" /\ Goto("app", "refresh")
    /\ managed' = [doc |-> plan.doc, locked |-> plan.doc.lock]
    /\ halfway' = Nothing
    /\ UNCHANGED <<settings, policy, engine, plan, seen, overtaken, disturbed>>
WriteFails ==
    /\ pc["app"] \in {"settings", "policy", "managed"} /\ Goto("app", "idle") /\ plan' = Nothing
    /\ UNCHANGED <<disk, engine, seen, ghosts>>

(* ApplyManagedConfigJson tells the running engine, which saves once more; *)
(* nobody looks whether that failed.                                       *)
Refresh ==
    /\ pc["app"] = "refresh" /\ mu = Nothing
    /\ \/ /\ running /\ SetsSettings(plan.doc)
          /\ settings' = plan.settings /\ cache' = plan.settings /\ overtaken' = overtaken \ {"settings"}
       \/ UNCHANGED <<settings, cache, overtaken>>
    /\ Goto("app", "idle") /\ plan' = Nothing
    /\ UNCHANGED <<policy, managed, mu, running, serving, seen, halfway, disturbed>>
Apply ==
    \/ Provision("app") \/ Forget \/ (\E d \in Docs : Merge(d))
    \/ SaveSettings \/ SavePolicy \/ SaveManagedState \/ WriteFails \/ Refresh

-----------------------------------------------------------------------------
Enter(c) ==
    /\ c \in {"app", "edit"} /\ pc[c] = "idle" /\ Goto(c, "stat")
    /\ UNCHANGED <<disk, engine, plan, seen, ghosts>>

(* Android kills the process.                                              *)
Crash ==
    /\ disturbed' = (disturbed \/ \E c \in Actors : pc[c] = "seed")
    /\ pc' = [c \in Actors |-> "idle"] /\ mu' = Nothing /\ running' = FALSE /\ cache' = Nothing
    /\ serving' = FALSE /\ plan' = Nothing /\ seen' = Nothing
    /\ UNCHANGED <<disk, halfway, overtaken>>

Init ==
    /\ settings = NoFile /\ policy = [d \in Dirs |-> NoFile] /\ managed = NoFile
    /\ pc = [c \in Actors |-> "idle"]
    /\ mu = Nothing /\ running = FALSE /\ cache = Nothing /\ serving = FALSE
    /\ plan = Nothing /\ seen = Nothing
    /\ halfway = Nothing /\ overtaken = {} /\ disturbed = FALSE

Next ==
    \/ (\E c \in Actors : Enter(c)) \/ Life \/ Edit \/ Apply \/ Crash
Spec == Init /\ [][Next]_vars

-----------------------------------------------------------------------------
(* Properties                                                              *)

(* What document d asks for is in the files.                               *)
Held(d) ==
    LET p == policy[settings.dir]
    IN  /\ d.settings.dir \in {Absent, settings.dir} /\ d.settings.port \in {Absent, settings.port}
        /\ d.json # Absent => p = d.json
        /\ d.json = Absent /\ d.patch # Absent =>
              /\ d.patch.level \in {Absent, p.level}
              /\ d.patch.acts # Absent => p.acts = d.patch.acts
              /\ d.patch.acts = Absent /\ d.patch.categories # Absent => DOMAIN p.acts = d.patch.categories

(* The document that managed.json records with a lock is in force, whatever*)
(* was killed, failed or edited since, but for two windows: a document cut *)
(* short before another came back, and an edit that had passed its check.  *)
ManagedHeld ==
    (/\ managed # NoFile /\ managed.locked
     /\ pc["app"] \notin {"policy", "managed", "refresh"}
     /\ halfway \in {Nothing, managed.doc} /\ overtaken = {}) => Held(managed.doc)

(* A document that fails validation leaves no trace.                       *)
BadLeavesNoTrace ==
    \A d \in {x \in Docs : x.bad} :
        /\ settings # NoFile => settings.port # d.settings.port
        /\ managed # NoFile => managed.doc # d

(* A fresh install filters from the first start.                           *)
FamilyBaseline == disturbed \/ policy[Home] # Plain

(* The engine that stops, or fails to start, has let go of its listeners.  *)
Rebinds == pc["life"] \in {"body", "listening"} => ~serving

DeviceSound == ManagedHeld /\ BadLeavesNoTrace /\ FamilyBaseline /\ Rebinds
=============================================================================
