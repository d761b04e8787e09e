--------------------------- MODULE SettingsReload ---------------------------
(***************************************************************************)
(* How settings.json reaches a running process.                            *)
(*                                                                         *)
(* There is one file and four in-memory views of it: the management        *)
(* server's cache, the proxy runtime's snapshot, the directory the         *)
(* category store points at and the configuration of the adblock store.    *)
(* A view is brought up to date by a PUT /api/settings handler (through    *)
(* the OnSettingsSaved hook when proxy and management share a process) or  *)
(* by the watcher goroutine of the runtime, and neither holds a lock       *)
(* across its steps.                                                       *)
(*                                                                         *)
(* Data abstraction: the value of a field is the serial number of the save *)
(* that last set it, so a document shows which saves it contains.  Four    *)
(* fields stand for the four ways a field is consumed: read per request    *)
(* ("ui_language"), pushed into a store only when it changed               *)
(* ("categories_dir"), pushed into a store on every reload ("adblock") and *)
(* bound at startup ("mgmt_port").                                         *)
(***************************************************************************)
EXTENDS Naturals, Sequences, FiniteSets

CONSTANTS
    Handlers,       \* goroutines serving PUT /api/settings
    Watcher,        \* the watch-loop goroutine of the runtime
    CoLocated,      \* TRUE: `webfilter run`; FALSE: `proxy` and `mgmt` apart
    Patches,        \* the sets of fields a PUT or a manual edit may change
    Prompt,         \* TRUE: a PUT needs less than the debounce interval from
                    \* its rename to its end
    QuietStart,     \* TRUE: nobody writes between a load at startup and the
                    \* registration of the watch
    MaxSaves,       \* bound: documents written by PUTs and manual edits
    MaxEdits,       \* bound: manual edits among them
    MaxRestarts     \* bound: process restarts

Fields    == {"ui_language", "categories_dir", "adblock", "mgmt_port"}
HotFields == {"ui_language", "categories_dir", "adblock"}
Appliers  == Handlers \cup {Watcher}

ASSUME HandlersAssumption == Watcher \notin Handlers
ASSUME PatchesAssumption  == Patches \subseteq SUBSET Fields
ASSUME BoundsAssumption   == /\ MaxSaves \in Nat /\ MaxEdits \in Nat
                             /\ MaxRestarts \in Nat
ASSUME ModesAssumption    == {CoLocated, Prompt, QuietStart} \subseteq BOOLEAN

Settings == [Fields -> Nat]

VARIABLES
    disk,       \* settings.json
    readable,   \* FALSE while a manual edit has left it unparsable
    history,    \* history variable: the documents settings.json has held
    serial,     \* number of the last save (names the values a save writes)
    cache,      \* mgmtapi.Server.settings
    live,       \* state.Runtime.settings
    catDir,     \* base directory of the runtime's category store
    adCfg,      \* configuration of the runtime's adblock store
    boot,       \* the settings the running proxy was built from
    pc,         \* per goroutine: its next step
    next,       \* per goroutine: the document it saves or applies
    old,        \* per goroutine: `before` of a PUT, then `live` of ApplySettings
    pending,    \* per handler: restart_required of its last answer
    events,     \* file-system events the watch loop has not received
    timer,      \* TRUE while the debounce timer runs
    reload,     \* the watch loop's reload channel, capacity one
    watching,   \* the watch is registered
    edits, restarts

storeVars   == <<disk, readable, history, serial>>
runtimeVars == <<live, catDir, adCfg, boot>>
watchVars   == <<events, timer, reload, watching>>
boundVars   == <<edits, restarts>>
vars == <<storeVars, runtimeVars, watchVars, boundVars,
          cache, pc, next, old, pending>>

(* Mutants, named Bug...: defects each property below must notice.         *)
BugMergeAll(l, n)       == [f \in Fields |-> n[f]]
BugMergeForgets(l, n)   ==
    [f \in Fields |-> IF f \in HotFields \ {"adblock"} THEN n[f] ELSE l[f]]
BugOverlayUnseeded(cur, touched, n) ==
    [f \in Fields |-> IF f \in touched THEN n ELSE 0]

MergeHot(l, n) == [f \in Fields |-> IF f \in HotFields THEN n[f] ELSE l[f]]
Merged(a)      == MergeHot(old[a], next[a])
RestartRequired(o, n) == {f \in Fields \ HotFields : o[f] # n[f]}
MergeSettings(cur, touched, n) ==
    [f \in Fields |-> IF f \in touched THEN n ELSE cur[f]]

ApplySteps == {"read", "store", "categories", "adblock"}

Init ==
    LET d == [f \in Fields |-> 0] IN
    /\ disk = d /\ readable = TRUE /\ history = <<d>> /\ serial = 0
    /\ cache = d /\ live = d /\ catDir = 0 /\ adCfg = 0 /\ boot = d
    /\ pc = [a \in Appliers |-> "idle"]
    /\ next = [a \in Appliers |-> d]
    /\ old = [a \in Appliers |-> d]
    /\ pending = [h \in Handlers |-> {}]
    /\ events = 0 /\ timer = FALSE /\ reload = FALSE /\ watching = FALSE
    /\ edits = 0 /\ restarts = 0

BugDeafAfterFirstSave ==
    events' = IF watching /\ Len(history) = 1 THEN events + 1 ELSE events

(* A change in the watched directory; nothing is queued before the watch.  *)
Notify == events' = IF watching THEN events + 1 ELSE events

WritersMayWrite == QuietStart => watching

-----------------------------------------------------------------------------
(* PUT /api/settings                                                       *)

(* before := s.Settings(); merged := MergeSettings(before, body)           *)
BeginPut(h) ==
    /\ pc[h] = "idle" /\ serial < MaxSaves /\ WritersMayWrite
    /\ \E touched \in Patches :
          next' = [next EXCEPT ![h] = MergeSettings(cache, touched, serial + 1)]
    /\ serial' = serial + 1
    /\ old' = [old EXCEPT ![h] = cache]
    /\ pending' = [pending EXCEPT ![h] = {}]
    /\ pc' = [pc EXCEPT ![h] = "temp"]
    /\ UNCHANGED <<disk, readable, history, cache, runtimeVars, watchVars, boundVars>>

(* The body is refused, or the file cannot be written: nothing was changed. *)
FailPut(h) ==
    /\ pc[h] = "temp"
    /\ pc' = [pc EXCEPT ![h] = "idle"]
    /\ UNCHANGED <<storeVars, cache, runtimeVars, watchVars, boundVars,
                   next, old, pending>>

(* atomicWriteFile creates its temporary file in the watched directory ... *)
CreateTemp(h) ==
    /\ pc[h] = "temp"
    /\ Notify
    /\ pc' = [pc EXCEPT ![h] = "rename"]
    /\ UNCHANGED <<storeVars, cache, runtimeVars, timer, reload, watching,
                   boundVars, next, old, pending>>

(* ... and renames it into place.                                          *)
RenameIntoPlace(h) ==
    /\ pc[h] = "rename"
    /\ disk' = next[h] /\ readable' = TRUE
    /\ history' = Append(history, next[h])
    /\ Notify
    /\ pc' = [pc EXCEPT ![h] = "cache"]
    /\ UNCHANGED <<serial, cache, runtimeVars, timer, reload, watching,
                   boundVars, next, old, pending>>

BugCacheForgotten(h) ==
    /\ pc[h] = "cache"
    /\ pending' = [pending EXCEPT ![h] = RestartRequired(old[h], next[h])]
    /\ pc' = [pc EXCEPT ![h] = IF CoLocated THEN "read" ELSE "idle"]
    /\ UNCHANGED <<storeVars, cache, runtimeVars, watchVars, boundVars, next, old>>

(* The cache is replaced under settingsMu, after the file; the answer's    *)
(* restart_required compares the document with `before`.                   *)
StoreCache(h) ==
    /\ pc[h] = "cache"
    /\ cache' = next[h]
    /\ pending' = [pending EXCEPT ![h] = RestartRequired(old[h], next[h])]
    /\ pc' = [pc EXCEPT ![h] = IF CoLocated THEN "read" ELSE "idle"]
    /\ UNCHANGED <<storeVars, runtimeVars, watchVars, boundVars, next, old>>

-----------------------------------------------------------------------------
(* Runtime.ApplySettings, run by a handler's hook or by the watcher        *)

ApplyRead(a) ==
    /\ pc[a] = "read"
    /\ old' = [old EXCEPT ![a] = live]
    /\ pc' = [pc EXCEPT ![a] = "store"]
    /\ UNCHANGED <<storeVars, cache, runtimeVars, watchVars, boundVars, next, pending>>

BugNeverRepoints(a) ==
    /\ pc[a] = "store"
    /\ live' = Merged(a)
    /\ pc' = [pc EXCEPT ![a] = "adblock"]
    /\ UNCHANGED <<storeVars, cache, catDir, adCfg, boot, watchVars, boundVars,
                   next, old, pending>>
BugAdblockOnlyIfChanged(a) ==
    /\ pc[a] = "store"
    /\ live' = Merged(a)
    /\ pc' = [pc EXCEPT ![a] =
                 IF Merged(a)["adblock"] # old[a]["adblock"]
                 THEN "adblock" ELSE "idle"]
    /\ UNCHANGED <<storeVars, cache, catDir, adCfg, boot, watchVars, boundVars,
                   next, old, pending>>

ApplyStore(a) ==
    /\ pc[a] = "store"
    /\ live' = Merged(a)
    /\ pc' = [pc EXCEPT ![a] =
                 IF Merged(a)["categories_dir"] # old[a]["categories_dir"]
                 THEN "categories" ELSE "adblock"]
    /\ UNCHANGED <<storeVars, cache, catDir, adCfg, boot, watchVars, boundVars,
                   next, old, pending>>

ApplyCategories(a) ==
    /\ pc[a] = "categories"
    /\ catDir' = Merged(a)["categories_dir"]
    /\ pc' = [pc EXCEPT ![a] = "adblock"]
    /\ UNCHANGED <<storeVars, cache, live, adCfg, boot, watchVars, boundVars,
                   next, old, pending>>

ApplyAdblock(a) ==
    /\ pc[a] = "adblock"
    /\ adCfg' = Merged(a)["adblock"]
    /\ pc' = [pc EXCEPT ![a] = "idle"]
    /\ UNCHANGED <<storeVars, cache, live, catDir, boot, watchVars, boundVars,
                   next, old, pending>>

-----------------------------------------------------------------------------
(* config.WatchDir and Runtime.ReloadSettings                              *)

(* Runtime.Start: the watch is registered after Runtime.New has loaded.    *)
StartWatch ==
    /\ ~watching
    /\ watching' = TRUE
    /\ UNCHANGED <<storeVars, cache, runtimeVars, events, timer, reload,
                   boundVars, pc, next, old, pending>>

BugUnguardedReceive ==
    /\ pc[Watcher] = "idle"
    /\ events' = events - 1 /\ timer' = TRUE
    /\ UNCHANGED <<storeVars, cache, runtimeVars, reload, watching, boundVars,
                   pc, next, old, pending>>

(* The loop receives an event only between two reloads, and (re)starts the *)
(* timer.                                                                  *)
ReceiveEvent ==
    /\ pc[Watcher] = "idle" /\ events > 0
    /\ events' = events - 1 /\ timer' = TRUE
    /\ UNCHANGED <<storeVars, cache, runtimeVars, reload, watching, boundVars,
                   pc, next, old, pending>>

(* The timer's own goroutine: a send that is dropped when one is waiting.  *)
(* Receiving an event starts the timer anew, so with Prompt it outlasts    *)
(* every PUT whose event has been received.                                *)
TimerFires ==
    /\ timer
    /\ Prompt => events > 0 \/ \A h \in Handlers : pc[h] \notin {"cache"} \cup ApplySteps
    /\ timer' = FALSE /\ reload' = TRUE
    /\ UNCHANGED <<storeVars, cache, runtimeVars, events, watching, boundVars,
                   pc, next, old, pending>>

BugErrorLoadsDefaults ==
    /\ pc[Watcher] = "idle" /\ reload
    /\ reload' = FALSE
    /\ next' = [next EXCEPT ![Watcher] = IF readable THEN disk ELSE [f \in Fields |-> 0]]
    /\ pc' = [pc EXCEPT ![Watcher] = "read"]
    /\ UNCHANGED <<storeVars, cache, runtimeVars, events, timer, watching,
                   boundVars, old, pending>>

(* ReloadSettings: LoadSettings, and on an error the old settings stay.    *)
(* The file is always there: no writer of the program removes it.          *)
BeginReload ==
    /\ pc[Watcher] = "idle" /\ reload
    /\ reload' = FALSE
    /\ IF readable
       THEN /\ next' = [next EXCEPT ![Watcher] = disk]
            /\ pc' = [pc EXCEPT ![Watcher] = "read"]
       ELSE UNCHANGED <<next, pc>>
    /\ UNCHANGED <<storeVars, cache, runtimeVars, events, timer, watching,
                   boundVars, old, pending>>

-----------------------------------------------------------------------------
(* The environment                                                         *)

(* settings.json edited in place by hand: an editor that truncates and     *)
(* writes leaves it unparsable for a while.                                *)
EditBegins ==
    /\ serial < MaxSaves /\ edits < MaxEdits /\ readable /\ WritersMayWrite
    /\ readable' = FALSE
    /\ edits' = edits + 1
    /\ Notify
    /\ UNCHANGED <<disk, history, serial, cache, runtimeVars, timer, reload,
                   watching, restarts, pc, next, old, pending>>

EditEnds ==
    /\ ~readable
    /\ \E touched \in Patches :
          LET d == MergeSettings(disk, touched, serial + 1) IN
          /\ disk' = d /\ history' = Append(history, d)
    /\ readable' = TRUE /\ serial' = serial + 1
    /\ Notify
    /\ UNCHANGED <<cache, runtimeVars, timer, reload, watching, boundVars,
                   pc, next, old, pending>>

(* The process with the proxy engine dies at any step and starts again:    *)
(* Runtime.New loads the file, the watch is registered later.  Handlers in *)
(* the same process die with it, whatever they were doing; those of the    *)
(* other one write, with QuietStart, not before the watch.                 *)
RestartProxy ==
    /\ restarts < MaxRestarts /\ readable
    /\ QuietStart /\ ~CoLocated => \A h \in Handlers : pc[h] = "idle"
    /\ restarts' = restarts + 1
    /\ live' = disk /\ boot' = disk
    /\ catDir' = disk["categories_dir"] /\ adCfg' = disk["adblock"]
    /\ events' = 0 /\ timer' = FALSE /\ reload' = FALSE /\ watching' = FALSE
    /\ IF CoLocated
       THEN /\ pc' = [a \in Appliers |-> "idle"]
            /\ cache' = disk
       ELSE /\ pc' = [pc EXCEPT ![Watcher] = "idle"]
            /\ UNCHANGED cache
    /\ UNCHANGED <<storeVars, edits, next, old, pending>>

(* `webfilter mgmt` alone dies and starts again.                           *)
RestartMgmt ==
    /\ ~CoLocated /\ restarts < MaxRestarts /\ readable
    /\ restarts' = restarts + 1
    /\ cache' = disk
    /\ pc' = [a \in Appliers |-> IF a = Watcher THEN pc[a] ELSE "idle"]
    /\ UNCHANGED <<storeVars, runtimeVars, watchVars, edits, next, old, pending>>

-----------------------------------------------------------------------------
HandlerStep(h) == \/ CreateTemp(h) \/ RenameIntoPlace(h) \/ StoreCache(h)
ApplyStep(a)   == \/ ApplyRead(a) \/ ApplyStore(a)
                  \/ ApplyCategories(a) \/ ApplyAdblock(a)

Next ==
    \/ \E h \in Handlers : BeginPut(h) \/ FailPut(h) \/ HandlerStep(h)
    \/ \E a \in Appliers : ApplyStep(a)
    \/ StartWatch \/ ReceiveEvent \/ TimerFires \/ BeginReload
    \/ EditBegins \/ EditEnds \/ RestartProxy \/ RestartMgmt

(* Goroutines that can run do run, the kernel delivers the events it has   *)
(* queued and an armed timer fires.  Nobody has to send a PUT, and an      *)
(* editor finishes what it began.                                          *)
Fairness ==
    /\ \A h \in Handlers : WF_vars(HandlerStep(h))
    /\ \A a \in Appliers : WF_vars(ApplyStep(a))
    /\ WF_vars(StartWatch) /\ WF_vars(ReceiveEvent)
    /\ WF_vars(TimerFires) /\ WF_vars(BeginReload)
    /\ WF_vars(EditEnds)

Spec     == Init /\ [][Next]_vars
FairSpec == Spec /\ Fairness

-----------------------------------------------------------------------------
(* Properties                                                              *)

Steps == {"idle", "temp", "rename", "cache"} \cup ApplySteps

TypeOK ==
    /\ disk \in Settings /\ cache \in Settings /\ live \in Settings /\ boot \in Settings
    /\ readable \in BOOLEAN /\ history \in Seq(Settings) /\ serial \in Nat
    /\ catDir \in Nat /\ adCfg \in Nat
    /\ pc \in [Appliers -> Steps]
    /\ next \in [Appliers -> Settings] /\ old \in [Appliers -> Settings]
    /\ pending \in [Handlers -> SUBSET Fields]
    /\ events \in Nat
    /\ timer \in BOOLEAN /\ reload \in BOOLEAN /\ watching \in BOOLEAN
    /\ edits \in Nat /\ restarts \in Nat

HotPart(d) == [f \in HotFields |-> d[f]]

(* "The live snapshot must never contradict what is actually running"      *)
(* (MergeHot): whatever was saved since, by however many writers, a field  *)
(* bound at startup reads as the value the process was started with.       *)
LiveMatchesRunning == live["mgmt_port"] = boot["mgmt_port"]

(* The runtime never serves from a mixture of two saves: the hot fields of *)
(* its snapshot are together the hot fields of one document settings.json  *)
(* has held, however ApplySettings calls overlap.                          *)
SnapshotIsOneDocument ==
    \E i \in DOMAIN history : HotPart(live) = HotPart(history[i])

(* Both at once: the snapshot is sound.                                    *)
SnapshotSound == LiveMatchesRunning /\ SnapshotIsOneDocument

(* Split deployment: the proxy's hot settings follow the file's.  Whatever  *)
(* is saved, edited or restarted, what is in effect is a document the file *)
(* has held, it never steps back to an older one (ReloadSettings runs in   *)
(* one goroutine, after the events of every document it has not seen), and *)
(* it gets to the newest: the detailed module implements Follower.         *)
File == INSTANCE Follower WITH
            history <- [i \in DOMAIN history |-> HotPart(history[i])],
            seen    <- HotPart(live)
FollowsFile == File!Spec

AllIdle == \A a \in Appliers : pc[a] = "idle"
Quiet   == /\ AllIdle /\ watching /\ events = 0 /\ ~timer /\ ~reload /\ readable

(* Once everybody is idle and no event is outstanding, the hot fields in   *)
(* effect and the adblock configuration are those of the file ("hot-reload *)
(* via fsnotify watchers").                                                *)
QuietMeansApplied ==
    Quiet => HotPart(live) = HotPart(disk) /\ adCfg = disk["adblock"]

(* And that state is reached: the saved hot settings take effect for good. *)
EventuallyApplied ==
    <>[](HotPart(live) = HotPart(disk) /\ adCfg = disk["adblock"])

(* The category store is re-pointed whenever categories_dir changes.       *)
CategoriesFollow == Quiet => catDir = live["categories_dir"]

(* "the management API and the file on disk never drift within a single    *)
(* process" (mgmtapi.Server): with no PUT in progress and no manual edit,  *)
(* the cache is the file.                                                  *)
NoDrift ==
    (edits = 0 /\ \A h \in Handlers : pc[h] = "idle") => cache = disk

(* Both caches of the file, at once.                                       *)
CachesFollow == NoDrift /\ CategoriesFollow

(* A PUT leaves every field it did not name as the file had it: with one   *)
(* handler at a time and nobody editing the file by hand, no save is       *)
(* undone by a partial update of another field.                            *)
NoLostUpdate ==
    [][edits = 0 => \A f \in Fields : disk'[f] >= disk[f]]_disk

(* "reports the fields that still need a restart" (state.go): an answer    *)
(* with an empty restart_required means nothing that is saved still waits  *)
(* for a restart.                                                          *)
PendingIsReported ==
    \A h \in Handlers :
        (pc[h] = "read" /\ cache = next[h])
            => pending[h] = RestartRequired(boot, cache)
=============================================================================
