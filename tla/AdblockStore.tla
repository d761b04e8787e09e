---------------------------- MODULE AdblockStore ----------------------------
(***************************************************************************)
(* The filter lists of internal/adblock: files that are downloaded,        *)
(* deleted and replaced underneath a running engine, and the engine        *)
(* compiled from them in the background while requests are served by the   *)
(* previous one.                                                           *)
(*                                                                         *)
(* One list combination is followed (the lists of one policy).  The        *)
(* content of a list file is the number of the download that wrote it,     *)
(* which is also its modification time; 0 is no file.  The engine has one  *)
(* Store, each management handler one of its own over the same directory.  *)
(* What the index says of a list is left out: nothing here depends on it.  *)
(***************************************************************************)
EXTENDS Naturals

CONSTANTS
    NLists,         \* lists of the combination, in the order of their names
    Dirs,           \* directories the settings may name
    Readers,        \* goroutines filtering requests
    Nothing,        \* no engine, no object
    MaxDownloads,   \* bound: downloads that succeed
    MaxDeletes,     \* bound: deletions
    MaxSwitches,    \* bound: changes of the directory
    MaxBuilds       \* bound: compilations at the same time

Lists == 1..NLists
NoFiles == [l \in Lists |-> 0]
Handlers == {"admin"}
Downloaders == {"run"} \cup Handlers

VARIABLES
    dir,            \* Store.dir of the engine's store
    file,           \* the list files of each directory
    serial,         \* downloads that have succeeded
    cached,         \* engines[key], or Nothing
    reader,         \* Engine, per request goroutine
    build,          \* the compilations in flight
    wanted, wake,   \* lists asked for and not there; the token that wakes Run
    round,          \* Run: the lists of the round it still has to look at
    down,           \* Download and Delete, per goroutine
    deletes, switches

fileVars   == <<file, serial>>
engineVars == <<cached, build>>
wishVars   == <<wanted, wake>>
boundVars  == <<deletes, switches>>
vars == <<dir, fileVars, engineVars, wishVars, boundVars, reader, round, down>>

NewEngine == [content |-> Nothing, mtimes |-> NoFiles, stale |-> TRUE, building |-> FALSE]
IdleRead == [pc |-> "idle", dropped |-> Nothing, next |-> 1, mtimes |-> NoFiles]
NoBuild  == [pc |-> "idle", next |-> 1, mtimes |-> NoFiles, content |-> NoFiles]
IdleDown == [pc |-> "idle", dir |-> Nothing, list |-> 0]

Installed  == {l \in Lists : file[dir][l] > 0}
Missing(m) == {l \in Lists : m[l] = 0}

Init ==
    /\ dir \in Dirs
    /\ serial = 1 /\ \E have \in SUBSET Lists :
          /\ file = [d \in Dirs |-> [l \in Lists |-> IF d = dir /\ l \in have THEN 1 ELSE 0]]
    /\ cached = Nothing
    /\ reader = [r \in Readers |-> IdleRead]
    /\ build = [b \in 1..MaxBuilds |-> NoBuild]
    /\ wanted = {} /\ wake = FALSE /\ round = {}
    /\ down = [p \in Downloaders |-> IdleDown]
    /\ deletes = 0 /\ switches = 0

-----------------------------------------------------------------------------
(* Store.Engine, which a request calls                                     *)

(* At most once in checkInterval a request looks at the files.             *)
Look(r) ==
    /\ reader[r].pc = "idle" /\ (cached # Nothing => cached.stale)
    /\ cached' = [(IF cached = Nothing THEN NewEngine ELSE cached) EXCEPT !.stale = FALSE]
    /\ reader' = [reader EXCEPT ![r].pc = "stat"]
    /\ UNCHANGED <<dir, fileVars, build, wishVars, boundVars, round, down>>

(* statLists, one list after the other.                                    *)
Stat(r) ==
    /\ reader[r].pc = "stat" /\ reader[r].next <= NLists
    /\ reader' = [reader EXCEPT ![r].mtimes[reader[r].next] = file[dir][reader[r].next],
                                ![r].next = @ + 1]
    /\ UNCHANGED <<dir, fileVars, engineVars, wishVars, boundVars, round, down>>

Want(r) ==
    /\ reader[r].pc = "stat" /\ reader[r].next > NLists
    /\ wanted' = wanted \cup Missing(reader[r].mtimes)
    /\ reader' = [reader EXCEPT ![r].pc = IF Missing(reader[r].mtimes) = {} THEN "need" ELSE "wake"]
    /\ UNCHANGED <<dir, fileVars, engineVars, wake, boundVars, round, down>>

BugWakeOnlyIfIdle(r) ==
    /\ reader[r].pc = "wake" /\ wake' = (wake \/ round = {})
    /\ reader' = [reader EXCEPT ![r].pc = "need"]
    /\ UNCHANGED <<dir, fileVars, engineVars, wanted, boundVars, round, down>>
Wake(r) ==
    /\ reader[r].pc = "wake" /\ wake' = TRUE
    /\ reader' = [reader EXCEPT ![r].pc = "need"]
    /\ UNCHANGED <<dir, fileVars, engineVars, wanted, boundVars, round, down>>

(* One compilation per cachedEngine, and none for a combination of which   *)
(* no list is there.  The cachedEngine is the one found at first, also if  *)
(* Configure has dropped it since.                                         *)
Found(r) == IF reader[r].dropped = Nothing THEN cached ELSE reader[r].dropped
BugBuildsOnce(r) == ~Found(r).building /\ reader[r].mtimes # NoFiles /\ Found(r).content = Nothing
NeedsBuild(r) == ~Found(r).building /\ reader[r].mtimes \notin {NoFiles, Found(r).mtimes}
Need(r) ==
    /\ reader[r].pc = "need"
    /\ reader' = [reader EXCEPT ![r] = IdleRead]
    /\ IF NeedsBuild(r)
       THEN /\ \E b \in 1..MaxBuilds :
               /\ build[b].pc = "idle"
               /\ build' = [build EXCEPT ![b] = [NoBuild EXCEPT !.pc = "read", !.mtimes = reader[r].mtimes]]
            /\ cached' = IF reader[r].dropped = Nothing THEN [cached EXCEPT !.building = TRUE] ELSE cached
       ELSE UNCHANGED engineVars
    /\ UNCHANGED <<dir, fileVars, wishVars, boundVars, round, down>>

-----------------------------------------------------------------------------
(* Store.build                                                             *)

(* compile reads one file after the other, and skips what is not there.    *)
Compile(b) ==
    /\ build[b].pc = "read" /\ build[b].next <= NLists
    /\ build' = [build EXCEPT ![b].content[build[b].next] = file[dir][build[b].next],
                              ![b].next = @ + 1]
    /\ UNCHANGED <<dir, fileVars, cached, wishVars, boundVars, reader, round, down>>

(* The result goes to whatever object the map holds by now.                *)
BugFailedStaysBuilding(b) ==
    /\ build[b].pc = "read" /\ build' = [build EXCEPT ![b] = NoBuild]
    /\ UNCHANGED <<dir, fileVars, cached, wishVars, boundVars, reader, round, down>>
CompileFails(b) ==
    /\ build[b].pc = "read" /\ build' = [build EXCEPT ![b] = NoBuild]
    /\ cached' = IF cached = Nothing THEN Nothing ELSE [cached EXCEPT !.building = FALSE]
    /\ UNCHANGED <<dir, fileVars, wishVars, boundVars, reader, round, down>>

Built(b, m) == [cached EXCEPT !.building = FALSE, !.content = build[b].content, !.mtimes = m]
BugStatsAfterwards(b) ==
    /\ build[b].pc = "read" /\ build[b].next > NLists /\ build' = [build EXCEPT ![b] = NoBuild]
    /\ cached' = IF cached = Nothing THEN Nothing ELSE Built(b, file[dir])
    /\ UNCHANGED <<dir, fileVars, wishVars, boundVars, reader, round, down>>
Compiled(b) ==
    /\ build[b].pc = "read" /\ build[b].next > NLists /\ build' = [build EXCEPT ![b] = NoBuild]
    /\ cached' = IF cached = Nothing THEN Nothing ELSE Built(b, build[b].mtimes)
    /\ UNCHANGED <<dir, fileVars, wishVars, boundVars, reader, round, down>>

(* checkInterval passes.                                                   *)
Stale == IF cached = Nothing THEN Nothing ELSE [cached EXCEPT !.stale = TRUE]
Expire ==
    /\ cached # Nothing /\ cached' = Stale
    /\ UNCHANGED <<dir, fileVars, build, wishVars, boundVars, reader, round, down>>

-----------------------------------------------------------------------------
(* Store.Download and Store.Delete, in Run and in a management handler     *)

(* The old copy stays until the new one has been fetched and parsed, and   *)
(* is replaced by a rename.  Only the engine's own store invalidates.      *)
Install(p) ==
    /\ down[p].pc = "fetch" /\ serial <= MaxDownloads /\ serial' = serial + 1
    /\ file' = [file EXCEPT ![down[p].dir][down[p].list] = serial']
    /\ down' = [down EXCEPT ![p] = IF p = "run" THEN [@ EXCEPT !.pc = "invalidate"] ELSE IdleDown]
    /\ UNCHANGED <<dir, engineVars, wishVars, boundVars, reader, round>>

(* The error goes into the index, beside the entry of the copy that stays. *)
DownloadFails(p) ==
    /\ down[p].pc = "fetch" /\ down' = [down EXCEPT ![p] = IdleDown]
    /\ UNCHANGED <<dir, fileVars, engineVars, wishVars, boundVars, reader, round>>

Invalidate ==
    /\ down["run"].pc = "invalidate" /\ down' = [down EXCEPT !["run"] = IdleDown]
    /\ cached' = Stale
    /\ UNCHANGED <<dir, fileVars, build, wishVars, boundVars, reader, round>>

(* A management handler, or `webfilter adblock update` beside the engine.  *)
AdminDownload(l) ==
    /\ down["admin"].pc = "idle"
    /\ down' = [down EXCEPT !["admin"] = [IdleDown EXCEPT !.pc = "fetch", !.dir = dir, !.list = l]]
    /\ UNCHANGED <<dir, fileVars, engineVars, wishVars, boundVars, reader, round>>

Delete(l) ==
    /\ down["admin"].pc = "idle" /\ deletes < MaxDeletes /\ deletes' = deletes + 1
    /\ file' = [file EXCEPT ![dir][l] = 0]
    /\ UNCHANGED <<dir, serial, engineVars, wishVars, switches, reader, round, down>>

-----------------------------------------------------------------------------
(* Store.Run                                                               *)

(* A round looks at what enabled policies refer to and what was wanted;    *)
(* the ticker or the token starts it.  Token and wishes are taken in two   *)
(* steps in the code; a wish between them is one before a round that the   *)
(* ticker starts.                                                          *)
StartRound ==
    /\ round = {} /\ down["run"].pc = "idle"
    /\ wake' \in {FALSE, wake}
    /\ \E refs \in {{}, Lists} : round' = refs \cup wanted
    /\ wanted' = {}
    /\ UNCHANGED <<dir, fileVars, engineVars, boundVars, reader, down>>

(* A list that is fresh, or that failed a moment ago, is passed over.      *)
PassOver(l) ==
    /\ l \in round /\ down["run"].pc = "idle" /\ round' = round \ {l}
    /\ UNCHANGED <<dir, fileVars, engineVars, wishVars, boundVars, reader, down>>
Refresh(l) ==
    /\ l \in round /\ down["run"].pc = "idle" /\ round' = round \ {l}
    /\ down' = [down EXCEPT !["run"] = [IdleDown EXCEPT !.pc = "fetch", !.dir = dir, !.list = l]]
    /\ UNCHANGED <<dir, fileVars, engineVars, wishVars, boundVars, reader>>

-----------------------------------------------------------------------------
(* The settings change; Configure drops the engines of the old directory.  *)

Configure ==
    /\ switches < MaxSwitches /\ switches' = switches + 1
    /\ dir' \in Dirs \ {dir} /\ cached' = Nothing
    /\ reader' = [r \in Readers |->
          IF reader[r].pc = "idle" THEN reader[r] ELSE [reader[r] EXCEPT !.dropped = Found(r)]]
    /\ UNCHANGED <<fileVars, build, wishVars, deletes, round, down>>

Request == \E r \in Readers : Look(r) \/ Stat(r) \/ Want(r) \/ Wake(r) \/ Need(r)
Next ==
    \/ Request \/ Expire
    \/ \E b \in 1..MaxBuilds : Compile(b) \/ CompileFails(b) \/ Compiled(b)
    \/ \E p \in Downloaders : Install(p) \/ DownloadFails(p)
    \/ \E l \in Lists : AdminDownload(l) \/ Delete(l) \/ PassOver(l) \/ Refresh(l)
    \/ StartRound \/ Invalidate \/ Configure

(* Requests keep coming, time passes, goroutines run, and a compilation    *)
(* that is tried again and again succeeds.  Nobody has to download.        *)
Fairness ==
    /\ \A r \in Readers : WF_vars(Look(r) \/ Stat(r) \/ Want(r) \/ Wake(r) \/ Need(r))
    /\ WF_vars(Expire) /\ WF_vars(Invalidate) /\ WF_vars(StartRound)
    /\ \A b \in 1..MaxBuilds : SF_vars(Compile(b)) /\ SF_vars(Compiled(b))
    /\ \A p \in Downloaders : WF_vars(DownloadFails(p))
    /\ \A l \in Lists : WF_vars(PassOver(l))

Spec     == Init /\ [][Next]_vars
FairSpec == Spec /\ Fairness

-----------------------------------------------------------------------------
(* Properties                                                              *)

Contents == [Lists -> 0..MaxDownloads + 1]

Engines  == [content : Contents \cup {Nothing}, mtimes : Contents, stale : BOOLEAN, building : BOOLEAN]
TypeOK ==
    /\ dir \in Dirs /\ serial \in 1..MaxDownloads + 1
    /\ file \in [Dirs -> Contents] /\ cached \in Engines \cup {Nothing}
    /\ reader \in [Readers -> [pc : {"idle", "stat", "wake", "need"}, dropped : Engines \cup {Nothing},
                               next : 1..NLists + 1, mtimes : Contents]]
    /\ build \in [1..MaxBuilds -> [pc : {"idle", "read"}, next : 1..NLists + 1,
                                   mtimes : Contents, content : Contents]]
    /\ wanted \subseteq Lists /\ wake \in BOOLEAN /\ round \subseteq Lists
    /\ down \in [Downloaders -> [pc : {"idle", "fetch", "invalidate"},
                                 dir : Dirs \cup {Nothing}, list : 0..NLists]]
    /\ deletes \in 0..MaxDeletes /\ switches \in 0..MaxSwitches

(* An engine is taken for current when its mtimes are those of the files,  *)
(* and then nothing compiles it again: of every list that is there it must *)
(* hold what the file holds, whatever was downloaded, deleted or           *)
(* reconfigured while it was compiled.                                     *)
Holds(c) == c.content # Nothing /\ \A l \in Installed : c.content[l] = file[dir][l]
CurrentMeansCurrent ==
    (cached # Nothing /\ cached.content # Nothing /\ cached.mtimes = file[dir]) => Holds(cached)

(* A building flag stands for a compilation that will take it down, and a  *)
(* wish for a list for a round that will see it: else neither the engine   *)
(* nor the list would ever come.                                           *)
NothingForgotten ==
    /\ (cached # Nothing /\ cached.building) => \E b \in 1..MaxBuilds : build[b].pc = "read"
    /\ wanted # {} => wake \/ \E r \in Readers : reader[r].pc = "wake"

(* Once files and settings rest, requests are filtered by the engine of    *)
(* the files that are there, provided there is one.                        *)
CatchesUp ==
    <>[](Installed # {} => cached # Nothing /\ Holds(cached))

(* A list that was removed is not filtered by any more.                    *)
DeletedIsForgotten ==
    <>[](cached # Nothing => cached.content \in {Nothing, file[dir]})
=============================================================================
