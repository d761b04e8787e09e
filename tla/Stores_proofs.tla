---------------------------- MODULE Stores_proofs ----------------------------
(***************************************************************************)
(* Proofs about the three directories that are read while they change, for *)
(* any readers, writers, lists, categories, directories and bounds.        *)
(***************************************************************************)
EXTENDS MCStores, TLAPS

-----------------------------------------------------------------------------
(* The policies directory by itself, for any number of writers, names and  *)
(* operations.  Types are correct with and without the Android bridge.     *)
(* Where the watch loop is the only reloader (Bridge = {}), what is in     *)
(* force when nothing is pending is the directory, and the exclude list    *)
(* belongs to the policies in force, however writers and reload overlap.   *)

LEMMA ConstantFacts ==
    /\ NoFile \in Policy /\ FirstPolicy \in Policy
    /\ 1 \in Names /\ Names \subseteq Nat /\ Empty \in Directory
BY BoundsAssumption DEF NoFile, FirstPolicy, Policy, Names, Empty, Directory

-----------------------------------------------------------------------------
(* Type correctness                                                        *)

LEMMA TypeInit == Init => TypeOK
<1>. SUFFICES ASSUME Init PROVE TypeOK
  OBVIOUS
<1>1. files \in Directory /\ policies \in Directory /\ bypass \in Directory
  BY ConstantFacts DEF Init, Directory
<1>. QED
  BY <1>1, ConstantFacts DEF Init, TypeOK

LEMMA TypeNext == TypeOK /\ [Next]_vars => TypeOK'
<1>. SUFFICES ASSUME TypeOK, [Next]_vars PROVE TypeOK'
  OBVIOUS
<1>. USE ConstantFacts
<1>. USE DEF TypeOK, dirVars, writerVars, reloadVars, runtimeVars
<1>1. ASSUME NEW w \in Writers, BeginCreate(w) PROVE TypeOK'
  <2>1. [id |-> ops + 1, ver |-> ops + 1] \in Policy
    BY DEF Policy
  <2>. QED
    BY <1>1, <2>1 DEF BeginCreate
<1>2. ASSUME NEW w \in Writers, BeginUpdate(w) PROVE TypeOK'
  <2>1. ASSUME NEW n \in Names
        PROVE [id |-> files[n].id, ver |-> ops + 1] \in Policy
    BY DEF Policy, Directory
  <2>2. PICK n \in Present(files), m \in Names :
          /\ from' = [from EXCEPT ![w] = n] /\ to' = [to EXCEPT ![w] = m]
          /\ doc' = [doc EXCEPT ![w] = [id |-> files[n].id, ver |-> ops + 1]]
    BY <1>2 DEF BeginUpdate
  <2>3. n \in Names
    BY DEF Present
  <2>4. /\ from' \in [Writers -> Names] /\ to' \in [Writers -> Names]
        /\ doc' \in [Writers -> Policy]
    BY <2>1, <2>2, <2>3
  <2>. QED
    BY <1>2, <2>4 DEF BeginUpdate
<1>3. ASSUME NEW w \in Writers, WriteFile(w) PROVE TypeOK'
  <2>1. files' \in Directory
    BY <1>3 DEF WriteFile, Directory
  <2>2. owners' \in [Names -> SUBSET Nat]
    <3>1. doc[w].id \in Nat
      BY DEF Policy
    <3>. QED
      BY <1>3, <3>1 DEF WriteFile, Owns
  <2>. QED
    BY <1>3, <2>1, <2>2 DEF WriteFile, AfterWrite
<1>4. ASSUME NEW w \in Writers, RemoveOld(w) PROVE TypeOK'
  <2>1. files' \in Directory
    BY <1>4 DEF RemoveOld, Directory
  <2>. QED
    BY <1>4, <2>1 DEF RemoveOld, AfterWrite
<1>5. ASSUME NEW w \in Writers, Delete(w) PROVE TypeOK'
  <2>0. PICK n \in Names : /\ files' = [files EXCEPT ![n] = NoFile]
                           /\ deleted' = deleted \cup {files[n].id}
    BY <1>5 DEF Delete, Present
  <2>1. files' \in Directory
    BY <2>0 DEF Directory
  <2>2. deleted' \subseteq Nat
    <3>1. files[n].id \in Nat
      BY DEF Directory, Policy
    <3>. QED
      BY <2>0, <3>1
  <2>. QED
    BY <1>5, <2>1, <2>2 DEF Delete, AfterWrite
<1>6. ASSUME NEW w \in Writers, CallReload(w) PROVE TypeOK'
  BY <1>6 DEF CallReload
<1>7. ASSUME NEW r \in Reloaders, Begin(r) PROVE TypeOK'
  BY <1>7 DEF Begin, Present
<1>8. ASSUME NEW r \in Reloaders, ReadFile(r) PROVE TypeOK'
  <2>1. got' \in [Reloaders -> Directory] /\ todo' \in [Reloaders -> SUBSET Names]
    BY <1>8 DEF ReadFile, Directory
  <2>. QED
    BY <1>8, <2>1 DEF ReadFile
<1>9. ASSUME NEW r \in Reloaders, ReadFails(r) PROVE TypeOK'
  BY <1>9 DEF ReadFails, EndReload
<1>10. ASSUME NEW r \in Reloaders, StorePolicies(r) PROVE TypeOK'
  BY <1>10 DEF StorePolicies
<1>11. ASSUME NEW r \in Reloaders, StoreBypass(r) PROVE TypeOK'
  BY <1>11 DEF StoreBypass, EndReload
<1>12. CASE UNCHANGED vars
  BY <1>12 DEF vars
<1>. QED
  BY <1>1, <1>2, <1>3, <1>4, <1>5, <1>6, <1>7, <1>8, <1>9, <1>10, <1>11, <1>12
     DEF Next, Act, WriterStep, ReloadStep, Terminated

(* Every variable of the directory, its writers and its reloaders keeps    *)
(* its type, for any writers, bridge, file names and bounds.               *)
THEOREM TypeCorrect == Spec => []TypeOK
BY TypeInit, TypeNext, PTL DEF Spec

-----------------------------------------------------------------------------
(* One reloader: what is in force is what is on disk                       *)

(* Without the bridge nobody else reloads.                                 *)
OnlyWatch == /\ calls = 0 /\ rpc["bridge"] = "idle"
             /\ \A w \in Writers : wpc[w] \in {"idle", "write", "remove"}

(* A file read stands for the file as long as no change is pending.        *)
UpToDate ==
    /\ rpc["watch"] # "bypass" => bypass = policies
    /\ rpc["watch"] = "bypass" => policies = got["watch"]
    /\ (~dirty /\ rpc["watch"] = "idle") => policies = files
    /\ (~dirty /\ rpc["watch"] = "bypass") => policies = files
    /\ (~dirty /\ rpc["watch"] = "list") =>
          \A n \in Names : /\ n \in todo["watch"] => files[n] # NoFile
                           /\ n \notin todo["watch"] => got["watch"][n] = files[n]

WatchInv == TypeOK /\ OnlyWatch /\ UpToDate

LEMMA WatchInit == ASSUME Bridge = {} PROVE Init => WatchInv
BY TypeInit DEF Init, WatchInv, OnlyWatch, UpToDate, Reloaders

LEMMA WatchNext == ASSUME Bridge = {} PROVE WatchInv /\ [Next]_vars => WatchInv'
<1>. SUFFICES ASSUME WatchInv, [Next]_vars PROVE OnlyWatch' /\ UpToDate'
  BY TypeNext DEF WatchInv
<1>. USE DEF WatchInv, TypeOK, OnlyWatch, UpToDate, Reloaders,
             dirVars, writerVars, reloadVars, runtimeVars
<1>1. ASSUME NEW w \in Writers,
             BeginCreate(w) \/ BeginUpdate(w) \/ Delete(w) \/ WriterStep(w)
      PROVE OnlyWatch' /\ UpToDate'
  <2>1. CASE BeginCreate(w) \/ BeginUpdate(w)
    BY <2>1 DEF BeginCreate, BeginUpdate
  <2>2. CASE WriteFile(w)
    BY <2>2 DEF WriteFile, AfterWrite
  <2>3. CASE RemoveOld(w)
    BY <2>3 DEF RemoveOld, AfterWrite
  <2>4. CASE Delete(w)
    BY <2>4 DEF Delete, AfterWrite
  <2>5. ~CallReload(w)
    BY DEF CallReload
  <2>. QED
    BY <1>1, <2>1, <2>2, <2>3, <2>4, <2>5 DEF WriterStep
<1>2. CASE Begin("watch")
  <2>1. rpc'["watch"] = "list" /\ todo'["watch"] = Present(files)
        /\ got'["watch"] = Empty
    BY <1>2 DEF Begin
  <2>2. \A n \in Names : /\ n \in todo'["watch"] => files[n] # NoFile
                         /\ n \notin todo'["watch"] => got'["watch"][n] = files[n]
    BY <2>1 DEF Present, Empty
  <2>3. /\ rpc' = [rpc EXCEPT !["watch"] = "list"] /\ bypass = policies
        /\ UNCHANGED <<files, policies, bypass, calls, wpc>>
    BY <1>2 DEF Begin, Idle
  <2>. QED
    BY <2>1, <2>2, <2>3
<1>3. CASE ReadFile("watch")
  <2>1. PICK n \in Names : /\ IsNext("watch", n) /\ files[n] # NoFile
                           /\ got' = [got EXCEPT !["watch"][n] = files[n]]
                           /\ todo' = [todo EXCEPT !["watch"] = @ \ {n}]
    BY <1>3 DEF ReadFile
  <2>2. got'["watch"] = [got["watch"] EXCEPT ![n] = files[n]]
        /\ todo'["watch"] = todo["watch"] \ {n}
    BY <2>1
  <2>3. got["watch"] \in Directory
    OBVIOUS
  <2>4. ~dirty => \A m \in Names :
              /\ m \in todo'["watch"] => files[m] # NoFile
              /\ m \notin todo'["watch"] => got'["watch"][m] = files[m]
    BY <1>3, <2>2, <2>3 DEF ReadFile, Directory
  <2>. QED
    BY <1>3, <2>4 DEF ReadFile
<1>4. CASE ReadFails("watch")
  <2>1. dirty
    BY <1>4 DEF ReadFails, IsNext
  <2>2. rpc' = [rpc EXCEPT !["watch"] = "idle"] /\ UNCHANGED <<calls, wpc, dirty, bypass, policies>>
    BY <1>4 DEF ReadFails, EndReload
  <2>3. bypass = policies
    BY <1>4 DEF ReadFails
  <2>. QED
    BY <2>1, <2>2, <2>3
<1>5. CASE StorePolicies("watch")
  <2>1. got["watch"] \in Directory /\ files \in Directory
    OBVIOUS
  <2>2. ~dirty => got["watch"] = files
    BY <1>5, <2>1 DEF StorePolicies, Directory
  <2>. QED
    BY <1>5, <2>2 DEF StorePolicies
<1>6. CASE StoreBypass("watch")
  BY <1>6 DEF StoreBypass, EndReload
<1>7. ~ReloadStep("bridge")
  BY DEF ReloadStep, Begin, Idle, ReadFile, ReadFails, StorePolicies, StoreBypass
<1>8. CASE UNCHANGED vars
  BY <1>8 DEF vars
<1>. QED
  BY <1>1, <1>2, <1>3, <1>4, <1>5, <1>6, <1>7, <1>8
     DEF Next, Act, ReloadStep, Terminated

(* With the watch loop as the only reloader, in every state without a      *)
(* pending change or a reload under way the policies and the exclude list  *)
(* in force are those of the directory.                                    *)
THEOREM QuietMeansCurrentAlways ==
    ASSUME Bridge = {} PROVE Spec => []QuietMeansCurrent
<1>1. WatchInv => QuietMeansCurrent
  BY DEF WatchInv, UpToDate, QuietMeansCurrent, Quiet, Idle, Reloaders
<1>. QED
  BY <1>1, WatchInit, WatchNext, PTL DEF Spec

(* With the watch loop as the only reloader, the exclude list belongs to   *)
(* the policies in force whenever no reload is under way.                  *)
THEOREM BypassOfLoadedPoliciesAlways ==
    ASSUME Bridge = {} PROVE Spec => []BypassOfLoadedPolicies
<1>1. WatchInv => BypassOfLoadedPolicies
  BY DEF WatchInv, UpToDate, BypassOfLoadedPolicies, Idle, Reloaders
<1>. QED
  BY <1>1, WatchInit, WatchNext, PTL DEF Spec

-----------------------------------------------------------------------------
(* The ad-block lists and the engine compiled from them                    *)

(* A download knows where it goes, and who compares an engine's times has  *)
(* found an engine or the one that was dropped.                            *)
AdblockAsks ==
    /\ \A p \in A!Downloaders : down[p].pc = "fetch" => down[p].dir \in Dirs /\ down[p].list \in A!Lists
    /\ \A r \in Readers : (looker[r].pc # "idle" /\ looker[r].dropped = Nothing) => cached # Nothing

(* Until the directory is changed no other one has files or gets any.      *)
OneDirectory ==
    moves = 0 => /\ \A d \in Dirs, l \in A!Lists : d # dir => list[d][l] = 0
                 /\ \A p \in A!Downloaders : down[p].pc = "fetch" => down[p].dir = dir

(* Times that have been noted are those of downloads that have succeeded,  *)
(* so the next one is later than all of them.                              *)
Noted(m) == \A l \in A!Lists : m[l] <= version
FilesNoted == \A d \in Dirs : Noted(list[d])
NotedTimes ==
    /\ \A r \in Readers : Noted(looker[r].mtimes)
    /\ \A b \in 1..MaxBuilds : Noted(build[b].mtimes)
    /\ cached # Nothing => Noted(cached.mtimes)

(* What was read after a file's time was noted is that file's content as   *)
(* long as the file has this time: a compilation may read a newer file     *)
(* than it noted, never an older one.                                      *)
ReadAfter(m, content, l) == (m[l] = list[dir][l] /\ m[l] # 0) => content[l] = m[l]
CompiledAfter ==
    /\ \A b \in 1..MaxBuilds : build[b].pc = "read" =>
          \A l \in A!Lists : l < build[b].next => ReadAfter(build[b].mtimes, build[b].content, l)
    /\ (cached # Nothing /\ cached.content # Nothing) =>
          \A l \in A!Lists : ReadAfter(cached.mtimes, cached.content, l)

AdblockInv ==
    /\ A!TypeOK /\ AdblockAsks /\ A!NothingForgotten
    /\ OneDirectory /\ FilesNoted /\ NotedTimes /\ CompiledAfter

AdblockChecked == which = "adblock" => AdblockInv

LEMMA AdblockFacts ==
    /\ NLists \in Nat /\ MaxDownloads \in Nat /\ MaxDeletes \in Nat /\ MaxSwitches \in Nat
    /\ A!NoFiles \in A!Contents /\ A!NewEngine \in A!Engines
    /\ Nothing \notin A!Engines /\ Nothing \notin A!Contents
BY CountsAssumption, NothingAssumption DEF A!Lists, A!NoFiles, A!Contents, A!NewEngine, A!Engines

(* The types of what the goroutines keep.                                  *)
Lookers  == [pc : {"idle", "stat", "wake", "need"}, dropped : A!Engines \cup {Nothing},
             next : 1..NLists + 1, mtimes : A!Contents]
Builds   == [pc : {"idle", "read"}, next : 1..NLists + 1, mtimes : A!Contents, content : A!Contents]
Fetchers == [pc : {"idle", "fetch", "invalidate"}, dir : Dirs \cup {Nothing}, list : 0..NLists]

AdblockTypes ==
    /\ looker \in [Readers -> Lookers] /\ build \in [1..MaxBuilds -> Builds]
    /\ down \in [A!Downloaders -> Fetchers] /\ cached \in A!Engines \cup {Nothing}
    /\ list \in [Dirs -> A!Contents] /\ version \in 1..MaxDownloads + 1
    /\ dir \in Dirs /\ wanted \subseteq A!Lists /\ wake \in BOOLEAN /\ round \subseteq A!Lists
    /\ deletes \in 0..MaxDeletes /\ moves \in 0..MaxSwitches

LEMMA IdleTypes == A!IdleRead \in Lookers /\ A!NoBuild \in Builds /\ A!IdleDown \in Fetchers
BY AdblockFacts DEF Lookers, Builds, Fetchers, A!IdleRead, A!NoBuild, A!IdleDown

LEMMA AdblockInit == A!Init => AdblockInv
<1>. SUFFICES ASSUME A!Init PROVE AdblockInv
  OBVIOUS
<1>1. A!TypeOK
  <2>1. list \in [Dirs -> A!Contents] /\ version \in 1..MaxDownloads + 1
    BY AdblockFacts DEF A!Init, A!Contents
  <2>2. looker \in [Readers -> Lookers] /\ build \in [1..MaxBuilds -> Builds]
        /\ down \in [A!Downloaders -> Fetchers]
    BY IdleTypes DEF A!Init
  <2>3. dir \in Dirs /\ cached \in A!Engines \cup {Nothing} /\ wanted \subseteq A!Lists
        /\ wake \in BOOLEAN /\ round \subseteq A!Lists
    BY DEF A!Init
  <2>4. deletes \in 0..MaxDeletes /\ moves \in 0..MaxSwitches
    BY AdblockFacts DEF A!Init
  <2>. QED
    BY <2>1, <2>2, <2>3, <2>4 DEF A!TypeOK, Lookers, Builds, Fetchers
<1>2. AdblockAsks /\ OneDirectory
  BY DEF A!Init, AdblockAsks, OneDirectory, A!IdleRead, A!IdleDown
<1>3. NotedTimes /\ FilesNoted
  BY DEF A!Init, NotedTimes, FilesNoted, Noted, A!IdleRead, A!NoBuild, A!NoFiles
<1>4. CompiledAfter /\ A!NothingForgotten
  BY DEF A!Init, CompiledAfter, A!NothingForgotten, A!NoBuild
<1>. QED
  BY <1>1, <1>2, <1>3, <1>4 DEF AdblockInv

(* What the actions do to an engine, a request, a compilation, a download. *)
LEMMA EngineTypes ==
    /\ \A e \in A!Engines, v \in BOOLEAN :
          [e EXCEPT !.stale = v] \in A!Engines /\ [e EXCEPT !.building = v] \in A!Engines
    /\ \A e \in A!Engines, v \in BOOLEAN, c, m \in A!Contents :
          [e EXCEPT !.building = v, !.content = c, !.mtimes = m] \in A!Engines
BY DEF A!Engines
LEMMA LookerTypes ==
    /\ \A x \in Lookers, v \in {"idle", "stat", "wake", "need"} : [x EXCEPT !.pc = v] \in Lookers
    /\ \A x \in Lookers, v \in A!Engines \cup {Nothing} : [x EXCEPT !.dropped = v] \in Lookers
    /\ \A x \in Lookers, m \in A!Contents, n \in 1..NLists + 1 :
          [x EXCEPT !.mtimes = m, !.next = n] \in Lookers
BY DEF Lookers
LEMMA BuildTypes ==
    /\ \A m \in A!Contents : [A!NoBuild EXCEPT !.pc = "read", !.mtimes = m] \in Builds
    /\ \A x \in Builds, c \in A!Contents, n \in 1..NLists + 1 :
          [x EXCEPT !.content = c, !.next = n] \in Builds
<1>1. \A x \in Builds, m \in A!Contents : [x EXCEPT !.pc = "read", !.mtimes = m] \in Builds
  BY DEF Builds
<1>2. \A x \in Builds, c \in A!Contents, n \in 1..NLists + 1 :
          [x EXCEPT !.content = c, !.next = n] \in Builds
  BY DEF Builds
<1>. QED
  BY <1>1, <1>2, IdleTypes
LEMMA FetcherTypes ==
    /\ \A x \in Fetchers : [x EXCEPT !.pc = "invalidate"] \in Fetchers
    /\ \A d \in Dirs, l \in A!Lists : [A!IdleDown EXCEPT !.pc = "fetch", !.dir = d, !.list = l] \in Fetchers
<1>1. ASSUME NEW x \in Fetchers, NEW d \in Dirs, NEW l \in A!Lists
      PROVE [x EXCEPT !.pc = "fetch", !.dir = d, !.list = l] \in Fetchers
  <2>1. l \in 0..NLists
    BY AdblockFacts DEF A!Lists
  <2>2. \A y \in Fetchers : [y EXCEPT !.pc = "fetch"] \in Fetchers /\ [y EXCEPT !.dir = d] \in Fetchers
    BY DEF Fetchers
  <2>3. \A y \in Fetchers : [y EXCEPT !.list = l] \in Fetchers
    BY <2>1 DEF Fetchers
  <2>. QED
    BY <2>2, <2>3
<1>2. \A x \in Fetchers : [x EXCEPT !.pc = "invalidate"] \in Fetchers
  BY DEF Fetchers
<1>. QED
  BY <1>1, <1>2, IdleTypes

LEMMA AdblockTypeNext == ASSUME A!TypeOK, AdblockAsks, A!Next PROVE A!TypeOK'
<1>. SUFFICES ASSUME AdblockTypes PROVE AdblockTypes'
  BY DEF A!TypeOK, AdblockTypes, Lookers, Builds, Fetchers
<1>. USE DEF AdblockTypes, A!fileVars, A!engineVars, A!wishVars, A!boundVars
<1>1. ASSUME NEW r \in Readers, A!Look(r) PROVE AdblockTypes'
  <2>1. cached' \in A!Engines
    BY <1>1, AdblockFacts, EngineTypes DEF A!Look
  <2>2. looker' \in [Readers -> Lookers]
    BY <1>1, LookerTypes DEF A!Look
  <2>. QED
    BY <1>1, <2>1, <2>2 DEF A!Look
<1>2. ASSUME NEW r \in Readers, A!Stat(r) PROVE AdblockTypes'
  <2>1. looker[r].next \in A!Lists /\ looker[r].next + 1 \in 1..NLists + 1
        /\ looker[r].mtimes \in A!Contents
    BY <1>2, AdblockFacts DEF A!Stat, A!Lists, Lookers
  <2>2. [looker[r].mtimes EXCEPT ![looker[r].next] = list[dir][looker[r].next]] \in A!Contents
    BY <2>1 DEF A!Contents
  <2>3. looker' = [looker EXCEPT ![r] = [looker[r] EXCEPT
          !.mtimes = [looker[r].mtimes EXCEPT ![looker[r].next] = list[dir][looker[r].next]],
          !.next = looker[r].next + 1]]
    BY <1>2 DEF A!Stat
  <2>4. looker' \in [Readers -> Lookers]
    BY <2>1, <2>2, <2>3, LookerTypes
  <2>. QED
    BY <1>2, <2>4 DEF A!Stat
<1>3. ASSUME NEW r \in Readers, A!Want(r) \/ A!Wake(r) PROVE AdblockTypes'
  <2>1. PICK v \in {"idle", "stat", "wake", "need"} : looker' = [looker EXCEPT ![r] = [looker[r] EXCEPT !.pc = v]]
    BY <1>3 DEF A!Want, A!Wake
  <2>3. looker' \in [Readers -> Lookers]
    BY <2>1, LookerTypes
  <2>2. wanted' \subseteq A!Lists
    BY <1>3 DEF A!Want, A!Wake, A!Missing
  <2>. QED
    BY <1>3, <2>3, <2>2 DEF A!Want, A!Wake
<1>4. ASSUME NEW r \in Readers, A!Need(r) PROVE AdblockTypes'
  <2>1. looker' \in [Readers -> Lookers]
    BY <1>4, IdleTypes DEF A!Need
  <2>2. looker[r].mtimes \in A!Contents
    BY DEF Lookers
  <2>3. build' \in [1..MaxBuilds -> Builds]
    BY <1>4, <2>2, BuildTypes DEF A!Need
  <2>4. cached' \in A!Engines \cup {Nothing}
    BY <1>4, EngineTypes DEF A!Need, AdblockAsks
  <2>. QED
    BY <1>4, <2>1, <2>3, <2>4 DEF A!Need
<1>5. ASSUME NEW b \in 1..MaxBuilds, A!Compile(b) PROVE AdblockTypes'
  <2>1. build[b].next \in A!Lists /\ build[b].next + 1 \in 1..NLists + 1
        /\ build[b].content \in A!Contents
    BY <1>5, AdblockFacts DEF A!Compile, A!Lists, Builds
  <2>2. [build[b].content EXCEPT ![build[b].next] = list[dir][build[b].next]] \in A!Contents
    BY <2>1 DEF A!Contents
  <2>3. build' = [build EXCEPT ![b] = [build[b] EXCEPT
          !.content = [build[b].content EXCEPT ![build[b].next] = list[dir][build[b].next]],
          !.next = build[b].next + 1]]
    BY <1>5 DEF A!Compile
  <2>4. build' \in [1..MaxBuilds -> Builds]
    BY <2>1, <2>2, <2>3, BuildTypes
  <2>. QED
    BY <1>5, <2>4 DEF A!Compile
<1>6. ASSUME NEW b \in 1..MaxBuilds, A!CompileFails(b) \/ A!Compiled(b) PROVE AdblockTypes'
  <2>1. build[b].content \in A!Contents /\ build[b].mtimes \in A!Contents
    BY DEF Builds
  <2>2. cached' \in A!Engines \cup {Nothing}
    <3>1. CASE A!Compiled(b)
      BY <3>1, <2>1, EngineTypes DEF A!Compiled, A!Built
    <3>2. CASE A!CompileFails(b)
      BY <3>2, EngineTypes DEF A!CompileFails
    <3>. QED
      BY <1>6, <3>1, <3>2
  <2>3. build' \in [1..MaxBuilds -> Builds]
    BY <1>6, IdleTypes DEF A!CompileFails, A!Compiled
  <2>. QED
    BY <1>6, <2>2, <2>3 DEF A!CompileFails, A!Compiled
<1>7. ASSUME A!Expire \/ A!Invalidate PROVE AdblockTypes'
  <2>1. cached' \in A!Engines \cup {Nothing}
    BY <1>7, EngineTypes DEF A!Expire, A!Invalidate, A!Stale
  <2>2. down' \in [A!Downloaders -> Fetchers]
    BY <1>7, IdleTypes DEF A!Expire, A!Invalidate
  <2>. QED
    BY <1>7, <2>1, <2>2 DEF A!Expire, A!Invalidate
<1>8. ASSUME NEW p \in A!Downloaders, A!Install(p) PROVE AdblockTypes'
  <2>1. version' \in 1..MaxDownloads + 1
    BY <1>8, AdblockFacts DEF A!Install
  <2>2. \A f \in A!Contents, l \in A!Lists : [f EXCEPT ![l] = version'] \in A!Contents
    BY <2>1, AdblockFacts DEF A!Contents
  <2>3. list' \in [Dirs -> A!Contents]
    BY <1>8, <2>2 DEF A!Install, AdblockAsks
  <2>4. down' \in [A!Downloaders -> Fetchers]
    BY <1>8, IdleTypes, FetcherTypes DEF A!Install
  <2>. QED
    BY <1>8, <2>1, <2>3, <2>4 DEF A!Install
<1>9. ASSUME NEW p \in A!Downloaders, A!DownloadFails(p) PROVE AdblockTypes'
  BY <1>9, IdleTypes DEF A!DownloadFails
<1>10. ASSUME NEW l \in A!Lists, A!AdminDownload(l) \/ A!Refresh(l) \/ A!PassOver(l) PROVE AdblockTypes'
  <2>1. down' \in [A!Downloaders -> Fetchers]
    BY <1>10, FetcherTypes DEF A!AdminDownload, A!Refresh, A!PassOver
  <2>. QED
    BY <1>10, <2>1 DEF A!AdminDownload, A!Refresh, A!PassOver
<1>11. ASSUME NEW l \in A!Lists, A!Delete(l) PROVE AdblockTypes'
  <2>1. \A f \in A!Contents : [f EXCEPT ![l] = 0] \in A!Contents
    BY AdblockFacts DEF A!Contents
  <2>2. list' \in [Dirs -> A!Contents]
    BY <1>11, <2>1 DEF A!Delete
  <2>3. deletes' \in 0..MaxDeletes
    BY <1>11, AdblockFacts DEF A!Delete
  <2>. QED
    BY <1>11, <2>2, <2>3 DEF A!Delete
<1>12. ASSUME A!StartRound PROVE AdblockTypes'
  <2>1. round' \subseteq A!Lists /\ wake' \in BOOLEAN /\ wanted' = {}
    BY <1>12 DEF A!StartRound
  <2>. QED
    BY <1>12, <2>1 DEF A!StartRound
<1>13. ASSUME A!Configure PROVE AdblockTypes'
  <2>1. \A r \in Readers : A!Found(r) \in A!Engines \cup {Nothing}
    BY DEF A!Found, Lookers
  <2>2. looker' \in [Readers -> Lookers]
    BY <1>13, <2>1, LookerTypes DEF A!Configure
  <2>3. moves' \in 0..MaxSwitches /\ dir' \in Dirs
    BY <1>13, AdblockFacts DEF A!Configure
  <2>. QED
    BY <1>13, <2>2, <2>3 DEF A!Configure
<1>. QED
  BY <1>1, <1>2, <1>3, <1>4, <1>5, <1>6, <1>7, <1>8, <1>9, <1>10, <1>11, <1>12, <1>13
     DEF A!Next, A!Request

LEMMA AdblockAsksNext == ASSUME AdblockTypes, AdblockAsks, A!Next PROVE AdblockAsks'
<1>. USE DEF AdblockTypes, A!fileVars, A!engineVars, A!wishVars, A!boundVars
<1>1. \A p \in A!Downloaders : down'[p].pc = "fetch" => down'[p].dir \in Dirs /\ down'[p].list \in A!Lists
  <2>. SUFFICES ASSUME NEW p \in A!Downloaders, down'[p].pc = "fetch"
                PROVE down'[p].dir \in Dirs /\ down'[p].list \in A!Lists
    OBVIOUS
  <2>1. ASSUME NEW q \in A!Downloaders, A!Install(q) \/ A!DownloadFails(q) PROVE down'[p] = down[p]
    BY <2>1 DEF A!Install, A!DownloadFails, A!IdleDown, Fetchers
  <2>2. CASE A!Invalidate
    BY <2>2 DEF A!Invalidate, A!IdleDown, AdblockAsks
  <2>3. ASSUME NEW l \in A!Lists, A!AdminDownload(l) \/ A!Refresh(l)
        PROVE down'[p].dir \in Dirs /\ down'[p].list \in A!Lists
    BY <2>3 DEF A!AdminDownload, A!Refresh, A!IdleDown, AdblockAsks
  <2>4. CASE UNCHANGED down
    BY <2>4 DEF AdblockAsks
  <2>5. (\E l \in A!Lists : A!Delete(l) \/ A!PassOver(l)) \/ A!StartRound \/ A!Configure \/ A!Expire
        \/ A!Request \/ (\E b \in 1..MaxBuilds : A!Compile(b) \/ A!CompileFails(b) \/ A!Compiled(b))
           => UNCHANGED down
    BY DEF A!Delete, A!PassOver, A!StartRound, A!Configure, A!Expire, A!Request, A!Look, A!Stat, A!Want,
           A!Wake, A!Need, A!Compile, A!CompileFails, A!Compiled
  <2>. QED
    BY <2>1, <2>2, <2>3, <2>4, <2>5 DEF A!Next, AdblockAsks
<1>2. \A r \in Readers : (looker'[r].pc # "idle" /\ looker'[r].dropped = Nothing) => cached' # Nothing
  <2>. SUFFICES ASSUME NEW r \in Readers, looker'[r].pc # "idle", looker'[r].dropped = Nothing
                PROVE cached' # Nothing
    OBVIOUS
  <2>1. ASSUME NEW q \in Readers, A!Look(q) PROVE cached' # Nothing
    <3>1. cached' \in A!Engines
      BY <2>1, AdblockFacts, EngineTypes DEF A!Look
    <3>. QED
      BY <3>1, AdblockFacts
  <2>2. ASSUME NEW q \in Readers, A!Stat(q) \/ A!Want(q) \/ A!Wake(q) PROVE cached' # Nothing
    <3>1. looker[r].pc # "idle" /\ looker[r].dropped = Nothing /\ cached' = cached
      <4>1. CASE A!Stat(q)
        BY <4>1 DEF A!Stat, Lookers
      <4>2. CASE A!Want(q)
        BY <4>2 DEF A!Want, Lookers
      <4>3. CASE A!Wake(q)
        BY <4>3 DEF A!Wake, Lookers
      <4>. QED
        BY <2>2, <4>1, <4>2, <4>3
    <3>. QED
      BY <3>1 DEF AdblockAsks
  <2>3. ASSUME NEW q \in Readers, A!Need(q) PROVE cached' # Nothing
    <3>1. cached # Nothing
      BY <2>3 DEF A!Need, A!IdleRead, AdblockAsks
    <3>2. cached' \in A!Engines
      BY <2>3, <3>1, EngineTypes DEF A!Need
    <3>. QED
      BY <3>2, AdblockFacts
  <2>4. CASE UNCHANGED looker /\ (cached' = Nothing => cached = Nothing)
    BY <2>4 DEF AdblockAsks
  <2>5. ASSUME NEW b \in 1..MaxBuilds, A!Compile(b) \/ A!CompileFails(b) \/ A!Compiled(b)
        PROVE UNCHANGED looker /\ (cached' = Nothing => cached = Nothing)
    <3>1. build[b].content \in A!Contents /\ build[b].mtimes \in A!Contents
      BY DEF Builds
    <3>2. CASE A!Compile(b)
      BY <3>2 DEF A!Compile
    <3>3. CASE A!CompileFails(b)
      BY <3>3, AdblockFacts, EngineTypes DEF A!CompileFails
    <3>4. CASE A!Compiled(b)
      <4>1. cached # Nothing => cached' \in A!Engines
        BY <3>1, <3>4, EngineTypes DEF A!Compiled, A!Built
      <4>. QED
        BY <3>4, <4>1, AdblockFacts DEF A!Compiled
    <3>. QED
      BY <2>5, <3>2, <3>3, <3>4
  <2>6. A!Expire \/ A!Invalidate => UNCHANGED looker /\ (cached' = Nothing => cached = Nothing)
    <3>1. A!Stale = Nothing => cached = Nothing
      BY AdblockFacts, EngineTypes DEF A!Stale
    <3>. QED
      BY <3>1 DEF A!Expire, A!Invalidate
  <2>7. (\E l \in A!Lists : A!AdminDownload(l) \/ A!Delete(l) \/ A!PassOver(l) \/ A!Refresh(l)) \/ A!StartRound
        \/ (\E p \in A!Downloaders : A!Install(p) \/ A!DownloadFails(p)) => UNCHANGED <<looker, cached>>
    BY DEF A!AdminDownload, A!Delete, A!PassOver, A!Refresh, A!StartRound, A!Install, A!DownloadFails
  <2>8. CASE A!Configure
    <3>1. looker'[r] = IF looker[r].pc = "idle" THEN looker[r] ELSE [looker[r] EXCEPT !.dropped = A!Found(r)]
      BY <2>8 DEF A!Configure
    <3>2. looker[r].pc # "idle" /\ looker'[r].dropped = A!Found(r)
      BY <3>1 DEF Lookers
    <3>. QED
      BY <3>2 DEF A!Found, AdblockAsks
  <2>. QED
    BY <2>1, <2>2, <2>3, <2>4, <2>5, <2>6, <2>7, <2>8 DEF A!Next, A!Request
<1>. QED
  BY <1>1, <1>2 DEF AdblockAsks

(* What a step can do to the file of a list, to the engine in the map, to  *)
(* a compilation and to the times a request has noted.                     *)
FileStep ==
    /\ version' \in {version, version + 1}
    /\ \A l \in A!Lists : list'[dir'][l] \in {list[dir][l], 0}
                           \/ (version' = version + 1 /\ list'[dir'][l] = version')
EngineStep ==
    cached' # Nothing =>
        \/ /\ cached # Nothing /\ cached'.content = cached.content /\ cached'.mtimes = cached.mtimes
        \/ cached'.content = Nothing /\ cached'.mtimes = A!NoFiles
        \/ \E b \in 1..MaxBuilds :
              /\ build[b].pc = "read" /\ build[b].next > NLists
              /\ cached'.content = build[b].content /\ cached'.mtimes = build[b].mtimes
BuildStep(b) ==
    \/ build'[b] = build[b]
    \/ build'[b] = A!NoBuild
    \/ /\ build'[b].next = 1 /\ \E r \in Readers : build'[b].mtimes = looker[r].mtimes
    \/ /\ UNCHANGED <<list, dir>> /\ build'[b].mtimes = build[b].mtimes
       /\ build[b].pc = "read" /\ build'[b].next = build[b].next + 1
       /\ build'[b].content = [build[b].content EXCEPT ![build[b].next] = list[dir][build[b].next]]
LookerStep(r) ==
    \/ looker'[r].mtimes = looker[r].mtimes
    \/ looker'[r].mtimes = A!NoFiles
    \/ looker'[r].mtimes = [looker[r].mtimes EXCEPT ![looker[r].next] = list[dir][looker[r].next]]

LEMMA LookerSteps == ASSUME AdblockTypes, A!Next, NEW r \in Readers PROVE LookerStep(r)
<1>. USE DEF AdblockTypes
<1>1. ASSUME NEW q \in Readers, A!Look(q) \/ A!Want(q) \/ A!Wake(q) PROVE looker'[r].mtimes = looker[r].mtimes
  <2>1. CASE A!Look(q)
    BY <2>1 DEF A!Look, Lookers
  <2>2. CASE A!Want(q)
    BY <2>2 DEF A!Want, Lookers
  <2>3. CASE A!Wake(q)
    BY <2>3 DEF A!Wake, Lookers
  <2>. QED
    BY <1>1, <2>1, <2>2, <2>3
<1>2. ASSUME NEW q \in Readers, A!Stat(q) PROVE LookerStep(r)
  BY <1>2 DEF A!Stat, Lookers, LookerStep
<1>3. ASSUME NEW q \in Readers, A!Need(q) PROVE LookerStep(r)
  BY <1>3 DEF A!Need, A!IdleRead, LookerStep
<1>4. CASE A!Configure
  BY <1>4 DEF A!Configure, Lookers, LookerStep
<1>5. (\E l \in A!Lists : A!AdminDownload(l) \/ A!Delete(l) \/ A!PassOver(l) \/ A!Refresh(l))
      \/ A!StartRound \/ A!Invalidate \/ A!Expire
      \/ (\E p \in A!Downloaders : A!Install(p) \/ A!DownloadFails(p))
      \/ (\E b \in 1..MaxBuilds : A!Compile(b) \/ A!CompileFails(b) \/ A!Compiled(b)) => looker' = looker
  BY DEF A!AdminDownload, A!Delete, A!PassOver, A!Refresh, A!StartRound, A!Install, A!DownloadFails,
         A!Invalidate, A!Expire, A!Compile, A!CompileFails, A!Compiled
<1>. QED
  BY <1>1, <1>2, <1>3, <1>4, <1>5 DEF A!Next, A!Request, LookerStep

LEMMA BuildSteps == ASSUME AdblockTypes, A!Next, NEW b \in 1..MaxBuilds PROVE BuildStep(b)
<1>. USE DEF AdblockTypes, A!engineVars, A!fileVars
<1>1. ASSUME NEW r \in Readers, A!Need(r) PROVE BuildStep(b)
  <2>1. CASE build' = build
    BY <2>1 DEF BuildStep
  <2>2. ASSUME NEW c \in 1..MaxBuilds,
               build' = [build EXCEPT ![c] = [A!NoBuild EXCEPT !.pc = "read", !.mtimes = looker[r].mtimes]]
        PROVE BuildStep(b)
    <3>1. \A m \in A!Contents : LET x == [A!NoBuild EXCEPT !.pc = "read", !.mtimes = m]
                                IN  x.next = 1 /\ x.mtimes = m
      BY DEF A!NoBuild
    <3>2. looker[r].mtimes \in A!Contents
      BY DEF Lookers
    <3>. QED
      BY <2>2, <3>1, <3>2 DEF BuildStep
  <2>. QED
    BY <1>1, <2>1, <2>2 DEF A!Need
<1>2. ASSUME NEW c \in 1..MaxBuilds, A!CompileFails(c) \/ A!Compiled(c) PROVE BuildStep(b)
  BY <1>2 DEF A!CompileFails, A!Compiled, BuildStep
<1>3. ASSUME NEW c \in 1..MaxBuilds, A!Compile(c) PROVE BuildStep(b)
  BY <1>3 DEF A!Compile, BuildStep, Builds
<1>4. (\E l \in A!Lists : A!AdminDownload(l) \/ A!Delete(l) \/ A!PassOver(l) \/ A!Refresh(l))
      \/ A!StartRound \/ A!Invalidate \/ A!Expire \/ A!Configure
      \/ (\E p \in A!Downloaders : A!Install(p) \/ A!DownloadFails(p))
      \/ (\E r \in Readers : A!Look(r) \/ A!Stat(r) \/ A!Want(r) \/ A!Wake(r)) => build' = build
  BY DEF A!AdminDownload, A!Delete, A!PassOver, A!Refresh, A!StartRound, A!Install, A!DownloadFails,
         A!Invalidate, A!Expire, A!Configure, A!Look, A!Stat, A!Want, A!Wake
<1>. QED
  BY <1>1, <1>2, <1>3, <1>4 DEF A!Next, A!Request, BuildStep

LEMMA EngineSteps == ASSUME AdblockTypes, AdblockAsks, A!Next PROVE EngineStep
<1>. USE DEF AdblockTypes, A!engineVars
<1>1. ASSUME NEW r \in Readers, A!Look(r) PROVE EngineStep
  <2>1. CASE cached = Nothing
    BY <1>1, <2>1 DEF A!Look, A!NewEngine, EngineStep
  <2>2. CASE cached # Nothing
    BY <1>1, <2>2 DEF A!Look, A!Engines, EngineStep
  <2>. QED
    BY <2>1, <2>2
<1>2. ASSUME NEW r \in Readers, A!Need(r) PROVE EngineStep
  <2>1. cached' = cached \/ (cached \in A!Engines /\ cached' = [cached EXCEPT !.building = TRUE])
    BY <1>2 DEF A!Need, A!IdleRead, AdblockAsks
  <2>2. \A e \in A!Engines : LET x == [e EXCEPT !.building = TRUE]
                            IN  x.content = e.content /\ x.mtimes = e.mtimes
    BY DEF A!Engines
  <2>. QED
    BY <2>1, <2>2, AdblockFacts DEF EngineStep
<1>3. ASSUME NEW b \in 1..MaxBuilds, A!CompileFails(b) PROVE EngineStep
  BY <1>3 DEF A!CompileFails, A!Engines, EngineStep
<1>4. ASSUME NEW b \in 1..MaxBuilds, A!Compiled(b) PROVE EngineStep
  <2>1. CASE cached = Nothing
    BY <1>4, <2>1 DEF A!Compiled, EngineStep
  <2>2. CASE cached \in A!Engines
    <3>1. A!Built(b, build[b].mtimes).content = build[b].content
          /\ A!Built(b, build[b].mtimes).mtimes = build[b].mtimes
      BY <2>2 DEF A!Built, A!Engines
    <3>. QED
      BY <1>4, <2>2, <3>1 DEF A!Compiled, EngineStep
  <2>. QED
    BY <2>1, <2>2
<1>5. CASE A!Expire \/ A!Invalidate
  BY <1>5 DEF A!Expire, A!Invalidate, A!Stale, A!Engines, EngineStep
<1>6. CASE A!Configure
  BY <1>6 DEF A!Configure, EngineStep
<1>7. (\E l \in A!Lists : A!AdminDownload(l) \/ A!Delete(l) \/ A!PassOver(l) \/ A!Refresh(l))
      \/ A!StartRound \/ (\E p \in A!Downloaders : A!Install(p) \/ A!DownloadFails(p))
      \/ (\E r \in Readers : A!Stat(r) \/ A!Want(r) \/ A!Wake(r))
      \/ (\E b \in 1..MaxBuilds : A!Compile(b)) => cached' = cached
  BY DEF A!AdminDownload, A!Delete, A!PassOver, A!Refresh, A!StartRound, A!Install, A!DownloadFails,
         A!Stat, A!Want, A!Wake, A!Compile
<1>. QED
  BY <1>1, <1>2, <1>3, <1>4, <1>5, <1>6, <1>7 DEF A!Next, A!Request, EngineStep

LEMMA FileSteps ==
    ASSUME AdblockTypes, AdblockAsks, OneDirectory, NotedTimes, A!Next, moves' <= 1
    PROVE  FileStep
<1>. USE DEF AdblockTypes, A!fileVars
<1>1. ASSUME NEW p \in A!Downloaders, A!Install(p) PROVE FileStep
  BY <1>1 DEF A!Install, FileStep, AdblockAsks, A!Contents
<1>2. ASSUME NEW l \in A!Lists, A!Delete(l) PROVE FileStep
  BY <1>2 DEF A!Delete, FileStep, A!Contents
<1>3. CASE A!Configure
  <2>1. moves = 0
    BY <1>3 DEF A!Configure
  <2>. QED
    BY <1>3, <2>1 DEF A!Configure, FileStep, OneDirectory
<1>4. (\E l \in A!Lists : A!AdminDownload(l) \/ A!PassOver(l) \/ A!Refresh(l))
      \/ A!StartRound \/ A!Invalidate \/ A!Expire \/ A!Request
      \/ (\E p \in A!Downloaders : A!DownloadFails(p))
      \/ (\E b \in 1..MaxBuilds : A!Compile(b) \/ A!CompileFails(b) \/ A!Compiled(b))
          => UNCHANGED <<list, dir, version>>
  BY DEF A!AdminDownload, A!PassOver, A!Refresh, A!StartRound, A!DownloadFails, A!Look, A!Stat, A!Want, A!Wake,
         A!Need, A!Request, A!Invalidate, A!Expire, A!Compile, A!CompileFails, A!Compiled
<1>. QED
  BY <1>1, <1>2, <1>3, <1>4 DEF A!Next, FileStep

LEMMA NoteTypes ==
    /\ \A m \in A!Contents, l \in A!Lists : m[l] \in Nat
    /\ \A m \in A!Contents, l, k \in A!Lists, t \in 0..MaxDownloads + 1 :
          [m EXCEPT ![k] = t][l] = IF l = k THEN t ELSE m[l]
    /\ AdblockTypes => /\ version \in Nat
                       /\ \A l \in A!Lists : list[dir][l] \in 0..MaxDownloads + 1
                       /\ \A r \in Readers : looker[r].mtimes \in A!Contents /\ looker[r].next \in Nat
                       /\ \A b \in 1..MaxBuilds : /\ build[b].mtimes \in A!Contents
                                                  /\ build[b].content \in A!Contents
                                                  /\ build[b].next \in 1..NLists + 1
                       /\ cached # Nothing => /\ cached.mtimes \in A!Contents
                                              /\ cached.content \in A!Contents \cup {Nothing}
<1>1. \A m \in A!Contents, l \in A!Lists : m[l] \in 0..MaxDownloads + 1
  BY DEF A!Contents
<1>2. 0..MaxDownloads + 1 \subseteq Nat
  BY AdblockFacts
<1>3. \A m \in A!Contents, l, k \in A!Lists, t \in 0..MaxDownloads + 1 :
          [m EXCEPT ![k] = t][l] = IF l = k THEN t ELSE m[l]
  BY DEF A!Contents
<1>4. ASSUME AdblockTypes
      PROVE  /\ \A r \in Readers : looker[r].mtimes \in A!Contents /\ looker[r].next \in Nat
             /\ \A b \in 1..MaxBuilds : /\ build[b].mtimes \in A!Contents
                                        /\ build[b].content \in A!Contents
                                        /\ build[b].next \in 1..NLists + 1
  BY <1>4, AdblockFacts DEF AdblockTypes, Lookers, Builds
<1>5. ASSUME AdblockTypes
      PROVE  cached # Nothing => /\ cached.mtimes \in A!Contents
                                 /\ cached.content \in A!Contents \cup {Nothing}
  BY <1>5 DEF AdblockTypes, A!Engines
<1>6. ASSUME AdblockTypes
      PROVE  version \in Nat /\ \A l \in A!Lists : list[dir][l] \in 0..MaxDownloads + 1
  BY <1>1, <1>6, AdblockFacts DEF AdblockTypes
<1>. QED
  BY <1>1, <1>2, <1>3, <1>4, <1>5, <1>6

LEMMA NotedTimesNext ==
    ASSUME AdblockTypes, AdblockTypes', NotedTimes, FileStep, EngineStep,
           \A r \in Readers : LookerStep(r), \A b \in 1..MaxBuilds : BuildStep(b),
           \A l \in A!Lists : list[dir][l] <= version
    PROVE  NotedTimes'
<1>. USE NoteTypes
<1>1. \A m \in A!Contents : Noted(m) => Noted(m)'
  BY DEF Noted, FileStep
<1>2. Noted(A!NoFiles)
  BY DEF Noted, A!NoFiles
<1>3. ASSUME NEW r \in Readers PROVE Noted(looker[r].mtimes)'
  <2>1. Noted(looker[r].mtimes) /\ looker[r].mtimes \in A!Contents
    BY DEF NotedTimes
  <2>2. CASE looker'[r].mtimes = [looker[r].mtimes EXCEPT ![looker[r].next] = list[dir][looker[r].next]]
    <3>1. Noted(looker'[r].mtimes)
      BY <2>1, <2>2 DEF Noted, A!Contents
    <3>. QED
      BY <1>1, <3>1 DEF AdblockTypes, Lookers
  <2>. QED
    BY <1>1, <1>2, <2>1, <2>2, AdblockFacts DEF LookerStep
<1>4. ASSUME NEW b \in 1..MaxBuilds PROVE Noted(build[b].mtimes)'
  <2>2. PICK m \in A!Contents : build'[b].mtimes = m /\ Noted(m)
    <3>1. A!NoBuild.mtimes = A!NoFiles
      BY DEF A!NoBuild
    <3>2. \A r \in Readers : Noted(looker[r].mtimes) /\ looker[r].mtimes \in A!Contents
      BY DEF NotedTimes
    <3>3. Noted(build[b].mtimes) /\ build[b].mtimes \in A!Contents
      BY DEF NotedTimes
    <3>. QED
      BY <1>2, <3>1, <3>2, <3>3, AdblockFacts DEF BuildStep
  <2>. QED
    BY <1>1, <2>2
<1>5. ASSUME cached' # Nothing PROVE Noted(cached.mtimes)'
  BY <1>1, <1>2, <1>5, AdblockFacts DEF EngineStep, NotedTimes
<1>. QED
  BY <1>3, <1>4, <1>5 DEF NotedTimes

LEMMA CompiledAfterNext ==
    ASSUME AdblockTypes, NotedTimes, CompiledAfter, FileStep, EngineStep,
           \A b \in 1..MaxBuilds : BuildStep(b)
    PROVE  CompiledAfter'
<1>. USE NoteTypes
<1>1. ASSUME NEW m \in A!Contents, NEW c, NEW l \in A!Lists, Noted(m), ReadAfter(m, c, l)
      PROVE ReadAfter(m, c, l)'
  BY <1>1 DEF Noted, ReadAfter, FileStep
<1>2. ASSUME NEW b \in 1..MaxBuilds, build'[b].pc = "read", NEW l \in A!Lists, l < build'[b].next
      PROVE ReadAfter(build[b].mtimes, build[b].content, l)'
  <2>1. CASE build'[b] = build[b]
    BY <1>1, <1>2, <2>1 DEF CompiledAfter, NotedTimes
  <2>2. build'[b] # A!NoBuild
    BY <1>2 DEF A!NoBuild
  <2>3. build'[b].next # 1
    BY <1>2 DEF A!Lists
  <2>4. CASE /\ UNCHANGED <<list, dir>> /\ build'[b].mtimes = build[b].mtimes
             /\ build[b].pc = "read" /\ build'[b].next = build[b].next + 1
             /\ build'[b].content = [build[b].content EXCEPT ![build[b].next] = list[dir][build[b].next]]
    <3>1. CASE l < build[b].next
      <4>1. build'[b].content[l] = build[b].content[l]
        BY <2>4, <3>1 DEF A!Contents
      <4>. QED
        BY <2>4, <3>1, <4>1 DEF CompiledAfter, ReadAfter
    <3>2. CASE l = build[b].next
      BY <2>4, <3>2 DEF ReadAfter, A!Contents
    <3>3. l < build[b].next \/ l = build[b].next
      BY <1>2, <2>4, AdblockFacts DEF A!Lists
    <3>. QED
      BY <3>1, <3>2, <3>3
  <2>. QED
    BY <2>1, <2>2, <2>3, <2>4 DEF BuildStep
<1>3. ASSUME cached' # Nothing, cached'.content # Nothing, NEW l \in A!Lists
      PROVE ReadAfter(cached.mtimes, cached.content, l)'
  <2>1. CASE /\ cached # Nothing /\ cached'.content = cached.content /\ cached'.mtimes = cached.mtimes
    BY <1>1, <1>3, <2>1 DEF CompiledAfter, NotedTimes
  <2>2. ASSUME NEW b \in 1..MaxBuilds, build[b].pc = "read", build[b].next > NLists,
               cached'.content = build[b].content, cached'.mtimes = build[b].mtimes
        PROVE ReadAfter(cached.mtimes, cached.content, l)'
    <3>1. l < build[b].next
      BY <2>2, AdblockFacts DEF A!Lists
    <3>. QED
      BY <1>1, <2>2, <3>1 DEF CompiledAfter, NotedTimes
  <2>. QED
    BY <1>3, <2>1, <2>2 DEF EngineStep
<1>. QED
  BY <1>2, <1>3 DEF CompiledAfter

LEMMA OneDirectoryNext ==
    ASSUME AdblockTypes, AdblockAsks, OneDirectory, FilesNoted, A!Next PROVE OneDirectory' /\ FilesNoted'
<1>. USE DEF AdblockTypes, A!fileVars, A!boundVars
<1>1. ASSUME NEW p \in A!Downloaders, A!Install(p) PROVE OneDirectory' /\ FilesNoted'
  <2>1. \A q \in A!Downloaders : down'[q].pc = "fetch" => down'[q] = down[q]
    BY <1>1 DEF A!Install, A!IdleDown, Fetchers
  <2>2. \A d \in Dirs, l \in A!Lists :
           list'[d][l] = IF d = down[p].dir /\ l = down[p].list THEN version + 1 ELSE list[d][l]
    BY <1>1 DEF A!Install, A!Contents
  <2>3. FilesNoted'
    BY <1>1, <2>2, NoteTypes DEF FilesNoted, Noted, A!Install
  <2>. QED
    BY <1>1, <2>1, <2>2, <2>3 DEF A!Install, OneDirectory
<1>2. ASSUME NEW l \in A!Lists, A!Delete(l) PROVE OneDirectory' /\ FilesNoted'
  BY <1>2, NoteTypes DEF A!Delete, OneDirectory, A!Contents, FilesNoted, Noted
<1>3. CASE A!Configure
  BY <1>3, AdblockFacts DEF A!Configure, OneDirectory, FilesNoted, Noted
<1>4. ASSUME NEW l \in A!Lists, A!AdminDownload(l) \/ A!Refresh(l) PROVE OneDirectory' /\ FilesNoted'
  BY <1>4 DEF A!AdminDownload, A!Refresh, OneDirectory, A!IdleDown, FilesNoted, Noted
<1>5. ASSUME (\E p \in A!Downloaders : A!DownloadFails(p)) \/ A!Invalidate PROVE OneDirectory' /\ FilesNoted'
  BY <1>5 DEF A!DownloadFails, A!Invalidate, A!IdleDown, OneDirectory, FilesNoted, Noted
<1>6. (\E l \in A!Lists : A!PassOver(l)) \/ A!StartRound \/ A!Expire \/ A!Request
      \/ (\E b \in 1..MaxBuilds : A!Compile(b) \/ A!CompileFails(b) \/ A!Compiled(b))
         => UNCHANGED <<list, dir, down, moves, version>>
  BY DEF A!PassOver, A!StartRound, A!Look, A!Stat, A!Want, A!Wake,
         A!Need, A!Request, A!Expire, A!Compile, A!CompileFails, A!Compiled
<1>. QED
  BY <1>1, <1>2, <1>3, <1>4, <1>5, <1>6 DEF A!Next, OneDirectory, FilesNoted, Noted

LEMMA NothingForgottenNext ==
    ASSUME AdblockTypes, A!NothingForgotten, A!Next PROVE A!NothingForgotten'
<1>. USE DEF AdblockTypes, A!engineVars, A!wishVars
<1>1. (cached' # Nothing /\ cached'.building) => \E b \in 1..MaxBuilds : build'[b].pc = "read"
  <2>. SUFFICES ASSUME cached' # Nothing, cached'.building
                PROVE \E b \in 1..MaxBuilds : build'[b].pc = "read"
    OBVIOUS
  <2>1. ASSUME NEW r \in Readers, A!Look(r) PROVE \E b \in 1..MaxBuilds : build'[b].pc = "read"
    <3>1. cached # Nothing /\ cached.building
      BY <2>1 DEF A!Look, A!NewEngine, A!Engines
    <3>. QED
      BY <2>1, <3>1 DEF A!Look, A!NothingForgotten
  <2>2. ASSUME NEW r \in Readers, A!Need(r) PROVE \E b \in 1..MaxBuilds : build'[b].pc = "read"
    <3>1. CASE A!NeedsBuild(r)
      <4>1. PICK b \in 1..MaxBuilds :
               build' = [build EXCEPT ![b] = [A!NoBuild EXCEPT !.pc = "read", !.mtimes = looker[r].mtimes]]
        BY <2>2, <3>1 DEF A!Need
      <4>2. build'[b].pc = "read"
        BY <4>1 DEF A!NoBuild
      <4>. QED
        BY <4>2
    <3>2. CASE ~A!NeedsBuild(r)
      BY <2>2, <3>2 DEF A!Need, A!NothingForgotten
    <3>. QED
      BY <3>1, <3>2
  <2>3. ASSUME NEW c \in 1..MaxBuilds, A!Compile(c) PROVE \E b \in 1..MaxBuilds : build'[b].pc = "read"
    BY <2>3 DEF A!Compile, Builds
  <2>4. ASSUME NEW c \in 1..MaxBuilds, A!CompileFails(c) \/ A!Compiled(c) PROVE FALSE
    BY <2>4 DEF A!CompileFails, A!Compiled, A!Built, A!Engines
  <2>5. A!Expire \/ A!Invalidate => (cached # Nothing /\ cached.building /\ build' = build)
    BY DEF A!Expire, A!Invalidate, A!Stale, A!Engines
  <2>6. ~A!Configure
    BY DEF A!Configure
  <2>7. (\E l \in A!Lists : A!AdminDownload(l) \/ A!Delete(l) \/ A!PassOver(l) \/ A!Refresh(l))
      \/ A!StartRound \/ (\E p \in A!Downloaders : A!Install(p) \/ A!DownloadFails(p))
      \/ (\E r \in Readers : A!Stat(r) \/ A!Want(r) \/ A!Wake(r)) => UNCHANGED <<cached, build>>
    BY DEF A!AdminDownload, A!Delete, A!PassOver, A!Refresh, A!StartRound, A!Install, A!DownloadFails,
           A!Stat, A!Want, A!Wake
  <2>. QED
    BY <2>1, <2>2, <2>3, <2>4, <2>5, <2>6, <2>7 DEF A!Next, A!Request, A!NothingForgotten
<1>2. wanted' # {} => wake' \/ \E r \in Readers : looker'[r].pc = "wake"
  <2>. SUFFICES ASSUME wanted' # {} PROVE wake' \/ \E r \in Readers : looker'[r].pc = "wake"
    OBVIOUS
  <2>1. ASSUME NEW r \in Readers, A!Want(r) PROVE wake' \/ \E q \in Readers : looker'[q].pc = "wake"
    <3>1. CASE A!Missing(looker[r].mtimes) = {}
      <4>1. \A q \in Readers : looker[q].pc = "wake" => looker'[q].pc = "wake"
        BY <2>1 DEF A!Want, Lookers
      <4>. QED
        BY <2>1, <3>1, <4>1 DEF A!Want, A!NothingForgotten
    <3>2. CASE A!Missing(looker[r].mtimes) # {}
      <4>1. looker'[r].pc = "wake"
        BY <2>1, <3>2 DEF A!Want, Lookers
      <4>. QED
        BY <4>1
    <3>. QED
      BY <3>1, <3>2
  <2>2. ASSUME NEW r \in Readers, A!Look(r) \/ A!Stat(r) \/ A!Need(r)
        PROVE wake' \/ \E q \in Readers : looker'[q].pc = "wake"
    <3>1. \A q \in Readers : looker[q].pc = "wake" => looker'[q].pc = "wake"
      <4>1. CASE A!Look(r)
        BY <4>1 DEF A!Look, Lookers
      <4>2. CASE A!Stat(r)
        BY <4>2 DEF A!Stat, Lookers
      <4>3. CASE A!Need(r)
        BY <4>3 DEF A!Need, Lookers
      <4>. QED
        BY <2>2, <4>1, <4>2, <4>3
    <3>. QED
      BY <2>2, <3>1 DEF A!Look, A!Stat, A!Need, A!NothingForgotten
  <2>3. \A r \in Readers : A!Wake(r) => wake'
    BY DEF A!Wake
  <2>4. ~A!StartRound
    BY DEF A!StartRound
  <2>5. CASE A!Configure
    <3>1. \A q \in Readers : looker[q].pc = "wake" => looker'[q].pc = "wake"
      BY <2>5 DEF A!Configure, Lookers
    <3>. QED
      BY <2>5, <3>1 DEF A!Configure, A!NothingForgotten
  <2>6. (\E l \in A!Lists : A!AdminDownload(l) \/ A!Delete(l) \/ A!PassOver(l) \/ A!Refresh(l))
      \/ (\E p \in A!Downloaders : A!Install(p) \/ A!DownloadFails(p)) \/ A!Expire \/ A!Invalidate
      \/ (\E b \in 1..MaxBuilds : A!Compile(b) \/ A!CompileFails(b) \/ A!Compiled(b))
         => UNCHANGED <<wanted, wake, looker>>
    BY DEF A!AdminDownload, A!Delete, A!PassOver, A!Refresh, A!Install, A!DownloadFails, A!Expire, A!Invalidate,
           A!Compile, A!CompileFails, A!Compiled
  <2>. QED
    BY <2>1, <2>2, <2>3, <2>4, <2>5, <2>6 DEF A!Next, A!Request, A!NothingForgotten
<1>. QED
  BY <1>1, <1>2 DEF A!NothingForgotten

LEMMA AdblockNextInv == ASSUME AdblockInv, [AdblockNext]_adblock PROVE AdblockInv'
<1>1. AdblockTypes
  BY DEF AdblockInv, A!TypeOK, AdblockTypes, Lookers, Builds, Fetchers
<1>2. CASE AdblockNext
  <2>1. A!TypeOK'
    BY <1>2, AdblockTypeNext DEF AdblockInv, AdblockNext
  <2>2. AdblockTypes'
    BY <2>1 DEF A!TypeOK, AdblockTypes, Lookers, Builds, Fetchers
  <2>3. moves' <= 1
    <3>1. deletes' \in Nat /\ moves' \in Nat
      BY <2>2 DEF AdblockTypes
    <3>2. deletes' + moves' <= 1
      BY <1>2, Zenon DEF AdblockNext
    <3>3. \A x, y \in Nat : x + y <= 1 => y <= 1
      OBVIOUS
    <3>. QED
      BY <3>1, <3>2, <3>3
  <2>4. A!Next /\ AdblockAsks /\ A!NothingForgotten /\ OneDirectory /\ FilesNoted /\ NotedTimes /\ CompiledAfter
    BY <1>2 DEF AdblockNext, AdblockInv
  <2>5. FileStep /\ EngineStep
    BY <1>1, <2>3, <2>4, FileSteps, EngineSteps
  <2>6. (\A r \in Readers : LookerStep(r)) /\ \A b \in 1..MaxBuilds : BuildStep(b)
    BY <1>1, <2>4, LookerSteps, BuildSteps
  <2>7. \A l \in A!Lists : list[dir][l] <= version
    BY <1>1, <2>4 DEF FilesNoted, Noted, AdblockTypes
  <2>8. NotedTimes' /\ CompiledAfter'
    BY <1>1, <2>2, <2>4, <2>5, <2>6, <2>7, NotedTimesNext, CompiledAfterNext
  <2>9. AdblockAsks' /\ OneDirectory' /\ FilesNoted' /\ A!NothingForgotten'
    BY <1>1, <2>4, AdblockAsksNext, OneDirectoryNext, NothingForgottenNext
  <2>. QED
    BY <2>1, <2>8, <2>9 DEF AdblockInv
<1>3. CASE UNCHANGED adblock
  BY <1>3 DEF adblock, AdblockInv, A!TypeOK, AdblockAsks, A!NothingForgotten, OneDirectory, FilesNoted,
              NotedTimes, Noted, CompiledAfter, ReadAfter
<1>. QED
  BY <1>2, <1>3

(* An engine that passes for current holds what the files hold.            *)
LEMMA AdblockCurrent == AdblockInv => A!CurrentMeansCurrent
<1>. SUFFICES ASSUME AdblockInv, cached # Nothing, cached.content # Nothing, cached.mtimes = list[dir]
              PROVE  A!Holds(cached)
  BY DEF A!CurrentMeansCurrent
<1>1. \A l \in A!Installed : l \in A!Lists /\ list[dir][l] # 0
  BY CountsAssumption DEF A!Installed, AdblockInv, A!TypeOK, A!Contents
<1>. QED
  BY <1>1 DEF AdblockInv, CompiledAfter, ReadAfter, A!Holds

-----------------------------------------------------------------------------
(* The categories, their index, and the cache of lookups                   *)

Entries == [mtime : 0..MaxWrites + 1, domains : C!List, stale : BOOLEAN]
Seekers == [pc : {"idle", "stat", "stat2", "compare", "load", "store"},
            name : Used \cup {Nothing}, base : Bases \cup {Nothing},
            seen : C!List \cup {Nothing}, got : C!List \cup {Nothing}]
Works   == [pc : {"idle", "remove", "swap", "index", "write"},
            op : {"download", "delete", "update", Nothing}, base : Bases \cup {Nothing},
            todo : SUBSET Categories, staged : C!List \cup {Nothing},
            done : SUBSET Categories, doc : SUBSET Categories]

(* A lookup under way has a category and a directory; one that has found a *)
(* file, its time; one that has loaded it, a list.  A writer has a         *)
(* directory, and a list to put in place as long as it replaces.  The      *)
(* threads of the process work on one category at a time, its tarball on   *)
(* an update.                                                              *)
Replaces(u) == up[u].pc \in {"remove", "swap"}
CategoriesAsk ==
    /\ \A r \in Readers : reader[r].pc # "idle" => reader[r].name \in Used /\ reader[r].base \in Bases
    /\ \A r \in Readers : reader[r].pc \in {"compare", "load", "store"} => reader[r].seen \in C!List
    /\ \A r \in Readers : reader[r].pc = "store" => reader[r].got \in C!List
    /\ \A u \in C!Updaters : up[u].pc # "idle" => up[u].base \in Bases
    /\ \A u \in C!Updaters : Replaces(u) => up[u].staged \in C!List
    /\ up[Tarball].pc # "idle" => up[Tarball].op = "update"

(* A time belongs to one list of a category: no two directories and no     *)
(* writer about to put a list in place share one.                          *)
Staged(c, t) == \E u \in C!Updaters : Replaces(u) /\ c \in up[u].todo /\ up[u].staged.at = t
InForce(b, c, t) == file[b][c] # Nothing /\ file[b][c].at = t
TimesUnique ==
    /\ \A b \in Bases, c \in Categories :
          file[b][c] # Nothing => /\ file[b][c].at \in 1..serial
                                  /\ ~Staged(c, file[b][c].at)
    /\ \A a, b \in Bases, c \in Categories :
          (a # b /\ file[a][c] # Nothing) => ~InForce(b, c, file[a][c].at)
    /\ \A u \in C!Updaters : Replaces(u) => up[u].staged.at \in 1..serial
    /\ \A u, v \in C!Updaters : (u # v /\ Replaces(u) /\ Replaces(v)) => up[u].staged.at # up[v].staged.at

(* Whoever has noted a time has noted one that no list will get any more,  *)
(* and as long as a file has it, what was noted with it is that file.      *)
Past(c, t) == t <= serial /\ ~Staged(c, t)
Same(c, t, x) == \A b \in Bases : InForce(b, c, t) => file[b][c] = x
CacheBelongs ==
    \A c \in Used : cache[c] # Nothing => Past(c, cache[c].mtime) /\ Same(c, cache[c].mtime, cache[c].domains)
LookupsBelong ==
    \A r \in Readers :
       /\ reader[r].pc \in {"compare", "load", "store"} => Past(reader[r].name, reader[r].seen.at)
       /\ reader[r].pc \in {"compare", "load"} =>
             /\ Same(reader[r].name, reader[r].seen.at, reader[r].seen)
             /\ \A b \in Bases : InForce(b, reader[r].name, reader[r].seen.at) => b = reader[r].base
       /\ reader[r].pc = "store" => Same(reader[r].name, reader[r].seen.at, reader[r].got)

(* The lock is held from reading the index to writing it, and what was     *)
(* read is the index unless the tarball replaced it.                       *)
IndexHeld ==
    /\ \A u \in C!Updaters : up[u].pc = "write" => lock = u
    /\ overtaken \/ \A u \in C!Updaters : up[u].pc = "write" => up[u].doc = listed[up[u].base]

CategoriesInv ==
    /\ C!TypeOK /\ CategoriesAsk /\ TimesUnique
    /\ CacheBelongs /\ LookupsBelong /\ IndexHeld

CategoriesChecked == which \in {"lookups", "index"} => CategoriesInv

LEMMA CategoryFacts ==
    /\ MaxWrites \in Nat /\ MaxSwitches \in Nat /\ Used \subseteq Categories /\ Tarball \notin Threads
    /\ Tarball \in C!Updaters /\ Threads \subseteq C!Updaters
    /\ Nothing \notin C!List /\ Nothing \notin Bases /\ Nothing \notin Entries /\ Nothing \notin C!Updaters
    /\ C!EmptySet \in C!List /\ C!EmptySet.at = 0
    /\ \A x \in C!List : x.at \in 0..MaxWrites + 1 /\ x.form \in C!Forms
<1>1. Entries \subseteq [mtime : Nat, domains : C!List, stale : BOOLEAN]
  <2>1. 0..MaxWrites + 1 \subseteq Nat
    BY CountsAssumption
  <2>. QED
    BY <2>1 DEF Entries
<1>2. C!EmptySet \in C!List /\ C!EmptySet.at = 0
  BY CountsAssumption DEF C!EmptySet, C!List, C!Forms
<1>3. \A x \in C!List : x.at \in 0..MaxWrites + 1 /\ x.form \in C!Forms
  BY DEF C!List
<1>4. Nothing \notin C!List /\ Nothing \notin Bases /\ Nothing \notin Entries /\ Nothing \notin C!Updaters
  BY <1>1, NothingAssumption
<1>. QED
  BY <1>2, <1>3, <1>4, CountsAssumption, UsersAssumption DEF C!Updaters

LEMMA StagedTypes == \A n \in 1..MaxWrites + 1 : /\ C!Gz(n) \in C!List /\ C!Plain(n) \in C!List
                                                 /\ C!Gz(n).at = n /\ C!Plain(n).at = n
BY CountsAssumption DEF C!Gz, C!Plain, C!List, C!Forms

CategoryTypes ==
    /\ base \in Bases /\ serial \in 1..MaxWrites + 1 /\ switches \in 0..MaxSwitches /\ overtaken \in BOOLEAN
    /\ file \in [Bases -> [Categories -> C!List \cup {Nothing}]]
    /\ listed \in [Bases -> SUBSET Categories] /\ lock \in Threads \cup {Nothing}
    /\ cache \in [Used -> Entries \cup {Nothing}]
    /\ reader \in [Readers -> Seekers] /\ up \in [C!Updaters -> Works]

LEMMA CategoryTypesAgree == (C!TypeOK <=> CategoryTypes) /\ (C!TypeOK' <=> CategoryTypes')
BY DEF C!TypeOK, CategoryTypes, Entries, Seekers, Works

LEMMA RestTypes == C!Idle \in Seekers /\ C!NoWork \in Works
BY DEF C!Idle, C!NoWork, Seekers, Works

LEMMA CategoriesInit == C!Init => CategoriesInv
<1>. SUFFICES ASSUME C!Init PROVE CategoriesInv
  OBVIOUS
<1>. USE CategoryFacts
<1>0. PICK have \in SUBSET Categories :
          /\ file = [b \in Bases |-> [c \in Categories |-> IF b = base /\ c \in have THEN C!Plain(1) ELSE Nothing]]
          /\ listed = [b \in Bases |-> IF b = base THEN have ELSE {}]
  BY DEF C!Init
<1>a. C!Plain(1) \in C!List /\ C!Plain(1).at = 1
  BY StagedTypes
<1>1. CategoryTypes
  <2>1. file \in [Bases -> [Categories -> C!List \cup {Nothing}]] /\ listed \in [Bases -> SUBSET Categories]
    BY <1>0, <1>a
  <2>2. reader \in [Readers -> Seekers] /\ up \in [C!Updaters -> Works]
    BY RestTypes DEF C!Init
  <2>3. base \in Bases /\ lock \in Threads \cup {Nothing} /\ overtaken \in BOOLEAN
        /\ cache \in [Used -> Entries \cup {Nothing}]
    BY DEF C!Init
  <2>4. serial \in 1..MaxWrites + 1 /\ switches \in 0..MaxSwitches
    BY DEF C!Init
  <2>. QED
    BY <2>1, <2>2, <2>3, <2>4 DEF CategoryTypes
<1>2. /\ \A u \in C!Updaters : up[u].pc = "idle"
      /\ \A r \in Readers : reader[r].pc = "idle"
  BY DEF C!Init, C!NoWork, C!Idle
<1>3. CategoriesAsk /\ LookupsBelong /\ IndexHeld
  BY <1>2 DEF CategoriesAsk, LookupsBelong, IndexHeld, Replaces
<1>4. TimesUnique
  <2>1. \A u \in C!Updaters : ~Replaces(u)
    BY <1>2 DEF Replaces
  <2>2. \A b \in Bases, c \in Categories :
           file[b][c] # Nothing => b = base /\ file[b][c].at = 1
    BY <1>0, <1>a
  <2>3. serial = 1
    BY DEF C!Init
  <2>. QED
    BY <2>1, <2>2, <2>3 DEF TimesUnique, Staged, InForce
<1>5. CacheBelongs
  BY DEF C!Init, CacheBelongs
<1>. QED
  BY <1>1, <1>3, <1>4, <1>5, CategoryTypesAgree DEF CategoriesInv

LEMMA SeekerTypes ==
    /\ \A c \in Used, b \in Bases : [C!Idle EXCEPT !.pc = "stat", !.name = c, !.base = b] \in Seekers
    /\ \A x \in Seekers, v \in {"stat2", "load"} : [x EXCEPT !.pc = v] \in Seekers
    /\ \A x \in Seekers, f \in C!List \cup {Nothing} : [x EXCEPT !.pc = "compare", !.seen = f] \in Seekers
    /\ \A x \in Seekers, f, g \in C!List \cup {Nothing} : [x EXCEPT !.pc = "store", !.seen = f, !.got = g] \in Seekers
    /\ \A x \in Seekers, g \in C!List \cup {Nothing} : [x EXCEPT !.pc = "store", !.got = g] \in Seekers
<1>1. \A x \in Seekers, c \in Used : [x EXCEPT !.name = c] \in Seekers
  BY DEF Seekers
<1>2. \A x \in Seekers, b \in Bases : [x EXCEPT !.base = b] \in Seekers
  BY DEF Seekers
<1>3. \A x \in Seekers, f \in C!List \cup {Nothing} : [x EXCEPT !.seen = f] \in Seekers /\ [x EXCEPT !.got = f] \in Seekers
  BY DEF Seekers
<1>4. \A x \in Seekers, v \in {"stat", "stat2", "compare", "load", "store"} : [x EXCEPT !.pc = v] \in Seekers
  BY DEF Seekers
<1>5. \A c \in Used, b \in Bases : [C!Idle EXCEPT !.pc = "stat", !.name = c, !.base = b] \in Seekers
  BY <1>1, <1>2, <1>4, RestTypes
<1>. QED
  BY <1>3, <1>4, <1>5
LEMMA EntryTypes ==
    /\ \A e \in Entries, v \in BOOLEAN : [e EXCEPT !.stale = v] \in Entries
    /\ \A x, g \in C!List : [mtime |-> x.at, domains |-> g, stale |-> FALSE] \in Entries
BY CategoryFacts DEF Entries
LEMMA WorkTypes ==
    /\ \A x \in Works, v \in {"remove", "swap", "index", "write"} : [x EXCEPT !.pc = v] \in Works
    /\ \A x \in Works, o \in {"download", "delete", "update"} : [x EXCEPT !.op = o] \in Works
    /\ \A x \in Works, b \in Bases : [x EXCEPT !.base = b] \in Works
    /\ \A x \in Works, t \in SUBSET Categories :
          [x EXCEPT !.todo = t] \in Works /\ [x EXCEPT !.done = t] \in Works /\ [x EXCEPT !.doc = t] \in Works
    /\ \A x \in Works, f \in C!List : [x EXCEPT !.staged = f] \in Works
BY DEF Works

LEMMA CategoryTypeNext == ASSUME CategoryTypes, CategoriesAsk, C!Next PROVE CategoryTypes'
<1>. USE DEF CategoryTypes, C!storeVars
<1>. USE CategoryFacts
<1>1. ASSUME NEW r \in Readers, C!Reads(r) PROVE CategoryTypes'
  <2>0. C!On(r) \in C!List \cup {Nothing} \/ reader[r].pc = "idle"
    BY DEF C!On, CategoriesAsk
  <2>1. ASSUME NEW c \in Used, C!Lookup(r, c) PROVE CategoryTypes'
    <3>1. reader' \in [Readers -> Seekers]
      BY <2>1, SeekerTypes DEF C!Lookup
    <3>. QED
      BY <2>1, <3>1 DEF C!Lookup
  <2>2. CASE C!StatGz(r) \/ C!StatPlain(r)
    <3>1. PICK x \in Seekers : reader' = [reader EXCEPT ![r] = x]
      BY <2>2, <2>0, SeekerTypes DEF C!StatGz, C!StatPlain
    <3>2. reader' \in [Readers -> Seekers]
      BY <3>1
    <3>. QED
      BY <2>2, <3>2 DEF C!StatGz, C!StatPlain
  <2>3. CASE C!Compare(r)
    <3>1. PICK x \in Seekers : reader' = [reader EXCEPT ![r] = x]
      BY <2>3, SeekerTypes, RestTypes DEF C!Compare
    <3>2. reader' \in [Readers -> Seekers]
      BY <3>1
    <3>3. cache' \in [Used -> Entries \cup {Nothing}]
      <4>1. reader[r].name \in Used
        BY <2>3 DEF C!Compare, CategoriesAsk
      <4>. QED
        <5>1. CASE C!SameTime(r)
          <6>1. cache' = [cache EXCEPT ![reader[r].name] = [cache[reader[r].name] EXCEPT !.stale = FALSE]]
            BY <2>3, <5>1 DEF C!Compare
          <6>2. cache[reader[r].name] \in Entries
            BY <4>1, <5>1 DEF C!SameTime
          <6>. QED
            BY <4>1, <6>1, <6>2, EntryTypes
        <5>2. CASE ~C!SameTime(r)
          BY <2>3, <5>2 DEF C!Compare
        <5>. QED
          BY <5>1, <5>2
    <3>. QED
      BY <2>3, <3>2, <3>3 DEF C!Compare
  <2>4. CASE C!Load(r)
    <3>1. PICK g \in C!List \cup {Nothing} : reader' = [reader EXCEPT ![r] = [reader[r] EXCEPT !.pc = "store", !.got = g]]
      BY <2>4, <2>0 DEF C!Load
    <3>2. reader' \in [Readers -> Seekers]
      BY <3>1, SeekerTypes
    <3>. QED
      BY <2>4, <3>2 DEF C!Load
  <2>5. CASE C!Store(r)
    <3>1. reader[r].seen \in C!List /\ reader[r].got \in C!List
      BY <2>5 DEF C!Store, CategoriesAsk
    <3>2. cache' \in [Used -> Entries \cup {Nothing}]
      BY <2>5, <3>1, EntryTypes DEF C!Store, C!Entry
    <3>3. reader' \in [Readers -> Seekers]
      BY <2>5, RestTypes DEF C!Store
    <3>. QED
      BY <2>5, <3>2, <3>3 DEF C!Store
  <2>. QED
    BY <1>1, <2>1, <2>2, <2>3, <2>4, <2>5 DEF C!Reads
<1>2. ASSUME NEW c \in Used, C!Expire(c) PROVE CategoryTypes'
  <2>1. cache' \in [Used -> Entries \cup {Nothing}]
    BY <1>2, EntryTypes DEF C!Expire
  <2>. QED
    BY <1>2, <2>1 DEF C!Expire
<1>3. ASSUME NEW u \in C!Updaters, NEW c \in Categories, C!Download(u, c) PROVE CategoryTypes'
  <2>1. serial' \in 1..MaxWrites + 1 /\ C!Gz(serial') \in C!List
    BY <1>3, StagedTypes DEF C!Download
  <2>2. up' \in [C!Updaters -> Works]
    BY <1>3, <2>1, WorkTypes, RestTypes DEF C!Download
  <2>. QED
    BY <1>3, <2>1, <2>2 DEF C!Download
<1>4. ASSUME NEW keep \in C!Archives, C!Update(keep) PROVE CategoryTypes'
  <2>1. serial' \in 1..MaxWrites + 1 /\ C!Plain(serial') \in C!List
    BY <1>4, StagedTypes DEF C!Update
  <2>2. up' \in [C!Updaters -> Works]
    BY <1>4, <2>1, WorkTypes, RestTypes DEF C!Update, C!Archives
  <2>. QED
    BY <1>4, <2>1, <2>2 DEF C!Update
<1>5. ASSUME NEW u \in C!Updaters, NEW c \in Categories, C!RemoveOld(u, c) PROVE CategoryTypes'
  <2>1. file' \in [Bases -> [Categories -> C!List \cup {Nothing}]]
    BY <1>5 DEF C!RemoveOld
  <2>2. up[u].done \cup {c} \in SUBSET Categories
    BY DEF Works
  <2>3. up' = [up EXCEPT ![u] = [up[u] EXCEPT !.pc = "swap", !.done = up[u].done \cup {c}]]
    BY <1>5 DEF C!RemoveOld
  <2>4. up' \in [C!Updaters -> Works]
    BY <2>2, <2>3, WorkTypes
  <2>. QED
    BY <1>5, <2>1, <2>4 DEF C!RemoveOld
<1>6. ASSUME NEW u \in C!Updaters, NEW c \in Categories, C!SwapIn(u, c) PROVE CategoryTypes'
  <2>1. file' \in [Bases -> [Categories -> C!List \cup {Nothing}]]
    BY <1>6 DEF C!SwapIn, CategoriesAsk, Replaces
  <2>2. up[u].todo \ {c} \in SUBSET Categories
    BY DEF Works
  <2>3. PICK v \in {"remove", "index"} :
           up' = [up EXCEPT ![u] = [up[u] EXCEPT !.todo = up[u].todo \ {c}, !.pc = v]]
    BY <1>6 DEF C!SwapIn
  <2>4. up' \in [C!Updaters -> Works]
    BY <2>2, <2>3, WorkTypes
  <2>. QED
    BY <1>6, <2>1, <2>4 DEF C!SwapIn
<1>7. ASSUME NEW u \in C!Updaters, C!GivesUp(u) PROVE CategoryTypes'
  <2>1. up' \in [C!Updaters -> Works]
    BY <1>7, RestTypes DEF C!GivesUp
  <2>. QED
    BY <1>7, <2>1 DEF C!GivesUp
<1>8. ASSUME NEW u \in C!Updaters, NEW c \in Categories, C!Delete(u, c) PROVE CategoryTypes'
  <2>1. file' \in [Bases -> [Categories -> C!List \cup {Nothing}]]
    BY <1>8 DEF C!Delete
  <2>2. up' \in [C!Updaters -> Works]
    BY <1>8, WorkTypes, RestTypes DEF C!Delete
  <2>. QED
    BY <1>8, <2>1, <2>2 DEF C!Delete
<1>9. ASSUME NEW u \in C!Updaters, C!ReadIndex(u) PROVE CategoryTypes'
  <2>1. up' \in [C!Updaters -> Works]
    BY <1>9, WorkTypes DEF C!ReadIndex, CategoriesAsk
  <2>2. lock' \in Threads \cup {Nothing}
    BY <1>9 DEF C!ReadIndex, C!Updaters
  <2>. QED
    BY <1>9, <2>1, <2>2 DEF C!ReadIndex
<1>10. ASSUME NEW u \in C!Updaters, C!WriteIndex(u) PROVE CategoryTypes'
  <2>1. up' \in [C!Updaters -> Works]
    BY <1>10, RestTypes DEF C!WriteIndex
  <2>2. up[u].doc \subseteq Categories /\ up[u].done \subseteq Categories
    BY DEF Works
  <2>3. listed' \in [Bases -> SUBSET Categories]
    BY <1>10, <2>2 DEF C!WriteIndex
  <2>. QED
    BY <1>10, <2>1, <2>3 DEF C!WriteIndex
<1>11. CASE C!ReplaceIndex
  <2>1. up' \in [C!Updaters -> Works]
    BY <1>11, RestTypes DEF C!ReplaceIndex
  <2>2. up[Tarball].done \subseteq Categories
    BY DEF Works
  <2>3. listed' \in [Bases -> SUBSET Categories]
    BY <1>11, <2>2 DEF C!ReplaceIndex
  <2>. QED
    BY <1>11, <2>1, <2>3 DEF C!ReplaceIndex
<1>12. CASE C!Configure
  BY <1>12 DEF C!Configure
<1>. QED
  BY <1>1, <1>2, <1>3, <1>4, <1>5, <1>6, <1>7, <1>8, <1>9, <1>10, <1>11, <1>12 DEF C!Next, C!Writes

(* A step is one of at most one writer w.  It may begin to replace with a  *)
(* list later than all others; a file it changes goes, or is the list it   *)
(* has staged and will not put there again.                                *)
WorkStep(w) ==
    /\ \A u \in C!Updaters : u # w => up'[u] = up[u]
    /\ \/ up'[w].pc \notin {"remove", "swap"}
       \/ /\ Replaces(w) /\ up'[w].staged = up[w].staged /\ up'[w].todo \subseteq up[w].todo
       \/ /\ ~Replaces(w) /\ serial' = serial + 1 /\ up'[w].staged \in C!List /\ up'[w].staged.at = serial'
          /\ UNCHANGED file
    /\ serial' \in {serial, serial + 1}
    /\ \A b \in Bases, c \in Categories :
          \/ file'[b][c] = file[b][c]
          \/ file'[b][c] = Nothing
          \/ /\ Replaces(w) /\ c \in up[w].todo /\ b = up[w].base /\ file'[b][c] = up[w].staged
             /\ c \notin up'[w].todo

LEMMA WorkSteps == ASSUME CategoryTypes, CategoriesAsk, C!Next PROVE \E w \in C!Updaters : WorkStep(w)
<1>. USE DEF CategoryTypes, C!storeVars
<1>. USE CategoryFacts
<1>1. ASSUME UNCHANGED <<file, serial, up>> PROVE WorkStep(Tarball)
  BY <1>1 DEF WorkStep, Replaces
<1>2. (\E r \in Readers : C!Reads(r)) \/ (\E c \in Used : C!Expire(c)) \/ C!Configure
         => UNCHANGED <<file, serial, up>>
  BY DEF C!Reads, C!Lookup, C!StatGz, C!StatPlain, C!Compare, C!Load, C!Store, C!Expire, C!Configure
<1>3. ASSUME NEW u \in C!Updaters, NEW c \in Categories, C!Download(u, c) PROVE WorkStep(u)
  <2>1. serial' \in 1..MaxWrites + 1 /\ C!Gz(serial').at = serial' /\ C!Gz(serial') \in C!List
    BY <1>3, StagedTypes DEF C!Download
  <2>2. up'[u].staged = C!Gz(serial')
    BY <1>3, RestTypes DEF C!Download, C!NoWork
  <2>. QED
    BY <1>3, <2>1, <2>2 DEF C!Download, WorkStep, Replaces
<1>4. ASSUME NEW keep \in C!Archives, C!Update(keep) PROVE WorkStep(Tarball)
  <2>1. serial' \in 1..MaxWrites + 1 /\ C!Plain(serial').at = serial' /\ C!Plain(serial') \in C!List
    BY <1>4, StagedTypes DEF C!Update
  <2>2. up'[Tarball].staged = C!Plain(serial')
    BY <1>4, RestTypes DEF C!Update, C!NoWork
  <2>. QED
    BY <1>4, <2>1, <2>2 DEF C!Update, WorkStep, Replaces
<1>5. ASSUME NEW u \in C!Updaters, NEW c \in Categories, C!RemoveOld(u, c) PROVE WorkStep(u)
  <2>1. up'[u].staged = up[u].staged /\ up'[u].todo = up[u].todo
    BY <1>5 DEF C!RemoveOld, Works
  <2>. QED
    BY <1>5, <2>1 DEF C!RemoveOld, WorkStep, Replaces
<1>6. ASSUME NEW u \in C!Updaters, NEW c \in Categories, C!SwapIn(u, c) PROVE WorkStep(u)
  <2>1. up'[u].staged = up[u].staged /\ up'[u].todo = up[u].todo \ {c}
    BY <1>6 DEF C!SwapIn, Works
  <2>2. \A b \in Bases, d \in Categories :
           file'[b][d] = IF b = up[u].base /\ d = c THEN up[u].staged ELSE file[b][d]
    BY <1>6 DEF C!SwapIn
  <2>. QED
    BY <1>6, <2>1, <2>2 DEF C!SwapIn, WorkStep, Replaces
<1>7. ASSUME NEW u \in C!Updaters, C!GivesUp(u) PROVE WorkStep(u)
  BY <1>7 DEF C!GivesUp, WorkStep, C!NoWork
<1>8. ASSUME NEW u \in C!Updaters, NEW c \in Categories, C!Delete(u, c) PROVE WorkStep(u)
  <2>1. up'[u].pc = "index"
    BY <1>8 DEF C!Delete, C!NoWork
  <2>2. \A b \in Bases, d \in Categories : file'[b][d] \in {file[b][d], Nothing}
    BY <1>8 DEF C!Delete
  <2>. QED
    BY <1>8, <2>1, <2>2 DEF C!Delete, WorkStep
<1>9. ASSUME NEW u \in C!Updaters, C!ReadIndex(u) \/ C!WriteIndex(u) PROVE WorkStep(u)
  <2>1. up'[u].pc \in {"write", "idle"}
    BY <1>9 DEF C!ReadIndex, C!WriteIndex, Works, C!NoWork
  <2>. QED
    BY <1>9, <2>1 DEF C!ReadIndex, C!WriteIndex, WorkStep
<1>10. CASE C!ReplaceIndex
  BY <1>10 DEF C!ReplaceIndex, WorkStep, C!NoWork
<1>. QED
  BY <1>1, <1>2, <1>3, <1>4, <1>5, <1>6, <1>7, <1>8, <1>9, <1>10 DEF C!Next, C!Writes

LEMMA TimeTypes ==
    ASSUME CategoryTypes, CategoriesAsk
    PROVE  /\ serial \in Nat
           /\ \A b \in Bases, c \in Categories : file[b][c] # Nothing => file[b][c].at \in Nat
           /\ \A u \in C!Updaters : Replaces(u) => up[u].staged \in C!List /\ up[u].staged.at \in Nat
<1>1. \A x \in C!List : x.at \in Nat
  BY CategoryFacts
<1>2. serial \in Nat
  BY CategoryFacts DEF CategoryTypes
<1>3. \A b \in Bases, c \in Categories : file[b][c] # Nothing => file[b][c] \in C!List
  BY DEF CategoryTypes
<1>. QED
  BY <1>1, <1>2, <1>3 DEF CategoriesAsk

(* A time that was staged before a step, or comes from it.                 *)
LEMMA StagedStep ==
    ASSUME CategoryTypes, CategoriesAsk, NEW w \in C!Updaters, WorkStep(w),
           NEW c \in Categories, NEW t \in Nat, t <= serial, Staged(c, t)'
    PROVE  Staged(c, t)
<1>1. PICK u \in C!Updaters : Replaces(u)' /\ c \in up'[u].todo /\ up'[u].staged.at = t
  BY DEF Staged
<1>2. CASE u # w
  BY <1>1, <1>2 DEF WorkStep, Staged, Replaces
<1>3. CASE u = w
  BY <1>1, <1>3, TimeTypes DEF WorkStep, Staged, Replaces
<1>. QED
  BY <1>2, <1>3

LEMMA PastStays ==
    ASSUME CategoryTypes, CategoriesAsk, NEW w \in C!Updaters, WorkStep(w),
           NEW c \in Categories, NEW t \in Nat, Past(c, t)
    PROVE  Past(c, t)'
BY StagedStep, TimeTypes DEF Past, WorkStep

LEMMA SameStays ==
    ASSUME CategoryTypes, CategoriesAsk, NEW w \in C!Updaters, WorkStep(w),
           NEW c \in Categories, NEW t \in Nat, Past(c, t), NEW b \in Bases, InForce(b, c, t)'
    PROVE  InForce(b, c, t) /\ file'[b][c] = file[b][c]
BY DEF Past, Staged, InForce, WorkStep

LEMMA TimesUniqueNext ==
    ASSUME CategoryTypes, CategoriesAsk, TimesUnique, NEW w \in C!Updaters, WorkStep(w)
    PROVE  TimesUnique'
<1>. USE TimeTypes
<1>0. \A n \in 1..serial : n \in 1..serial' /\ n <= serial /\ n \in Nat
  BY DEF WorkStep
<1>1. ASSUME NEW b \in Bases, NEW c \in Categories, file'[b][c] # Nothing
      PROVE  file'[b][c].at \in 1..serial' /\ ~Staged(c, file[b][c].at)'
  <2>1. CASE file'[b][c] = file[b][c]
    <3>1. file[b][c].at \in 1..serial /\ ~Staged(c, file[b][c].at)
      BY <1>1, <2>1 DEF TimesUnique
    <3>2. ~Staged(c, file'[b][c].at)
      BY <2>1, <3>1
    <3>3. ~Staged(c, file[b][c].at)'
      BY <1>0, <2>1, <3>1, <3>2, StagedStep DEF Staged
    <3>. QED
      BY <1>0, <2>1, <3>1, <3>3
  <2>2. CASE /\ Replaces(w) /\ c \in up[w].todo /\ b = up[w].base /\ file'[b][c] = up[w].staged
             /\ c \notin up'[w].todo
    <3>1. up[w].staged.at \in 1..serial
      BY <2>2 DEF TimesUnique
    <3>2. \A u \in C!Updaters : u # w /\ Replaces(u)' => up'[u].staged.at # up[w].staged.at
      BY <2>2 DEF TimesUnique, WorkStep, Replaces
    <3>. QED
      BY <1>0, <2>2, <3>1, <3>2 DEF Staged
  <2>. QED
    BY <1>1, <2>1, <2>2 DEF WorkStep
<1>2. ASSUME NEW a \in Bases, NEW b \in Bases, NEW c \in Categories, a # b, file'[a][c] # Nothing,
             file'[b][c] # Nothing, file'[b][c].at = file'[a][c].at
      PROVE  FALSE
  <2>1. CASE file'[a][c] = file[a][c] /\ file'[b][c] = file[b][c]
    BY <1>2, <2>1 DEF TimesUnique, InForce
  <2>2. CASE file'[a][c] = file[a][c] /\ file'[b][c] # file[b][c]
    <3>1. Replaces(w) /\ c \in up[w].todo /\ up[w].staged.at = file[a][c].at
      BY <1>2, <2>2 DEF WorkStep
    <3>. QED
      BY <1>2, <2>2, <3>1 DEF TimesUnique, Staged
  <2>3. CASE file'[a][c] # file[a][c] /\ file'[b][c] = file[b][c]
    <3>1. Replaces(w) /\ c \in up[w].todo /\ up[w].staged.at = file[b][c].at
      BY <1>2, <2>3 DEF WorkStep
    <3>. QED
      BY <1>2, <2>3, <3>1 DEF TimesUnique, Staged
  <2>4. CASE file'[a][c] # file[a][c] /\ file'[b][c] # file[b][c]
    BY <1>2, <2>4 DEF WorkStep
  <2>. QED
    BY <2>1, <2>2, <2>3, <2>4
<1>3. ASSUME NEW u \in C!Updaters, Replaces(u)' PROVE up'[u].staged.at \in 1..serial'
  <2>1. CASE u # w
    BY <1>0, <1>3, <2>1 DEF TimesUnique, WorkStep, Replaces
  <2>2. CASE u = w
    BY <1>0, <1>3, <2>2 DEF TimesUnique, WorkStep, Replaces
  <2>. QED
    BY <2>1, <2>2
<1>4. ASSUME NEW u \in C!Updaters, NEW v \in C!Updaters, u # v, Replaces(u)', Replaces(v)'
      PROVE  up'[u].staged.at # up'[v].staged.at
  <2>1. ASSUME NEW x \in C!Updaters, x # w, Replaces(x)', Replaces(w)' PROVE up'[x].staged.at # up'[w].staged.at
    <3>1. up'[x] = up[x] /\ Replaces(x) /\ up[x].staged.at \in 1..serial
      BY <2>1 DEF WorkStep, Replaces, TimesUnique
    <3>. QED
      BY <1>0, <2>1, <3>1 DEF WorkStep, Replaces, TimesUnique
  <2>2. CASE u # w /\ v # w
    BY <1>4, <2>2 DEF WorkStep, Replaces, TimesUnique
  <2>. QED
    BY <1>4, <2>1, <2>2
<1>. QED
  BY <1>1, <1>2, <1>3, <1>4 DEF TimesUnique, InForce

LEMMA CategoriesAskNext == ASSUME CategoryTypes, CategoriesAsk, C!Next PROVE CategoriesAsk'
<1>. USE DEF CategoryTypes, C!storeVars
<1>. USE CategoryFacts
<1>1. ASSUME NEW r \in Readers
      PROVE  /\ reader'[r].pc # "idle" => reader'[r].name \in Used /\ reader'[r].base \in Bases
             /\ reader'[r].pc \in {"compare", "load", "store"} => reader'[r].seen \in C!List
             /\ reader'[r].pc = "store" => reader'[r].got \in C!List
  <2>. DEFINE Ok == /\ reader'[r].pc # "idle" => reader'[r].name \in Used /\ reader'[r].base \in Bases
                    /\ reader'[r].pc \in {"compare", "load", "store"} => reader'[r].seen \in C!List
                    /\ reader'[r].pc = "store" => reader'[r].got \in C!List
  <2>0. reader'[r] = reader[r] => Ok
    BY DEF CategoriesAsk
  <2>1. ASSUME NEW c \in Used, C!Lookup(r, c) PROVE Ok
    BY <2>1 DEF C!Lookup, C!Idle
  <2>2. C!On(r) \in C!List \cup {Nothing} \/ reader[r].pc = "idle"
    BY DEF C!On, CategoriesAsk
  <2>3. CASE C!StatGz(r)
    BY <2>2, <2>3 DEF C!StatGz, CategoriesAsk, Seekers
  <2>4. CASE C!StatPlain(r)
    BY <2>2, <2>4 DEF C!StatPlain, CategoriesAsk, Seekers
  <2>5. CASE C!Compare(r)
    <3>1. CASE C!SameTime(r)
      BY <2>5, <3>1 DEF C!Compare, C!Idle
    <3>2. CASE ~C!SameTime(r)
      <4>1. /\ reader'[r].pc = "load" /\ reader'[r].name = reader[r].name
            /\ reader'[r].base = reader[r].base /\ reader'[r].seen = reader[r].seen
        BY <2>5, <3>2 DEF C!Compare, Seekers
      <4>2. reader[r].pc = "compare"
        BY <2>5 DEF C!Compare
      <4>. QED
        BY <4>1, <4>2 DEF CategoriesAsk
    <3>. QED
      BY <3>1, <3>2
  <2>6. CASE C!Load(r)
    BY <2>2, <2>6 DEF C!Load, CategoriesAsk, Seekers
  <2>7. CASE C!Store(r)
    BY <2>7 DEF C!Store, C!Idle
  <2>8. ASSUME NEW q \in Readers, q # r, C!Reads(q) PROVE reader'[r] = reader[r]
    BY <2>8 DEF C!Reads, C!Lookup, C!StatGz, C!StatPlain, C!Compare, C!Load, C!Store
  <2>9. (\E c \in Used : C!Expire(c)) \/ C!Configure \/ C!ReplaceIndex \/ (\E keep \in C!Archives : C!Update(keep))
        \/ (\E u \in C!Updaters : C!Writes(u) \/ C!GivesUp(u) \/ \E c \in Categories : C!Download(u, c) \/ C!Delete(u, c))
           => reader' = reader
    BY DEF C!Expire, C!Configure, C!ReplaceIndex, C!Update, C!Writes, C!RemoveOld, C!SwapIn, C!ReadIndex, C!WriteIndex,
           C!GivesUp, C!Download, C!Delete
  <2>. QED
    BY <2>0, <2>1, <2>3, <2>4, <2>5, <2>6, <2>7, <2>8, <2>9 DEF C!Next, C!Reads
<1>2. ASSUME NEW u \in C!Updaters
      PROVE  /\ up'[u].pc # "idle" => up'[u].base \in Bases
             /\ Replaces(u)' => up'[u].staged \in C!List
             /\ (u = Tarball /\ up'[u].pc # "idle") => up'[u].op = "update"
  <2>. DEFINE Ok == /\ up'[u].pc # "idle" => up'[u].base \in Bases
                    /\ Replaces(u)' => up'[u].staged \in C!List
                    /\ (u = Tarball /\ up'[u].pc # "idle") => up'[u].op = "update"
  <2>0. up'[u] = up[u] => Ok
    BY DEF CategoriesAsk, Replaces
  <2>1. ASSUME NEW c \in Categories, C!Download(u, c) PROVE Ok
    <3>1. C!Gz(serial') \in C!List
      BY <2>1, StagedTypes DEF C!Download
    <3>. QED
      BY <2>1, <3>1 DEF C!Download, C!NoWork
  <2>2. ASSUME NEW keep \in C!Archives, C!Update(keep), u = Tarball PROVE Ok
    <3>1. C!Plain(serial') \in C!List
      BY <2>2, StagedTypes DEF C!Update
    <3>. QED
      BY <2>2, <3>1 DEF C!Update, C!NoWork
  <2>3. ASSUME NEW c \in Categories, C!RemoveOld(u, c) PROVE Ok
    BY <2>3 DEF C!RemoveOld, CategoriesAsk, Replaces, Works
  <2>4. ASSUME NEW c \in Categories, C!SwapIn(u, c) PROVE Ok
    BY <2>4 DEF C!SwapIn, CategoriesAsk, Replaces, Works
  <2>5. CASE C!GivesUp(u) \/ C!WriteIndex(u)
    BY <2>5 DEF C!GivesUp, C!WriteIndex, C!NoWork, Replaces
  <2>6. ASSUME NEW c \in Categories, C!Delete(u, c) PROVE Ok
    BY <2>6 DEF C!Delete, C!NoWork, Replaces
  <2>7. CASE C!ReadIndex(u)
    BY <2>7 DEF C!ReadIndex, CategoriesAsk, Replaces, Works
  <2>8. CASE C!ReplaceIndex
    <3>1. u = Tarball => up'[u].pc = "idle"
      BY <2>8 DEF C!ReplaceIndex, C!NoWork
    <3>2. u # Tarball => up'[u] = up[u]
      BY <2>8 DEF C!ReplaceIndex
    <3>. QED
      BY <2>0, <3>1, <3>2 DEF Replaces
  <2>9. ASSUME NEW v \in C!Updaters, v # u,
               C!Writes(v) \/ C!GivesUp(v) \/ \E c \in Categories : C!Download(v, c) \/ C!Delete(v, c)
        PROVE up'[u] = up[u]
    BY <2>9 DEF C!Writes, C!RemoveOld, C!SwapIn, C!ReadIndex, C!WriteIndex, C!GivesUp, C!Download, C!Delete
  <2>10. \A keep \in C!Archives : C!Update(keep) /\ u # Tarball => up'[u] = up[u]
    BY DEF C!Update
  <2>11. (\E r \in Readers : C!Reads(r)) \/ (\E c \in Used : C!Expire(c)) \/ C!Configure => up' = up
    BY DEF C!Reads, C!Lookup, C!StatGz, C!StatPlain, C!Compare, C!Load, C!Store, C!Expire, C!Configure
  <2>. QED
    BY <2>0, <2>1, <2>2, <2>3, <2>4, <2>5, <2>6, <2>7, <2>8, <2>9, <2>10, <2>11 DEF C!Next, C!Writes
<1>. QED
  BY <1>1, <1>2 DEF CategoriesAsk

(* What a lookup finds, and what it knows when it finds nothing.           *)
LEMMA FoundBelongs ==
    ASSUME CategoryTypes, CategoriesAsk, TimesUnique, NEW b \in Bases, NEW c \in Categories
    PROVE  /\ Past(c, 0) /\ \A x : Same(c, 0, x)
           /\ file[b][c] # Nothing => /\ Past(c, file[b][c].at) /\ Same(c, file[b][c].at, file[b][c])
                                      /\ \A a \in Bases : InForce(a, c, file[b][c].at) => a = b
BY TimeTypes DEF TimesUnique, Past, Same, Staged, InForce

LEMMA LookupsBelongNext ==
    ASSUME CategoryTypes, CategoriesAsk, TimesUnique, LookupsBelong, C!Next,
           NEW w \in C!Updaters, WorkStep(w)
    PROVE  LookupsBelong'
<1>. USE DEF CategoryTypes, C!storeVars
<1>. DEFINE Belongs(x) ==
       /\ x.pc \in {"compare", "load", "store"} => Past(x.name, x.seen.at)
       /\ x.pc \in {"compare", "load"} =>
             /\ Same(x.name, x.seen.at, x.seen)
             /\ \A b \in Bases : InForce(b, x.name, x.seen.at) => b = x.base
       /\ x.pc = "store" => Same(x.name, x.seen.at, x.got)
<1>. SUFFICES ASSUME NEW r \in Readers PROVE Belongs(reader[r])'
  BY DEF LookupsBelong
<1>0. Belongs(reader[r])
  BY DEF LookupsBelong
<1>. HIDE DEF Belongs
<1>1. CASE reader'[r] = reader[r]
  <2>. DEFINE c == reader[r].name
              t == reader[r].seen.at
  <2>1. CASE reader[r].pc \in {"compare", "load", "store"}
    <3>1. c \in Categories /\ t \in Nat
      BY <2>1, CategoryFacts DEF CategoriesAsk
    <3>2. Past(c, t)'
      BY <1>0, <1>1, <2>1, <3>1, PastStays DEF Belongs
    <3>3. \A b \in Bases : InForce(b, c, t)' => InForce(b, c, t) /\ file'[b][c] = file[b][c]
      BY <1>0, <1>1, <2>1, <3>1, SameStays DEF Belongs
    <3>4. reader[r].pc \in {"compare", "load"} =>
            /\ Same(c, t, reader[r].seen)' /\ \A b \in Bases : InForce(b, c, t)' => b = reader[r].base
      BY <1>0, <1>1, <3>3 DEF Belongs, Same
    <3>5. reader[r].pc = "store" => Same(c, t, reader[r].got)'
      BY <1>0, <1>1, <3>3 DEF Belongs, Same
    <3>. QED
      BY <1>1, <3>2, <3>4, <3>5 DEF Belongs
  <2>2. CASE reader[r].pc \notin {"compare", "load", "store"}
    BY <1>1, <2>2 DEF Belongs
  <2>. QED
    BY <2>1, <2>2
<1>2. ASSUME C!Reads(r) PROVE Belongs(reader[r])'
  <2>0. UNCHANGED <<file, serial, up>>
    BY <1>2 DEF C!Reads, C!Lookup, C!StatGz, C!StatPlain, C!Compare, C!Load, C!Store
  <2>. SUFFICES Belongs(reader'[r])
    BY <2>0 DEF Belongs, Past, Same, Staged, InForce, Replaces
  <2>a. reader[r].pc # "idle" => reader[r].name \in Categories /\ reader[r].base \in Bases
    BY CategoryFacts DEF CategoriesAsk
  <2>1. (\E c \in Used : C!Lookup(r, c)) \/ C!Store(r) => reader'[r].pc \in {"stat", "idle"}
    <3>1. \A c \in Used : C!Lookup(r, c) => reader'[r].pc = "stat"
      BY DEF C!Lookup, C!Idle
    <3>2. C!Store(r) => reader'[r].pc = "idle"
      BY DEF C!Store, C!Idle
    <3>. QED
      BY <3>1, <3>2
  <2>2. CASE C!StatGz(r)
    BY <2>2, <2>a, FoundBelongs DEF C!StatGz, C!On, Belongs, Seekers
  <2>3. CASE C!StatPlain(r)
    <3>1. CASE C!On(r) # Nothing /\ C!On(r).form = "plain"
      BY <2>3, <2>a, <3>1, FoundBelongs DEF C!StatPlain, C!On, Belongs, Seekers
    <3>2. CASE ~(C!On(r) # Nothing /\ C!On(r).form = "plain")
      <4>1. reader'[r].pc = "store" /\ reader'[r].name = reader[r].name /\ reader'[r].seen = C!EmptySet
        BY <2>3, <3>2 DEF C!StatPlain, Seekers
      <4>. QED
        BY <2>3, <2>a, <4>1, FoundBelongs, CategoryFacts DEF C!StatPlain, Belongs
    <3>. QED
      BY <3>1, <3>2
  <2>4. CASE C!Compare(r)
    <3>1. CASE C!SameTime(r)
      BY <2>4, <3>1 DEF C!Compare, C!Idle, Belongs
    <3>2. CASE ~C!SameTime(r)
      BY <1>0, <2>4, <3>2 DEF C!Compare, Belongs, Seekers
    <3>. QED
      BY <3>1, <3>2
  <2>5. CASE C!Load(r)
    <3>1. /\ reader'[r].pc = "store" /\ reader'[r].name = reader[r].name /\ reader'[r].seen = reader[r].seen
          /\ reader'[r].got = IF C!On(r) # Nothing /\ C!On(r).form = reader[r].seen.form THEN C!On(r) ELSE C!EmptySet
      BY <2>5 DEF C!Load, Seekers
    <3>2. Past(reader[r].name, reader[r].seen.at)
      BY <1>0, <2>5 DEF C!Load, Belongs
    <3>3. ASSUME NEW b \in Bases, InForce(b, reader[r].name, reader[r].seen.at)
          PROVE  reader'[r].got = file[b][reader[r].name]
      <4>1. b = reader[r].base /\ file[b][reader[r].name] = reader[r].seen
        BY <1>0, <2>5, <3>3 DEF C!Load, Belongs, Same
      <4>2. C!On(r) = reader[r].seen /\ C!On(r) # Nothing
        BY <3>3, <4>1 DEF C!On, InForce
      <4>. QED
        BY <3>1, <4>1, <4>2
    <3>. QED
      BY <3>1, <3>2, <3>3 DEF Belongs, Same
  <2>. QED
    BY <1>2, <2>1, <2>2, <2>3, <2>4, <2>5 DEF C!Reads, Belongs
<1>3. ASSUME NEW q \in Readers, q # r, C!Reads(q) PROVE reader'[r] = reader[r]
  BY <1>3 DEF C!Reads, C!Lookup, C!StatGz, C!StatPlain, C!Compare, C!Load, C!Store
<1>4. (\E c \in Used : C!Expire(c)) \/ C!Configure \/ C!ReplaceIndex \/ (\E keep \in C!Archives : C!Update(keep))
        \/ (\E u \in C!Updaters : C!Writes(u) \/ C!GivesUp(u) \/ \E c \in Categories : C!Download(u, c) \/ C!Delete(u, c))
           => reader' = reader
  BY DEF C!Expire, C!Configure, C!ReplaceIndex, C!Update, C!Writes, C!RemoveOld, C!SwapIn, C!ReadIndex, C!WriteIndex,
         C!GivesUp, C!Download, C!Delete
<1>. QED
  BY <1>1, <1>2, <1>3, <1>4 DEF C!Next

LEMMA CacheBelongsNext ==
    ASSUME CategoryTypes, CategoriesAsk, CacheBelongs, LookupsBelong, C!Next, NEW w \in C!Updaters, WorkStep(w)
    PROVE  CacheBelongs'
<1>. USE DEF CategoryTypes, C!storeVars
<1>. SUFFICES ASSUME NEW c \in Used, cache'[c] # Nothing
              PROVE  Past(c, cache[c].mtime)' /\ Same(c, cache[c].mtime, cache[c].domains)'
  BY DEF CacheBelongs
<1>1. CASE /\ cache[c] # Nothing /\ cache'[c].mtime = cache[c].mtime /\ cache'[c].domains = cache[c].domains
  <2>1. c \in Categories /\ cache[c].mtime \in Nat
    BY <1>1, CategoryFacts DEF Entries
  <2>2. PICK t \in Nat : cache[c].mtime = t /\ cache'[c].mtime = t
    BY <1>1, <2>1
  <2>3. Past(c, t) /\ Same(c, t, cache[c].domains)
    BY <1>1, <2>2 DEF CacheBelongs
  <2>4. Past(c, t)'
    BY <2>1, <2>3, PastStays
  <2>5. \A b \in Bases : InForce(b, c, t)' => file'[b][c] = cache'[c].domains
    BY <1>1, <2>1, <2>3, SameStays DEF Same
  <2>. QED
    BY <2>2, <2>4, <2>5 DEF Past, Same, Staged, InForce, Replaces
<1>2. ASSUME NEW r \in Readers, C!Store(r), reader[r].name = c
      PROVE  Past(c, cache[c].mtime)' /\ Same(c, cache[c].mtime, cache[c].domains)'
  <2>1. cache'[c].mtime = reader[r].seen.at /\ cache'[c].domains = reader[r].got
    BY <1>2 DEF C!Store, C!Entry
  <2>2. Past(c, reader[r].seen.at) /\ Same(c, reader[r].seen.at, reader[r].got)
    BY <1>2 DEF C!Store, LookupsBelong
  <2>3. UNCHANGED <<file, serial, up>>
    BY <1>2 DEF C!Store
  <2>. QED
    BY <2>1, <2>2, <2>3 DEF Past, Same, Staged, InForce, Replaces
<1>3. ASSUME NEW r \in Readers, C!Store(r), reader[r].name # c PROVE cache'[c] = cache[c]
  BY <1>3 DEF C!Store
<1>4. ASSUME NEW r \in Readers, C!Compare(r)
      PROVE  cache[c] # Nothing /\ cache'[c].mtime = cache[c].mtime /\ cache'[c].domains = cache[c].domains
  <2>1. CASE C!SameTime(r) /\ reader[r].name = c
    <3>1. cache[c] \in Entries /\ cache'[c] = [cache[c] EXCEPT !.stale = FALSE]
      BY <1>4, <2>1 DEF C!Compare, C!SameTime
    <3>. QED
      BY <3>1, CategoryFacts DEF Entries
  <2>2. CASE ~(C!SameTime(r) /\ reader[r].name = c)
    BY <1>4, <2>2 DEF C!Compare
  <2>. QED
    BY <2>1, <2>2
<1>5. ASSUME NEW d \in Used, C!Expire(d)
      PROVE  cache[c] # Nothing /\ cache'[c].mtime = cache[c].mtime /\ cache'[c].domains = cache[c].domains
  <2>1. CASE d = c
    <3>1. cache[c] \in Entries /\ cache'[c] = [cache[c] EXCEPT !.stale = TRUE]
      BY <1>5, <2>1 DEF C!Expire
    <3>. QED
      BY <3>1, CategoryFacts DEF Entries
  <2>2. CASE d # c
    BY <1>5, <2>2 DEF C!Expire
  <2>. QED
    BY <2>1, <2>2
<1>6. C!Configure \/ C!ReplaceIndex \/ (\E keep \in C!Archives : C!Update(keep))
        \/ (\E u \in C!Updaters : C!Writes(u) \/ C!GivesUp(u) \/ \E d \in Categories : C!Download(u, d) \/ C!Delete(u, d))
        \/ (\E r \in Readers : (\E d \in Used : C!Lookup(r, d)) \/ C!StatGz(r) \/ C!StatPlain(r) \/ C!Load(r))
           => cache' = cache
  BY DEF C!Configure, C!ReplaceIndex, C!Update, C!Writes, C!RemoveOld, C!SwapIn, C!ReadIndex, C!WriteIndex,
         C!GivesUp, C!Download, C!Delete, C!Lookup, C!StatGz, C!StatPlain, C!Load
<1>. QED
  BY <1>1, <1>2, <1>3, <1>4, <1>5, <1>6 DEF C!Next, C!Reads

(* What a step does to the index, its lock and the writers that use it.    *)
IndexStep ==
    \/ /\ UNCHANGED <<listed, lock, overtaken>>
       /\ \A u \in C!Updaters : up'[u].pc = "write" => up'[u] = up[u]
    \/ \E u \in Threads : C!ReadIndex(u) \/ C!WriteIndex(u)
    \/ C!ReplaceIndex

LEMMA IndexSteps == ASSUME CategoryTypes, IndexHeld, C!Next PROVE IndexStep
<1>. USE DEF CategoryTypes, C!storeVars
<1>1. (\E r \in Readers : C!Reads(r)) \/ (\E c \in Used : C!Expire(c)) \/ C!Configure
         => UNCHANGED <<listed, lock, overtaken, up>>
  BY DEF C!Reads, C!Lookup, C!StatGz, C!StatPlain, C!Compare, C!Load, C!Store, C!Expire, C!Configure
<1>2. ASSUME NEW u \in C!Updaters, UNCHANGED <<listed, lock, overtaken>>,
             \A v \in C!Updaters : v # u => up'[v] = up[v], up'[u].pc # "write"
      PROVE  IndexStep
  BY <1>2 DEF IndexStep
<1>3. ASSUME NEW u \in C!Updaters, NEW c \in Categories, C!Download(u, c) \/ C!Delete(u, c) PROVE IndexStep
  <2>1. up'[u].pc \in {"remove", "index"}
    BY <1>3 DEF C!Download, C!Delete, C!NoWork
  <2>. QED
    BY <1>2, <1>3, <2>1 DEF C!Download, C!Delete
<1>4. ASSUME NEW keep \in C!Archives, C!Update(keep) PROVE IndexStep
  <2>1. up'[Tarball].pc = "remove"
    BY <1>4, CategoryFacts DEF C!Update, C!NoWork
  <2>. QED
    BY <1>2, <1>4, <2>1, CategoryFacts DEF C!Update
<1>5. ASSUME NEW u \in C!Updaters, NEW c \in Categories, C!RemoveOld(u, c) \/ C!SwapIn(u, c) PROVE IndexStep
  <2>1. up'[u].pc # "write"
    <3>1. CASE C!RemoveOld(u, c)
      BY <3>1 DEF C!RemoveOld, Works
    <3>2. CASE C!SwapIn(u, c)
      BY <3>2 DEF C!SwapIn, Works
    <3>. QED
      BY <1>5, <3>1, <3>2
  <2>. QED
    BY <1>2, <1>5, <2>1 DEF C!RemoveOld, C!SwapIn
<1>6. ASSUME NEW u \in C!Updaters, C!GivesUp(u) PROVE IndexStep
  <2>1. up'[u].pc = "idle"
    BY <1>6 DEF C!GivesUp, C!NoWork
  <2>. QED
    BY <1>2, <1>6, <2>1 DEF C!GivesUp
<1>7. ASSUME NEW u \in C!Updaters, C!ReadIndex(u) \/ C!WriteIndex(u) PROVE u \in Threads
  BY <1>7, CategoryFacts DEF C!ReadIndex, C!WriteIndex, C!Updaters, IndexHeld
<1>. QED
  BY <1>1, <1>3, <1>4, <1>5, <1>6, <1>7 DEF C!Next, C!Writes, IndexStep

LEMMA IndexHeldNext == ASSUME CategoryTypes, IndexHeld, IndexStep PROVE IndexHeld'
<1>. USE DEF CategoryTypes, C!storeVars
<1>. USE CategoryFacts
<1>1. CASE /\ UNCHANGED <<listed, lock, overtaken>>
           /\ \A u \in C!Updaters : up'[u].pc = "write" => up'[u] = up[u]
  BY <1>1 DEF IndexHeld
<1>2. ASSUME NEW u \in Threads, C!ReadIndex(u) PROVE IndexHeld'
  <2>1. lock = Nothing /\ u # Nothing
    BY <1>2 DEF C!ReadIndex, C!MayLock
  <2>2. \A v \in C!Updaters : up[v].pc # "write"
    BY <2>1 DEF IndexHeld
  <2>3. up'[u].doc = listed[up'[u].base]
    BY <1>2 DEF C!ReadIndex, Works
  <2>4. \A v \in C!Updaters : v # u => up'[v] = up[v]
    BY <1>2 DEF C!ReadIndex
  <2>. QED
    BY <1>2, <2>2, <2>3, <2>4 DEF C!ReadIndex, IndexHeld
<1>3. ASSUME NEW u \in Threads, C!WriteIndex(u) PROVE IndexHeld'
  <2>1. \A v \in C!Updaters : v # u => up'[v] = up[v] /\ up[v].pc # "write"
    BY <1>3 DEF C!WriteIndex, IndexHeld
  <2>2. up'[u].pc = "idle"
    BY <1>3 DEF C!WriteIndex, C!NoWork
  <2>. QED
    BY <2>1, <2>2 DEF IndexHeld
<1>4. CASE C!ReplaceIndex
  <2>1. \A v \in C!Updaters : up'[v].pc = "write" => up'[v] = up[v]
    BY <1>4 DEF C!ReplaceIndex, C!NoWork
  <2>2. \A v \in C!Updaters : up[v].pc = "write" => overtaken'
    BY <1>4 DEF C!ReplaceIndex, IndexHeld
  <2>. QED
    BY <1>4, <2>1, <2>2 DEF C!ReplaceIndex, IndexHeld
<1>. QED
  BY <1>1, <1>2, <1>3, <1>4 DEF IndexStep

LEMMA IndexKept == ASSUME CategoryTypes, CategoriesAsk, IndexHeld, IndexStep PROVE C!KeepsEntries
<1>. USE DEF CategoryTypes, C!storeVars
<1>. USE CategoryFacts
<1>1. CASE UNCHANGED listed
  BY <1>1 DEF C!KeepsEntries
<1>2. \A u \in Threads : C!ReadIndex(u) => UNCHANGED listed
  BY DEF C!ReadIndex
<1>3. ASSUME NEW u \in Threads, C!WriteIndex(u) PROVE C!KeepsEntries
  <2>1. overtaken \/ up[u].doc = listed[up[u].base]
    BY <1>3 DEF C!WriteIndex, IndexHeld
  <2>2. up'[u].pc = "idle"
    BY <1>3 DEF C!WriteIndex, C!NoWork
  <2>3. ASSUME ~overtaken, NEW b \in Bases, NEW c \in listed[b] \ listed'[b]
        PROVE  up[u].op = "delete" /\ c \in up[u].done
    <3>1. b = up[u].base
      BY <1>3, <2>3 DEF C!WriteIndex
    <3>2. c \in up[u].doc
      BY <2>1, <2>3, <3>1
    <3>3. listed'[b] = IF up[u].op = "delete" THEN up[u].doc \ up[u].done ELSE up[u].doc \cup up[u].done
      BY <1>3, <3>1 DEF C!WriteIndex
    <3>. QED
      BY <2>3, <3>2, <3>3
  <2>. QED
    BY <1>3, <2>2, <2>3 DEF C!WriteIndex, C!KeepsEntries
<1>4. CASE C!ReplaceIndex
  <2>1. up'[Tarball].pc = "idle"
    BY <1>4 DEF C!ReplaceIndex, C!NoWork
  <2>2. \A b \in Bases : listed'[b] # listed[b] => listed'[b] = up[Tarball].done
    BY <1>4 DEF C!ReplaceIndex
  <2>. QED
    BY <1>4, <2>1, <2>2 DEF C!ReplaceIndex, C!KeepsEntries
<1>. QED
  BY <1>1, <1>2, <1>3, <1>4 DEF IndexStep

LEMMA CategoriesNextInv ==
    ASSUME CategoriesInv, [C!Next]_categories PROVE CategoriesInv' /\ C!KeepsEntries
<1>1. CategoryTypes /\ CategoriesAsk /\ TimesUnique /\ CacheBelongs /\ LookupsBelong /\ IndexHeld
  BY CategoryTypesAgree DEF CategoriesInv
<1>2. CASE C!Next
  <2>1. PICK w \in C!Updaters : WorkStep(w)
    BY <1>1, <1>2, WorkSteps
  <2>2. CategoryTypes' /\ CategoriesAsk'
    BY <1>1, <1>2, CategoryTypeNext, CategoriesAskNext
  <2>3. TimesUnique'
    BY <1>1, <2>1, TimesUniqueNext
  <2>4. CacheBelongs' /\ LookupsBelong'
    BY <1>1, <1>2, <2>1, CacheBelongsNext, LookupsBelongNext
  <2>5. IndexStep
    BY <1>1, <1>2, IndexSteps
  <2>6. IndexHeld' /\ C!KeepsEntries
    BY <1>1, <2>5, IndexHeldNext, IndexKept
  <2>. QED
    BY <2>2, <2>3, <2>4, <2>6, CategoryTypesAgree DEF CategoriesInv
<1>3. CASE UNCHANGED categories
  <2>1. C!KeepsEntries
    BY <1>3 DEF categories, C!KeepsEntries
  <2>. QED
    BY <1>3, <2>1 DEF categories, CategoriesInv, C!TypeOK, CategoriesAsk, Replaces, TimesUnique, Staged, InForce,
        CacheBelongs, Past, Same, LookupsBelong, IndexHeld
<1>. QED
  BY <1>2, <1>3

(* An entry that passes for current holds the category's list.             *)
LEMMA CategoriesFresh == CategoriesInv => C!FreshMeansCurrent
BY DEF CategoriesInv, C!TypeOK, CacheBelongs, Same, InForce, C!FreshMeansCurrent

-----------------------------------------------------------------------------
(* The policies directory with one writer, beside the watch loop           *)

(* One writer, which waits for the reload it has asked for: while the      *)
(* bridge reloads, the directory rests.                                    *)
OneWriter ==
    /\ side \in Writers /\ \A w \in Writers : w # side => wpc[w] = "idle"
    /\ side \notin Bridge => wpc[side] \in {"idle", "write", "remove"}
    /\ calls = 1 <=> wpc[side] = "reloading"
    /\ rpc["bridge"] # "idle" => calls = 1
    /\ side \notin Bridge => calls = 0

(* A rename has the old file until it removes it, and then the new one.    *)
RenameInHand ==
    /\ (wpc[side] = "write" /\ from[side] # to[side]) => files[from[side]].id = doc[side].id
    /\ wpc[side] = "remove" => /\ from[side] # to[side] /\ files[from[side]].id = doc[side].id
                               /\ files[to[side]] = doc[side]

(* What a reload has read is the directory if nothing changed since it     *)
(* began: always for the bridge's, for the watch loop's while no change is *)
(* pending.                                                                *)
Accurate(r) == \A n \in Names : /\ n \in todo[r] => files[n] # NoFile
                                /\ n \notin todo[r] => got[r][n] = files[n]
Reloads ==
    /\ rpc["bridge"] = "list" => Accurate("bridge")
    /\ rpc["bridge"] = "bypass" => got["bridge"] = files
    /\ (~dirty /\ rpc["watch"] = "list") => Accurate("watch")
    /\ (~dirty /\ rpc["watch"] = "bypass") => got["watch"] = files
    /\ (~dirty /\ rpc["watch"] # "list") => policies = files
    /\ (~dirty /\ rpc["watch"] = "idle") => bypass = files
    /\ (rpc["bridge"] = "idle" /\ rpc["watch"] # "bypass" /\ side \notin Bridge) => bypass = policies
    /\ (rpc["watch"] = "bypass" /\ side \notin Bridge) => policies = got["watch"]

(* As long as the first policy's names are its own and nobody deletes it,  *)
(* it is in the directory, in what a reload has read or still reads, and   *)
(* in force.                                                               *)
Protected == /\ FirstPolicy.id \notin deleted
             /\ \A n \in Names : FirstPolicy.id \in owners[n] => owners[n] = {FirstPolicy.id}
Kept ==
    /\ \A n \in Names : files[n] # NoFile => files[n].id \in owners[n]
    /\ Protected =>
          /\ \E n \in Names : files[n].id = FirstPolicy.id
          /\ \A r \in Reloaders : rpc[r] = "list" =>
                \E n \in Names : IF n \in todo[r] THEN FirstPolicy.id \in owners[n]
                                                  ELSE got[r][n].id = FirstPolicy.id
          /\ \E n \in Names : policies[n].id = FirstPolicy.id

PoliciesInv == TypeOK /\ OneWriter /\ RenameInHand /\ Reloads /\ Kept

PoliciesChecked == which = "policies" => PoliciesInv

LEMMA PoliciesInitInv == PoliciesInit => PoliciesInv
<1>. SUFFICES ASSUME PoliciesInit PROVE PoliciesInv
  OBVIOUS
<1>1. TypeOK
  BY TypeInit DEF PoliciesInit
<1>2. OneWriter /\ RenameInHand
  BY DEF PoliciesInit, Init, OneWriter, RenameInHand, Reloaders
<1>3. Reloads
  BY DEF PoliciesInit, Init, Reloads, Reloaders
<1>4. Kept
  <2>1. files[1] = FirstPolicy /\ \A n \in Names : n # 1 => files[n] = NoFile
    BY ConstantFacts DEF PoliciesInit, Init, Empty
  <2>2. FirstPolicy.id = 1 /\ 1 \in Names
    BY ConstantFacts DEF FirstPolicy
  <2>3. \A n \in Names : files[n] # NoFile => files[n].id \in owners[n]
    BY <2>1, <2>2 DEF PoliciesInit, Init
  <2>4. \A r \in Reloaders : rpc[r] # "list"
    BY DEF PoliciesInit, Init
  <2>5. policies = files
    BY DEF PoliciesInit, Init
  <2>. QED
    BY <2>1, <2>2, <2>3, <2>4, <2>5 DEF Kept
<1>. QED
  BY <1>1, <1>2, <1>3, <1>4 DEF PoliciesInv

LEMMA OneWriterNext ==
    ASSUME TypeOK, OneWriter, PoliciesNext, UNCHANGED side PROVE OneWriter'
<1>. USE DEF TypeOK, dirVars, writerVars, reloadVars, runtimeVars, Reloaders, OneWriter
<1>1. CASE BeginCreate(side) \/ BeginUpdate(side)
  BY <1>1 DEF BeginCreate, BeginUpdate
<1>2. CASE WriteFile(side)
  BY <1>2 DEF WriteFile, AfterWrite
<1>3. CASE RemoveOld(side)
  BY <1>3 DEF RemoveOld, AfterWrite
<1>4. CASE Delete(side)
  BY <1>4 DEF Delete, AfterWrite
<1>5. CASE CallReload(side)
  BY <1>5 DEF CallReload
<1>6. ASSUME NEW r \in Reloaders, Begin(r) \/ ReadFile(r) \/ StorePolicies(r) PROVE OneWriter'
  BY <1>6 DEF Begin, ReadFile, StorePolicies, Idle
<1>7. ASSUME NEW r \in Reloaders, ReadFails(r) \/ StoreBypass(r) PROVE OneWriter'
  <2>1. rpc' = [rpc EXCEPT ![r] = "idle"]
    BY <1>7 DEF ReadFails, StoreBypass, EndReload
  <2>2. CASE r = "watch"
    <3>1. UNCHANGED <<calls, wpc>>
      BY <1>7, <2>2 DEF ReadFails, StoreBypass, EndReload
    <3>. QED
      BY <2>1, <2>2, <3>1
  <2>3. CASE r = "bridge"
    <3>1. calls' = 0 /\ wpc' = [w \in Writers |-> IF wpc[w] = "reloading" THEN "idle" ELSE wpc[w]]
      BY <1>7, <2>3 DEF ReadFails, StoreBypass, EndReload
    <3>. QED
      BY <2>1, <2>3, <3>1
  <2>. QED
    BY <2>2, <2>3
<1>8. CASE UNCHANGED vars
  BY <1>8 DEF vars
<1>. QED
  BY <1>1, <1>2, <1>3, <1>4, <1>5, <1>6, <1>7, <1>8
     DEF PoliciesNext, Act, WriterStep, ReloadStep, Terminated

LEMMA RenameInHandNext ==
    ASSUME TypeOK, OneWriter, RenameInHand, PoliciesNext, UNCHANGED side PROVE RenameInHand'
<1>. USE DEF TypeOK, dirVars, writerVars, reloadVars, runtimeVars, Reloaders, OneWriter
<1>1. CASE BeginCreate(side)
  BY <1>1 DEF BeginCreate, RenameInHand
<1>2. CASE BeginUpdate(side)
  <2>1. PICK n \in Names : from'[side] = n /\ doc'[side].id = files[n].id
    BY <1>2 DEF BeginUpdate, Present
  <2>. QED
    BY <1>2, <2>1 DEF BeginUpdate, RenameInHand
<1>3. CASE WriteFile(side)
  BY <1>3 DEF WriteFile, AfterWrite, RenameInHand, Directory
<1>4. CASE RemoveOld(side)
  BY <1>4 DEF RemoveOld, AfterWrite, RenameInHand
<1>5. CASE Delete(side)
  BY <1>5 DEF Delete, AfterWrite, RenameInHand
<1>6. CASE CallReload(side)
  BY <1>6 DEF CallReload, RenameInHand
<1>7. ASSUME NEW r \in Reloaders, ReloadStep(r) PROVE RenameInHand'
  <2>1. UNCHANGED <<files, from, to, doc>> /\ (wpc'[side] \in {wpc[side], "idle"})
    BY <1>7 DEF ReloadStep, Begin, ReadFile, ReadFails, StorePolicies, StoreBypass, EndReload
  <2>. QED
    BY <2>1 DEF RenameInHand
<1>8. CASE UNCHANGED vars
  BY <1>8 DEF vars, RenameInHand
<1>. QED
  BY <1>1, <1>2, <1>3, <1>4, <1>5, <1>6, <1>7, <1>8
     DEF PoliciesNext, Act, WriterStep, Terminated

(* Reading a file, or beginning to, keeps what is read accurate.           *)
LEMMA BeginsAccurate ==
    ASSUME TypeOK, NEW r \in Reloaders, Begin(r) PROVE Accurate(r)'
BY DEF TypeOK, Begin, Accurate, Present, Empty

LEMMA ReadsAccurate ==
    ASSUME TypeOK, NEW r \in Reloaders, ReadFile(r), Accurate(r) PROVE Accurate(r)'
<1>1. PICK n \in Names : /\ got' = [got EXCEPT ![r][n] = files[n]]
                         /\ todo' = [todo EXCEPT ![r] = @ \ {n}]
  BY DEF ReadFile
<1>2. got'[r] = [got[r] EXCEPT ![n] = files[n]] /\ todo'[r] = todo[r] \ {n} /\ got[r] \in Directory
  BY <1>1 DEF TypeOK
<1>3. files' = files
  BY DEF ReadFile, dirVars
<1>. QED
  BY <1>2, <1>3 DEF Accurate, Directory

LEMMA AccurateAtEnd ==
    ASSUME TypeOK, NEW r \in Reloaders, todo[r] = {}, Accurate(r) PROVE got[r] = files
BY DEF TypeOK, Accurate, Directory

LEMMA ReloadsNext ==
    ASSUME TypeOK, OneWriter, Reloads, PoliciesNext, UNCHANGED side PROVE Reloads'
<1>. USE DEF dirVars, writerVars, reloadVars, runtimeVars
<1>0. "watch" \in Reloaders /\ "bridge" \in Reloaders /\ \A r \in Reloaders : r \in {"watch", "bridge"}
      /\ rpc \in [Reloaders -> {"idle", "list", "bypass"}] /\ got \in [Reloaders -> Directory]
      /\ side \in Writers
  BY DEF TypeOK, OneWriter, Reloaders
<1>1. CASE UNCHANGED <<files, dirty, rpc, todo, got, policies, bypass>>
  BY <1>1 DEF Reloads, Accurate
<1>2. BeginCreate(side) \/ BeginUpdate(side) \/ CallReload(side) \/ UNCHANGED vars
        => UNCHANGED <<files, dirty, rpc, todo, got, policies, bypass>>
  BY DEF BeginCreate, BeginUpdate, CallReload, vars
<1>3. ASSUME wpc[side] # "reloading", dirty', UNCHANGED <<rpc, todo, got, policies, bypass>> PROVE Reloads'
  <2>1. rpc["bridge"] = "idle"
    BY <1>3 DEF OneWriter
  <2>. QED
    BY <1>3, <2>1 DEF Reloads
<1>4. WriteFile(side) \/ Delete(side) => wpc[side] # "reloading" /\ dirty' /\ UNCHANGED <<rpc, todo, got, policies, bypass>>
  BY DEF WriteFile, Delete
<1>5. RemoveOld(side) =>
         \/ wpc[side] # "reloading" /\ dirty' /\ UNCHANGED <<rpc, todo, got, policies, bypass>>
         \/ UNCHANGED <<files, dirty, rpc, todo, got, policies, bypass>>
  BY DEF RemoveOld
<1>6. ASSUME NEW r \in Reloaders, Begin(r) PROVE Reloads'
  <2>1. Accurate(r)' /\ rpc'[r] = "list" /\ rpc[r] = "idle" /\ UNCHANGED <<files, policies, bypass>>
    BY <1>0, <1>6, BeginsAccurate DEF Begin, Idle
  <2>2. \A q \in Reloaders : q # r => rpc'[q] = rpc[q] /\ todo'[q] = todo[q] /\ got'[q] = got[q]
    BY <1>0, <1>6 DEF Begin
  <2>3. CASE r = "watch"
    <3>1. rpc["bridge"] = rpc'["bridge"] /\ (Accurate("bridge")' <=> Accurate("bridge")) /\ got'["bridge"] = got["bridge"]
      BY <1>0, <2>1, <2>2, <2>3 DEF Accurate
    <3>. QED
      BY <2>1, <2>3, <3>1 DEF Reloads
  <2>4. CASE r = "bridge"
    <3>1. rpc["watch"] = rpc'["watch"] /\ (Accurate("watch")' <=> Accurate("watch")) /\ got'["watch"] = got["watch"]
      BY <1>0, <2>1, <2>2, <2>4 DEF Accurate
    <3>2. dirty' = dirty
      BY <1>6, <2>4 DEF Begin
    <3>. QED
      BY <2>1, <2>4, <3>1, <3>2 DEF Reloads
  <2>. QED
    BY <1>0, <2>3, <2>4
<1>7. ASSUME NEW r \in Reloaders, ReadFile(r) PROVE Reloads'
  <2>1. Accurate(r) => Accurate(r)'
    BY <1>7, ReadsAccurate
  <2>2. rpc[r] = "list" /\ UNCHANGED <<rpc, files, dirty, policies, bypass>>
    BY <1>7 DEF ReadFile
  <2>3. \A q \in Reloaders : q # r => todo'[q] = todo[q] /\ got'[q] = got[q]
    BY <1>0, <1>7 DEF ReadFile
  <2>4. \A q \in Reloaders : q # r => (Accurate(q) => Accurate(q)')
    BY <2>2, <2>3 DEF Accurate
  <2>5. CASE r = "watch"
    BY <1>0, <2>1, <2>2, <2>3, <2>4, <2>5 DEF Reloads
  <2>6. CASE r = "bridge"
    BY <1>0, <2>1, <2>2, <2>3, <2>4, <2>6 DEF Reloads
  <2>. QED
    BY <1>0, <2>5, <2>6
<1>8. ASSUME NEW r \in Reloaders, ReadFails(r) PROVE Reloads'
  <2>1. rpc[r] = "list" /\ ~Accurate(r)
    BY <1>8 DEF ReadFails, IsNext, Accurate
  <2>2. r = "watch" /\ dirty
    BY <1>0, <2>1 DEF Reloads
  <2>3. rpc' = [rpc EXCEPT !["watch"] = "idle"] /\ UNCHANGED <<files, dirty, todo, got, policies, bypass>>
    BY <1>8, <2>2 DEF ReadFails, EndReload
  <2>4. rpc'["watch"] = "idle" /\ rpc'["bridge"] = rpc["bridge"] /\ (Accurate("bridge")' <=> Accurate("bridge"))
    BY <1>0, <2>3 DEF Accurate
  <2>. QED
    BY <2>1, <2>2, <2>3, <2>4 DEF Reloads
<1>9. ASSUME NEW r \in Reloaders, StorePolicies(r) PROVE Reloads'
  <2>1. /\ rpc[r] = "list" /\ todo[r] = {} /\ policies' = got[r] /\ rpc'[r] = "bypass"
        /\ UNCHANGED <<files, dirty, todo, got, bypass>>
        /\ \A q \in Reloaders : q # r => rpc'[q] = rpc[q]
    BY <1>0, <1>9 DEF StorePolicies
  <2>2. Accurate(r) => got[r] = files
    BY <2>1, AccurateAtEnd
  <2>3. \A q \in Reloaders : Accurate(q)' <=> Accurate(q)
    BY <2>1 DEF Accurate
  <2>4. CASE r = "watch"
    BY <1>0, <2>1, <2>2, <2>3, <2>4 DEF Reloads
  <2>5. CASE r = "bridge"
    <3>1. side \in Bridge
      BY <2>1, <2>5 DEF OneWriter
    <3>. QED
      BY <1>0, <2>1, <2>2, <2>3, <2>5, <3>1 DEF Reloads
  <2>. QED
    BY <1>0, <2>4, <2>5
<1>10. ASSUME NEW r \in Reloaders, StoreBypass(r) PROVE Reloads'
  <2>1. /\ rpc[r] = "bypass" /\ bypass' = got[r] /\ rpc'[r] = "idle"
        /\ UNCHANGED <<files, dirty, todo, got, policies>>
        /\ \A q \in Reloaders : q # r => rpc'[q] = rpc[q]
    BY <1>0, <1>10 DEF StoreBypass, EndReload
  <2>2. \A q \in Reloaders : Accurate(q)' <=> Accurate(q)
    BY <2>1 DEF Accurate
  <2>3. CASE r = "watch"
    BY <1>0, <2>1, <2>2, <2>3 DEF Reloads
  <2>4. CASE r = "bridge"
    <3>1. side \in Bridge
      BY <2>1, <2>4 DEF OneWriter
    <3>. QED
      BY <1>0, <2>1, <2>2, <2>4, <3>1 DEF Reloads
  <2>. QED
    BY <1>0, <2>3, <2>4
<1>. QED
  BY <1>1, <1>2, <1>3, <1>4, <1>5, <1>6, <1>7, <1>8, <1>9, <1>10
     DEF PoliciesNext, Act, WriterStep, ReloadStep, Terminated

(* Names and deletions are remembered, so what is protected was.           *)
LEMMA ProtectedBefore ==
    ASSUME TypeOK, OneWriter, PoliciesNext, Protected'
    PROVE  Protected /\ \A n \in Names : owners[n] \subseteq owners'[n]
<1>. USE DEF TypeOK, dirVars, writerVars, reloadVars, runtimeVars
<1>1. deleted \subseteq deleted' /\ \A n \in Names : owners[n] \subseteq owners'[n]
  <2>1. CASE WriteFile(side)
    BY <2>1 DEF WriteFile, Owns
  <2>2. CASE Delete(side)
    BY <2>2 DEF Delete
  <2>3. BeginCreate(side) \/ BeginUpdate(side) \/ RemoveOld(side) \/ CallReload(side) \/ (\E r \in Reloaders : ReloadStep(r))
          \/ UNCHANGED vars => UNCHANGED <<deleted, owners>>
    BY DEF BeginCreate, BeginUpdate, RemoveOld, CallReload, ReloadStep, Begin, ReadFile, ReadFails, StorePolicies,
           StoreBypass, vars
  <2>. QED
    BY <2>1, <2>2, <2>3 DEF PoliciesNext, Act, WriterStep, Terminated
<1>2. ASSUME NEW n \in Names, FirstPolicy.id \in owners[n] PROVE owners[n] = {FirstPolicy.id}
  <2>1. owners'[n] = {FirstPolicy.id}
    BY <1>1, <1>2 DEF Protected
  <2>. QED
    BY <1>1, <1>2, <2>1
<1>. QED
  BY <1>1, <1>2 DEF Protected

LEMMA KeptNext ==
    ASSUME TypeOK, OneWriter, RenameInHand, Kept, PoliciesNext PROVE Kept'
<1>. USE DEF dirVars, writerVars, reloadVars, runtimeVars
<1>0. /\ side \in Writers /\ files \in Directory /\ owners \in [Names -> SUBSET Nat] /\ doc \in [Writers -> Policy]
      /\ from \in [Writers -> Names] /\ to \in [Writers -> Names]
      /\ rpc \in [Reloaders -> {"idle", "list", "bypass"}] /\ todo \in [Reloaders -> SUBSET Names]
      /\ got \in [Reloaders -> Directory]
  BY DEF TypeOK, OneWriter
<1>1. CASE UNCHANGED <<files, owners, deleted, rpc, todo, got, policies>>
  BY <1>1 DEF Kept, Protected
<1>2. BeginCreate(side) \/ BeginUpdate(side) \/ CallReload(side) \/ UNCHANGED vars
        => UNCHANGED <<files, owners, deleted, rpc, todo, got, policies>>
  BY DEF BeginCreate, BeginUpdate, CallReload, vars
<1>3. ASSUME UNCHANGED <<rpc, todo, got, policies>>,
             \A n \in Names : files'[n] # NoFile => files'[n].id \in owners'[n],
             Protected' => \E n \in Names : files'[n].id = FirstPolicy.id
      PROVE  Kept'
  <2>. SUFFICES ASSUME Protected'
                PROVE  /\ \A r \in Reloaders : rpc[r] = "list" =>
                             \E n \in Names : IF n \in todo[r] THEN FirstPolicy.id \in owners'[n]
                                                               ELSE got[r][n].id = FirstPolicy.id
                       /\ \E n \in Names : policies[n].id = FirstPolicy.id
    BY <1>3 DEF Kept
  <2>1. Protected /\ \A n \in Names : owners[n] \subseteq owners'[n]
    BY ProtectedBefore
  <2>. QED
    BY <2>1 DEF Kept
<1>4. CASE WriteFile(side)
  <2>1. /\ to[side] \in Names
        /\ \A n \in Names : files'[n] = IF n = to[side] THEN doc[side] ELSE files[n]
        /\ \A n \in Names : owners'[n] = IF n = to[side] THEN owners[n] \cup {doc[side].id} ELSE owners[n]
    BY <1>0, <1>4 DEF WriteFile, Owns, Directory
  <2>2. ASSUME NEW n \in Names, files'[n] # NoFile PROVE files'[n].id \in owners'[n]
    BY <2>1, <2>2 DEF Kept
  <2>3. ASSUME Protected' PROVE \E n \in Names : files'[n].id = FirstPolicy.id
    <3>1. PICK n \in Names : files[n].id = FirstPolicy.id
      BY <2>3, ProtectedBefore DEF Kept
    <3>2. CASE n # to[side]
      BY <2>1, <3>1, <3>2
    <3>3. CASE n = to[side]
      <4>1. FirstPolicy.id \in owners[n]
        BY <3>1 DEF Kept, NoFile, FirstPolicy
      <4>2. doc[side].id = FirstPolicy.id
        <5>1. FirstPolicy.id \in owners'[n] /\ doc[side].id \in owners'[n]
          BY <2>1, <3>3, <4>1
        <5>2. owners'[n] = {FirstPolicy.id}
          BY <2>3, <5>1 DEF Protected
        <5>. QED
          BY <5>1, <5>2
      <4>. QED
        BY <2>1, <4>2
    <3>. QED
      BY <3>2, <3>3
  <2>. QED
    BY <1>3, <1>4, <2>2, <2>3 DEF WriteFile
<1>5. CASE RemoveOld(side)
  <2>1. CASE files[from[side]] # NoFile
    <3>1. /\ from[side] # to[side] /\ files[from[side]].id = doc[side].id /\ files[to[side]] = doc[side]
          /\ \A n \in Names : files'[n] = IF n = from[side] THEN NoFile ELSE files[n]
      BY <1>0, <1>5, <2>1 DEF RemoveOld, RenameInHand, Directory
    <3>2. ASSUME Protected' PROVE \E n \in Names : files'[n].id = FirstPolicy.id
      <4>1. PICK n \in Names : files[n].id = FirstPolicy.id
        BY <3>2, ProtectedBefore DEF Kept
      <4>2. IF n = from[side] THEN files'[to[side]].id = FirstPolicy.id ELSE files'[n].id = FirstPolicy.id
        BY <1>0, <3>1, <4>1
      <4>. QED
        BY <1>0, <4>2
    <3>3. \A n \in Names : files'[n] # NoFile => files'[n].id \in owners'[n]
      BY <1>5, <2>1, <3>1 DEF RemoveOld, Kept
    <3>. QED
      BY <1>3, <1>5, <3>2, <3>3 DEF RemoveOld
  <2>2. CASE files[from[side]] = NoFile
    BY <1>1, <1>5, <2>2 DEF RemoveOld
  <2>. QED
    BY <2>1, <2>2
<1>6. CASE Delete(side)
  <2>1. PICK n \in Names : /\ files' = [files EXCEPT ![n] = NoFile] /\ deleted' = deleted \cup {files[n].id}
    BY <1>6 DEF Delete, Present
  <2>2. \A m \in Names : files'[m] = IF m = n THEN NoFile ELSE files[m]
    BY <1>0, <2>1 DEF Directory
  <2>3. owners' = owners /\ UNCHANGED <<rpc, todo, got, policies>>
    BY <1>6 DEF Delete
  <2>4. \A m \in Names : files'[m] # NoFile => files'[m].id \in owners'[m]
    BY <2>2, <2>3 DEF Kept
  <2>5. ASSUME Protected' PROVE \E m \in Names : files'[m].id = FirstPolicy.id
    <3>1. PICK m \in Names : files[m].id = FirstPolicy.id
      BY <2>5, ProtectedBefore DEF Kept
    <3>2. m # n
      BY <2>1, <2>5, <3>1 DEF Protected
    <3>. QED
      BY <2>2, <3>1, <3>2
  <2>. QED
    BY <1>3, <2>3, <2>4, <2>5
<1>7. ASSUME NEW r \in Reloaders, Begin(r) PROVE Kept'
  <2>1. /\ UNCHANGED <<files, owners, deleted, policies>> /\ todo'[r] = Present(files)
        /\ \A q \in Reloaders : q # r => rpc'[q] = rpc[q] /\ todo'[q] = todo[q] /\ got'[q] = got[q]
    BY <1>0, <1>7 DEF Begin
  <2>2. ASSUME Protected PROVE \E n \in Names : n \in todo'[r] /\ FirstPolicy.id \in owners[n]
    <3>1. PICK n \in Names : files[n].id = FirstPolicy.id
      BY <2>2 DEF Kept
    <3>2. files[n] # NoFile
      BY <3>1 DEF NoFile, FirstPolicy
    <3>. QED
      BY <2>1, <3>1, <3>2 DEF Kept, Present
  <2>3. Protected' <=> Protected
    BY <2>1 DEF Protected
  <2>. QED
    BY <2>1, <2>2, <2>3 DEF Kept
<1>8. ASSUME NEW r \in Reloaders, ReadFile(r) PROVE Kept'
  <2>1. PICK n \in Names : /\ files[n] # NoFile /\ n \in todo[r]
                           /\ got' = [got EXCEPT ![r][n] = files[n]]
                           /\ todo' = [todo EXCEPT ![r] = @ \ {n}]
    BY <1>8 DEF ReadFile, IsNext
  <2>2. /\ UNCHANGED <<files, owners, deleted, rpc, policies>> /\ todo'[r] = todo[r] \ {n}
        /\ \A m \in Names : got'[r][m] = IF m = n THEN files[n] ELSE got[r][m]
        /\ \A q \in Reloaders : q # r => todo'[q] = todo[q] /\ got'[q] = got[q]
    BY <1>0, <1>8, <2>1 DEF ReadFile, Directory
  <2>3. Protected' <=> Protected
    BY <2>2 DEF Protected
  <2>4. ASSUME Protected, rpc[r] = "list"
        PROVE  \E m \in Names : IF m \in todo'[r] THEN FirstPolicy.id \in owners[m] ELSE got'[r][m].id = FirstPolicy.id
    <3>1. PICK m \in Names : IF m \in todo[r] THEN FirstPolicy.id \in owners[m] ELSE got[r][m].id = FirstPolicy.id
      BY <2>4 DEF Kept
    <3>2. CASE m # n
      BY <2>2, <3>1, <3>2
    <3>3. CASE m = n
      <4>1. FirstPolicy.id \in owners[n] /\ owners[n] = {FirstPolicy.id}
        BY <2>1, <2>4, <3>1, <3>3 DEF Protected
      <4>2. files[n].id = FirstPolicy.id
        BY <2>1, <4>1 DEF Kept
      <4>. QED
        BY <2>2, <3>3, <4>2
    <3>. QED
      BY <3>2, <3>3
  <2>. QED
    BY <2>2, <2>3, <2>4 DEF Kept
<1>9. ASSUME NEW r \in Reloaders, ReadFails(r) \/ StoreBypass(r) PROVE Kept'
  <2>1. /\ UNCHANGED <<files, owners, deleted, policies, todo, got>> /\ rpc'[r] = "idle"
        /\ \A q \in Reloaders : q # r => rpc'[q] = rpc[q]
    BY <1>0, <1>9 DEF ReadFails, StoreBypass, EndReload
  <2>. QED
    BY <2>1 DEF Kept, Protected
<1>10. ASSUME NEW r \in Reloaders, StorePolicies(r) PROVE Kept'
  <2>1. /\ UNCHANGED <<files, owners, deleted, todo, got>> /\ rpc'[r] = "bypass" /\ rpc[r] = "list"
        /\ policies' = got[r] /\ todo[r] = {}
        /\ \A q \in Reloaders : q # r => rpc'[q] = rpc[q]
    BY <1>0, <1>10 DEF StorePolicies
  <2>2. Protected => \E n \in Names : got[r][n].id = FirstPolicy.id
    BY <2>1 DEF Kept
  <2>. QED
    BY <2>1, <2>2 DEF Kept, Protected
<1>. QED
  BY <1>1, <1>2, <1>4, <1>5, <1>6, <1>7, <1>8, <1>9, <1>10
     DEF PoliciesNext, Act, WriterStep, ReloadStep, Terminated

LEMMA PoliciesNextInv ==
    ASSUME PoliciesInv, PoliciesNext \/ UNCHANGED vars, UNCHANGED side PROVE PoliciesInv'
<1>1. CASE PoliciesNext
  <2>1. [Next]_vars
    BY <1>1 DEF PoliciesNext, Next, PoliciesInv, OneWriter
  <2>2. TypeOK'
    BY <2>1, TypeNext DEF PoliciesInv
  <2>3. OneWriter' /\ RenameInHand' /\ Reloads' /\ Kept'
    BY <1>1, OneWriterNext, RenameInHandNext, ReloadsNext, KeptNext DEF PoliciesInv
  <2>. QED
    BY <2>2, <2>3 DEF PoliciesInv
<1>2. CASE UNCHANGED vars
  <2>1. TypeOK'
    BY <1>2, TypeNext DEF PoliciesInv
  <2>2. OneWriter' /\ RenameInHand'
    BY <1>2 DEF vars, writerVars, reloadVars, dirVars, PoliciesInv, OneWriter, RenameInHand
  <2>3. Reloads' /\ Kept'
    BY <1>2 DEF vars, reloadVars, runtimeVars, dirVars, PoliciesInv, Reloads, Accurate, Kept, Protected
  <2>. QED
    BY <2>1, <2>2, <2>3 DEF PoliciesInv
<1>. QED
  BY <1>1, <1>2

(* Quiet means current, the exclude list belongs to the policies, and the  *)
(* first policy is in force.                                               *)
LEMMA PoliciesHold ==
    PoliciesInv => QuietMeansCurrent /\ BypassBelongs /\ NeverUnloaded
<1>. SUFFICES ASSUME PoliciesInv PROVE QuietMeansCurrent /\ BypassBelongs /\ NeverUnloaded
  OBVIOUS
<1>1. QuietMeansCurrent
  BY DEF PoliciesInv, Reloads, QuietMeansCurrent, Quiet, Idle, Reloaders
<1>2. BypassBelongs
  BY DEF PoliciesInv, Reloads, BypassBelongs, BypassOfLoadedPolicies, Idle, Reloaders
<1>3. NeverUnloaded
  BY DEF PoliciesInv, Kept, Protected, NeverUnloaded
<1>. QED
  BY <1>1, <1>2, <1>3

-----------------------------------------------------------------------------
(* The three directories                                                   *)

(* A store that is not the behaviour's rests: the policies directory as it *)
(* was loaded.                                                             *)
PoliciesRest == which # "policies" =>
    /\ policies = files /\ bypass = files
    /\ \E n \in Names : policies[n].id = FirstPolicy.id

StoresInv ==
    /\ which \in {"policies", "adblock", "lookups", "index"} /\ PoliciesRest
    /\ PoliciesChecked /\ AdblockChecked /\ CategoriesChecked

LEMMA StoresInitInv == StoresInit => StoresInv
<1>. SUFFICES ASSUME StoresInit PROVE StoresInv
  OBVIOUS
<1>1. CASE which = "policies" /\ PoliciesInit
  BY <1>1, PoliciesInitInv DEF StoresInv, PoliciesRest, PoliciesChecked, AdblockChecked, CategoriesChecked
<1>2. PoliciesParked => policies = files /\ bypass = files /\ \E n \in Names : policies[n].id = FirstPolicy.id
  <2>. SUFFICES ASSUME PoliciesParked PROVE policies = files /\ bypass = files /\ policies[1].id = FirstPolicy.id
    BY ConstantFacts
  <2>. QED
    BY ConstantFacts DEF PoliciesParked, Init, Empty
<1>3. CASE which = "adblock" /\ PoliciesParked /\ A!Init
  BY <1>2, <1>3, AdblockInit DEF StoresInv, PoliciesRest, PoliciesChecked, AdblockChecked, CategoriesChecked
<1>4. CASE which \in {"lookups", "index"} /\ PoliciesParked /\ C!Init
  BY <1>2, <1>4, CategoriesInit DEF StoresInv, PoliciesRest, PoliciesChecked, AdblockChecked, CategoriesChecked
<1>. QED
  BY <1>1, <1>3, <1>4 DEF StoresInit

LEMMA StoresNextInv == StoresInv /\ [StoresNext]_allVars => StoresInv' /\ C!KeepsEntries
<1>. SUFFICES ASSUME StoresInv, [StoresNext]_allVars PROVE StoresInv' /\ C!KeepsEntries
  OBVIOUS
<1>0. UNCHANGED <<which, side>>
  BY DEF StoresNext, allVars
<1>a. which # "policies" => UNCHANGED vars
  BY DEF StoresNext, allVars
<1>b. PoliciesRest'
  BY <1>0, <1>a DEF StoresInv, PoliciesRest, vars, dirVars, runtimeVars
<1>c. UNCHANGED categories => C!KeepsEntries
  BY DEF categories, C!KeepsEntries
<1>1. CASE which = "policies"
  <2>1. (PoliciesNext \/ UNCHANGED vars) /\ UNCHANGED categories
    BY <1>1 DEF StoresNext, allVars
  <2>2. PoliciesInv'
    BY <1>0, <1>1, <2>1, PoliciesNextInv DEF StoresInv, PoliciesChecked
  <2>. QED
    BY <1>0, <1>1, <1>b, <1>c, <2>1, <2>2 DEF StoresInv, PoliciesChecked, AdblockChecked, CategoriesChecked
<1>2. CASE which = "adblock"
  <2>1. [AdblockNext]_adblock /\ UNCHANGED categories
    BY <1>2 DEF StoresNext, allVars
  <2>2. AdblockInv'
    BY <1>2, <2>1, AdblockNextInv DEF StoresInv, AdblockChecked
  <2>. QED
    BY <1>0, <1>2, <1>b, <1>c, <2>1, <2>2 DEF StoresInv, PoliciesChecked, AdblockChecked, CategoriesChecked
<1>3. CASE which \in {"lookups", "index"}
  <2>1. [C!Next]_categories
    BY <1>3 DEF StoresNext, allVars, LookupsNext, IndexNext
  <2>2. CategoriesInv' /\ C!KeepsEntries
    BY <1>3, <2>1, CategoriesNextInv DEF StoresInv, CategoriesChecked
  <2>. QED
    BY <1>0, <1>3, <1>b, <2>2 DEF StoresInv, PoliciesChecked, AdblockChecked, CategoriesChecked
<1>. QED
  BY <1>1, <1>2, <1>3 DEF StoresInv

LEMMA StoresInvAlways == StoresSpec => []StoresInv
BY StoresInitInv, StoresNextInv, PTL DEF StoresSpec

(* Every variable of the store at work keeps its type; an engine or a      *)
(* cache entry whose times are the files' holds what the files hold; no    *)
(* compilation and no missing list is waited for in vain.  For any lists,  *)
(* readers, compilations, downloads and deletions with one change of the   *)
(* ad-block directory, and any categories, lookups, threads and changes of *)
(* theirs.                                                                 *)
THEOREM NothingStaleAlways == StoresSpec => []NothingStale
<1>1. StoresInv => NothingStale
  BY AdblockCurrent, CategoriesFresh
     DEF StoresInv, PoliciesChecked, AdblockChecked, CategoriesChecked, PoliciesInv, AdblockInv, CategoriesInv, NothingStale
<1>. QED
  BY <1>1, StoresInvAlways, PTL

(* Overlapping downloads and deletions in any number of threads keep each  *)
(* other's index entries; only the tarball's process, which knows nothing  *)
(* of the lock, can undo one.                                              *)
THEOREM EntriesKeptAlways == StoresSpec => EntriesKept
BY StoresInvAlways, StoresNextInv, PTL DEF StoresSpec, EntriesKept

(* With one writer at a time - the management API beside the watch loop,   *)
(* or Android's bridge, which reloads by itself beside it - what is in     *)
(* force when nothing is pending is the directory, although two reloads    *)
(* overlap without a lock.                                                 *)
THEOREM QuietMeansCurrentWithBridge == StoresSpec => []QuietMeansCurrent
<1>1. StoresInv => QuietMeansCurrent
  BY PoliciesHold DEF StoresInv, PoliciesRest, PoliciesChecked, QuietMeansCurrent
<1>. QED
  BY <1>1, StoresInvAlways, PTL

(* Beside the watch loop alone the exclude list belongs to the policies in *)
(* force between any two reloads.                                          *)
THEOREM BypassBelongsAlways == StoresSpec => []BypassBelongs
<1>1. StoresInv => BypassBelongs
  BY PoliciesHold DEF StoresInv, PoliciesRest, PoliciesChecked, BypassBelongs, BypassOfLoadedPolicies
<1>. QED
  BY <1>1, StoresInvAlways, PTL

(* With one writer at a time, a policy nobody deletes and whose names no   *)
(* other policy takes is in force at all times, whatever it is renamed to  *)
(* and however reads and renames interleave.                               *)
THEOREM NeverUnloadedAlways == StoresSpec => []NeverUnloaded
<1>1. StoresInv => NeverUnloaded
  BY PoliciesHold DEF StoresInv, PoliciesRest, PoliciesChecked, NeverUnloaded
<1>. QED
  BY <1>1, StoresInvAlways, PTL
===============================================================================
