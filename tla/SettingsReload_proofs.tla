------------------------ MODULE SettingsReload_proofs -----------------------
(***************************************************************************)
(* Proofs about SettingsReload: type correctness, and the two promises of  *)
(* ApplySettings that hold however its calls overlap - the snapshot never  *)
(* contradicts what the process was started with, and its hot fields are   *)
(* those of one document of the file.                                      *)
(***************************************************************************)
EXTENDS SettingsReload, TLAPS

LEMMA FieldsFacts ==
    /\ HotFields \subseteq Fields
    /\ "mgmt_port" \in Fields /\ "mgmt_port" \notin HotFields
    /\ "categories_dir" \in HotFields /\ "adblock" \in HotFields
BY DEF Fields, HotFields

(* MergeHot takes every hot field from its second argument and keeps the   *)
(* startup-bound field of the first.                                       *)
LEMMA MergeHotFacts ==
    ASSUME NEW l \in Settings, NEW n \in Settings
    PROVE  /\ MergeHot(l, n) \in Settings
           /\ HotPart(MergeHot(l, n)) = HotPart(n)
           /\ MergeHot(l, n)["mgmt_port"] = l["mgmt_port"]
BY FieldsFacts DEF MergeHot, Settings, HotPart

LEMMA MergeSettingsType ==
    ASSUME NEW cur \in Settings, NEW touched, NEW n \in Nat
    PROVE  MergeSettings(cur, touched, n) \in Settings
BY DEF MergeSettings, Settings

LEMMA MergedType ==
    ASSUME TypeOK, NEW a \in Appliers
    PROVE  /\ Merged(a) \in Settings
           /\ Merged(a)["categories_dir"] \in Nat
           /\ Merged(a)["adblock"] \in Nat
<1>1. old[a] \in Settings /\ next[a] \in Settings
  BY DEF TypeOK
<1>2. Merged(a) \in Settings
  BY <1>1, MergeHotFacts DEF Merged
<1>. QED BY <1>2, FieldsFacts DEF Settings

LEMMA TypeInit == Init => TypeOK
<1>. SUFFICES ASSUME Init PROVE TypeOK
  OBVIOUS
<1>1. [f \in Fields |-> 0] \in Settings
  BY DEF Settings
<1>2. <<[f \in Fields |-> 0]>> \in Seq(Settings)
  BY <1>1
<1>. QED BY <1>1, <1>2 DEF Init, TypeOK, Steps

(* Every variable keeps its type.                                          *)
THEOREM TypeCorrect == Spec => []TypeOK
<1>2. TypeOK /\ [Next]_vars => TypeOK'
  <2>. SUFFICES ASSUME TypeOK, [Next]_vars PROVE TypeOK'
    OBVIOUS
  <2>. USE BoundsAssumption DEF TypeOK, Steps, ApplySteps
  <2>0. Handlers \subseteq Appliers /\ Watcher \in Appliers
    BY DEF Appliers
  <2>1. ASSUME NEW h \in Handlers, BeginPut(h) PROVE TypeOK'
    <3>1. PICK touched \in Patches :
            next' = [next EXCEPT ![h] = MergeSettings(cache, touched, serial + 1)]
      BY <2>1 DEF BeginPut
    <3>2. MergeSettings(cache, touched, serial + 1) \in Settings
      BY MergeSettingsType
    <3>3. next' \in [Appliers -> Settings]
      BY <3>1, <3>2
    <3>. QED BY <2>0, <2>1, <3>3 DEF BeginPut, runtimeVars, watchVars, boundVars
  <2>2. ASSUME NEW h \in Handlers, FailPut(h) PROVE TypeOK'
    BY <2>0, <2>2 DEF FailPut, storeVars, runtimeVars, watchVars, boundVars
  <2>3. ASSUME NEW h \in Handlers, CreateTemp(h) PROVE TypeOK'
    BY <2>0, <2>3 DEF CreateTemp, Notify, storeVars, runtimeVars, boundVars
  <2>4. ASSUME NEW h \in Handlers, RenameIntoPlace(h) PROVE TypeOK'
    BY <2>0, <2>4 DEF RenameIntoPlace, Notify, runtimeVars, boundVars
  <2>5. ASSUME NEW h \in Handlers, StoreCache(h) PROVE TypeOK'
    BY <2>0, <2>5 DEF StoreCache, RestartRequired, storeVars, runtimeVars, watchVars, boundVars
  <2>6. ASSUME NEW a \in Appliers, ApplyRead(a) PROVE TypeOK'
    BY <2>0, <2>6 DEF ApplyRead, storeVars, runtimeVars, watchVars, boundVars
  <2>7. ASSUME NEW a \in Appliers, ApplyStore(a) PROVE TypeOK'
    BY <2>0, <2>7, MergedType DEF ApplyStore, storeVars, watchVars, boundVars
  <2>8. ASSUME NEW a \in Appliers, ApplyCategories(a) PROVE TypeOK'
    BY <2>0, <2>8, MergedType DEF ApplyCategories, storeVars, watchVars, boundVars
  <2>9. ASSUME NEW a \in Appliers, ApplyAdblock(a) PROVE TypeOK'
    BY <2>0, <2>9, MergedType DEF ApplyAdblock, storeVars, watchVars, boundVars
  <2>10. CASE StartWatch
    BY <2>10 DEF StartWatch, storeVars, runtimeVars, boundVars
  <2>11. CASE ReceiveEvent
    BY <2>11 DEF ReceiveEvent, storeVars, runtimeVars, boundVars
  <2>12. CASE TimerFires
    BY <2>12 DEF TimerFires, storeVars, runtimeVars, boundVars
  <2>13. CASE BeginReload
    BY <2>0, <2>13 DEF BeginReload, storeVars, runtimeVars, boundVars
  <2>14. CASE EditBegins
    <3>1. /\ UNCHANGED <<disk, history, serial, cache, live, catDir, adCfg, boot,
                          timer, reload, watching, restarts, pc, next, old, pending>>
          /\ readable' \in BOOLEAN
      BY <2>14 DEF EditBegins, runtimeVars
    <3>2. events' \in Nat
      BY <2>14 DEF EditBegins, Notify
    <3>3. edits' \in Nat
      BY <2>14 DEF EditBegins
    <3>. QED BY <3>1, <3>2, <3>3
  <2>15. CASE EditEnds
    <3>1. PICK touched \in Patches :
            /\ disk' = MergeSettings(disk, touched, serial + 1)
            /\ history' = Append(history, MergeSettings(disk, touched, serial + 1))
      BY <2>15 DEF EditEnds
    <3>2. MergeSettings(disk, touched, serial + 1) \in Settings
      BY MergeSettingsType
    <3>3. disk' \in Settings /\ history' \in Seq(Settings)
      BY <3>1, <3>2
    <3>. QED BY <2>15, <3>3 DEF EditEnds, Notify, runtimeVars, boundVars
  <2>16. CASE RestartProxy
    <3>1. disk["categories_dir"] \in Nat /\ disk["adblock"] \in Nat
      BY FieldsFacts DEF Settings
    <3>2. pc' \in [Appliers -> Steps] /\ cache' \in Settings
      BY <2>0, <2>16 DEF RestartProxy
    <3>3. /\ UNCHANGED <<disk, readable, history, serial, edits, next, old, pending>>
          /\ live' = disk /\ boot' = disk
          /\ timer' \in BOOLEAN /\ reload' \in BOOLEAN /\ watching' \in BOOLEAN
      BY <2>16 DEF RestartProxy, storeVars
    <3>4. events' \in Nat /\ restarts' \in Nat /\ catDir' \in Nat /\ adCfg' \in Nat
      BY <2>16, <3>1 DEF RestartProxy
    <3>. QED BY <3>1, <3>2, <3>3, <3>4
  <2>17. CASE RestartMgmt
    BY <2>17 DEF RestartMgmt, storeVars, runtimeVars, watchVars
  <2>18. CASE UNCHANGED vars
    BY <2>18 DEF vars, storeVars, runtimeVars, watchVars, boundVars
  <2>. QED BY <2>1, <2>2, <2>3, <2>4, <2>5, <2>6, <2>7, <2>8, <2>9, <2>10, <2>11,
              <2>12, <2>13, <2>14, <2>15, <2>16, <2>17, <2>18
           DEF Next, HandlerStep, ApplyStep
<1>. QED BY TypeInit, <1>2, PTL DEF Spec

-----------------------------------------------------------------------------
(* The strengthening.  A document on its way into the snapshot is one the  *)
(* file has held; a goroutine between reading and publishing the snapshot  *)
(* has read one with the running startup-bound field; without the hook no  *)
(* handler ever applies anything.                                          *)
Held(d) == \E i \in DOMAIN history : d = history[i]

DiskHeld   == Held(disk)
NextHeld   == \A a \in Appliers : pc[a] \in {"cache"} \cup ApplySteps => Held(next[a])
OldRunning == \A a \in Appliers :
                 pc[a] \in ApplySteps \ {"read"} => old[a]["mgmt_port"] = boot["mgmt_port"]
NoHook     == ~CoLocated => \A h \in Handlers : pc[h] \notin ApplySteps

IInv == /\ TypeOK /\ LiveMatchesRunning /\ SnapshotIsOneDocument
        /\ DiskHeld /\ NextHeld /\ OldRunning /\ NoHook

LEMMA HeldAppend ==
    ASSUME TypeOK, NEW d \in Settings, history' = Append(history, d)
    PROVE  /\ \A e : Held(e) => (\E i \in DOMAIN history' : e = history'[i])
           /\ \E i \in DOMAIN history' : d = history'[i]
           /\ SnapshotIsOneDocument =>
                \E i \in DOMAIN history' : HotPart(live) = HotPart(history'[i])
<1>. history \in Seq(Settings)
  BY DEF TypeOK
<1>1. \A i \in DOMAIN history : i \in DOMAIN history' /\ history'[i] = history[i]
  OBVIOUS
<1>2. Len(history') \in DOMAIN history' /\ history'[Len(history')] = d
  OBVIOUS
<1>. QED BY <1>1, <1>2 DEF Held, SnapshotIsOneDocument

(* ApplyStore publishes a snapshot that keeps the running port and has the *)
(* hot fields of the document being applied.                               *)
LEMMA StoreFacts ==
    ASSUME IInv, NEW a \in Appliers, ApplyStore(a)
    PROVE  /\ live'["mgmt_port"] = boot["mgmt_port"]
           /\ \E i \in DOMAIN history : HotPart(live') = HotPart(history[i])
<1>1. pc[a] = "store" /\ live' = MergeHot(old[a], next[a])
  BY DEF ApplyStore, Merged
<1>2. old[a] \in Settings /\ next[a] \in Settings
  BY DEF IInv, TypeOK
<1>3. old[a]["mgmt_port"] = boot["mgmt_port"] /\ Held(next[a])
  BY <1>1 DEF IInv, OldRunning, NextHeld, ApplySteps
<1>4. HotPart(live') = HotPart(next[a]) /\ live'["mgmt_port"] = old[a]["mgmt_port"]
  BY <1>1, <1>2, MergeHotFacts
<1>. QED BY <1>3, <1>4 DEF Held

LEMMA Inductive == IInv /\ TypeOK' /\ [Next]_vars => IInv'
<1>. SUFFICES ASSUME IInv, TypeOK', [Next]_vars PROVE IInv'
  OBVIOUS
<1>. USE DEF IInv, ApplySteps
<1>0. /\ Handlers \subseteq Appliers /\ Watcher \in Appliers
      /\ Appliers = Handlers \cup {Watcher} /\ Watcher \notin Handlers
  BY HandlersAssumption DEF Appliers
<1>a. pc \in [Appliers -> Steps] /\ next \in [Appliers -> Settings] /\ old \in [Appliers -> Settings]
  BY DEF TypeOK
<1>. DEFINE Frame == UNCHANGED <<live, boot, history, disk>>
<1>b. ASSUME Frame
      PROVE  LiveMatchesRunning' /\ SnapshotIsOneDocument' /\ DiskHeld'
  BY <1>b DEF LiveMatchesRunning, SnapshotIsOneDocument, DiskHeld, Held
<1>1. ASSUME NEW h \in Handlers, BeginPut(h) PROVE IInv'
  <2>1. Frame /\ pc' = [pc EXCEPT ![h] = "temp"] /\ old' = [old EXCEPT ![h] = cache]
        /\ \A a \in Appliers \ {h} : next'[a] = next[a]
    BY <1>1, <1>0, <1>a DEF BeginPut, runtimeVars
  <2>2. NextHeld' /\ OldRunning' /\ NoHook'
    BY <1>0, <1>a, <2>1 DEF NextHeld, OldRunning, NoHook, Held
  <2>. QED BY <1>b, <2>1, <2>2
<1>2. ASSUME NEW h \in Handlers, FailPut(h) \/ CreateTemp(h) PROVE IInv'
  <2>1. /\ Frame /\ UNCHANGED <<next, old>>
        /\ \E s \in {"idle", "rename"} : pc' = [pc EXCEPT ![h] = s]
    BY <1>2 DEF FailPut, CreateTemp, storeVars, runtimeVars
  <2>2. NextHeld' /\ OldRunning' /\ NoHook'
    BY <1>0, <1>a, <2>1 DEF NextHeld, OldRunning, NoHook, Held
  <2>. QED BY <1>b, <2>1, <2>2
<1>3. ASSUME NEW h \in Handlers, RenameIntoPlace(h) PROVE IInv'
  <2>1. /\ UNCHANGED <<live, boot, next, old>> /\ pc' = [pc EXCEPT ![h] = "cache"]
        /\ disk' = next[h] /\ history' = Append(history, next[h])
    BY <1>3 DEF RenameIntoPlace, runtimeVars
  <2>2. next[h] \in Settings
    BY <1>0, <1>a
  <2>3. /\ \A e : Held(e) => (\E i \in DOMAIN history' : e = history'[i])
        /\ Held(next[h])'
        /\ SnapshotIsOneDocument'
    BY <2>1, <2>2, HeldAppend DEF Held, SnapshotIsOneDocument
  <2>4. NextHeld'
    <3>1. \A a \in Appliers : pc'[a] \in {"cache"} \cup ApplySteps
                               => a = h \/ Held(next[a])
      BY <1>0, <1>a, <2>1 DEF NextHeld
    <3>2. \A a \in Appliers : Held(next[a]) => \E i \in DOMAIN history' : next[a] = history'[i]
      BY <2>3
    <3>3. \E i \in DOMAIN history' : next[h] = history'[i]
      BY <2>1, <2>3 DEF Held
    <3>4. \A a \in Appliers : pc'[a] \in {"cache"} \cup ApplySteps
                               => \E i \in DOMAIN history' : next[a] = history'[i]
      BY <3>1, <3>2, <3>3
    <3>. QED BY <2>1, <3>4 DEF NextHeld, Held
  <2>5. OldRunning' /\ NoHook' /\ LiveMatchesRunning' /\ DiskHeld'
    BY <1>0, <1>a, <2>1, <2>3 DEF OldRunning, NoHook, LiveMatchesRunning, DiskHeld
  <2>. QED BY <2>3, <2>4, <2>5
<1>4. ASSUME NEW h \in Handlers, StoreCache(h) PROVE IInv'
  <2>1. /\ Frame /\ UNCHANGED <<next, old>> /\ pc[h] = "cache"
        /\ pc' = [pc EXCEPT ![h] = IF CoLocated THEN "read" ELSE "idle"]
    BY <1>4 DEF StoreCache, storeVars, runtimeVars
  <2>2. NextHeld' /\ OldRunning' /\ NoHook'
    BY <1>0, <1>a, <2>1 DEF NextHeld, OldRunning, NoHook, Held
  <2>. QED BY <1>b, <2>1, <2>2
<1>5. ASSUME NEW a \in Appliers, ApplyRead(a) PROVE IInv'
  <2>1. /\ Frame /\ UNCHANGED next /\ pc[a] = "read"
        /\ pc' = [pc EXCEPT ![a] = "store"] /\ old' = [old EXCEPT ![a] = live]
    BY <1>5 DEF ApplyRead, storeVars, runtimeVars
  <2>2. NextHeld' /\ OldRunning' /\ NoHook'
    BY <1>0, <1>a, <2>1 DEF NextHeld, OldRunning, NoHook, Held, LiveMatchesRunning
  <2>. QED BY <1>b, <2>1, <2>2
<1>6. ASSUME NEW a \in Appliers, ApplyStore(a) PROVE IInv'
  <2>1. /\ UNCHANGED <<boot, history, disk, next, old>> /\ pc[a] = "store"
        /\ \E s \in {"categories", "adblock"} : pc' = [pc EXCEPT ![a] = s]
    BY <1>6 DEF ApplyStore, storeVars
  <2>2. NextHeld' /\ OldRunning' /\ NoHook' /\ DiskHeld'
    BY <1>0, <1>a, <2>1 DEF NextHeld, OldRunning, NoHook, Held, DiskHeld
  <2>3. LiveMatchesRunning' /\ SnapshotIsOneDocument'
    BY <1>6, <2>1, StoreFacts DEF LiveMatchesRunning, SnapshotIsOneDocument
  <2>. QED BY <2>2, <2>3
<1>7. ASSUME NEW a \in Appliers, ApplyCategories(a) \/ ApplyAdblock(a) PROVE IInv'
  <2>1. /\ Frame /\ UNCHANGED <<next, old>> /\ pc[a] \in {"categories", "adblock"}
        /\ \E s \in {"adblock", "idle"} : pc' = [pc EXCEPT ![a] = s]
    BY <1>7 DEF ApplyCategories, ApplyAdblock, storeVars
  <2>2. NextHeld' /\ OldRunning' /\ NoHook'
    BY <1>0, <1>a, <2>1 DEF NextHeld, OldRunning, NoHook, Held
  <2>. QED BY <1>b, <2>1, <2>2
<1>8. CASE StartWatch \/ ReceiveEvent \/ TimerFires \/ EditBegins \/ UNCHANGED vars
  <2>1. Frame /\ UNCHANGED <<next, old, pc>>
    BY <1>8 DEF StartWatch, ReceiveEvent, TimerFires, EditBegins, vars, storeVars, runtimeVars
  <2>2. NextHeld' /\ OldRunning' /\ NoHook'
    BY <2>1 DEF NextHeld, OldRunning, NoHook, Held
  <2>. QED BY <1>b, <2>1, <2>2
<1>9. CASE BeginReload
  <2>1. Frame /\ UNCHANGED old
    BY <1>9 DEF BeginReload, storeVars, runtimeVars
  <2>2. CASE readable
    <3>1. /\ next' = [next EXCEPT ![Watcher] = disk] /\ pc' = [pc EXCEPT ![Watcher] = "read"]
      BY <1>9, <2>2 DEF BeginReload
    <3>2. NextHeld' /\ OldRunning' /\ NoHook'
      BY <1>0, <1>a, <2>1, <3>1 DEF NextHeld, OldRunning, NoHook, Held, DiskHeld
    <3>. QED BY <1>b, <2>1, <3>2
  <2>3. CASE ~readable
    <3>1. UNCHANGED <<next, pc>>
      BY <1>9, <2>3 DEF BeginReload
    <3>2. NextHeld' /\ OldRunning' /\ NoHook'
      BY <2>1, <3>1 DEF NextHeld, OldRunning, NoHook, Held
    <3>. QED BY <1>b, <2>1, <3>2
  <2>. QED BY <2>2, <2>3
<1>10. CASE EditEnds
  <2>1. PICK touched \in Patches :
          /\ disk' = MergeSettings(disk, touched, serial + 1)
          /\ history' = Append(history, MergeSettings(disk, touched, serial + 1))
    BY <1>10 DEF EditEnds
  <2>2. UNCHANGED <<live, boot, next, old, pc>>
    BY <1>10 DEF EditEnds, runtimeVars
  <2>3. disk' \in Settings
    BY DEF TypeOK
  <2>4. /\ \A e : Held(e) => (\E i \in DOMAIN history' : e = history'[i])
        /\ DiskHeld'
        /\ SnapshotIsOneDocument'
    BY <2>1, <2>2, <2>3, HeldAppend DEF Held, SnapshotIsOneDocument, DiskHeld
  <2>5. NextHeld' /\ OldRunning' /\ NoHook' /\ LiveMatchesRunning'
    BY <2>2, <2>4 DEF NextHeld, Held, OldRunning, NoHook, LiveMatchesRunning
  <2>. QED BY <2>4, <2>5
<1>11. CASE RestartProxy
  <2>1. live' = disk /\ boot' = disk /\ UNCHANGED <<disk, history, next, old>>
    BY <1>11 DEF RestartProxy, storeVars
  <2>2. LiveMatchesRunning' /\ SnapshotIsOneDocument' /\ DiskHeld'
    BY <2>1 DEF LiveMatchesRunning, SnapshotIsOneDocument, DiskHeld, Held
  <2>3. \A a \in Appliers : pc'[a] = "idle" \/ (~CoLocated /\ a \in Handlers /\ pc'[a] = pc[a])
    BY <1>0, <1>a, <1>11 DEF RestartProxy
  <2>4. NextHeld' /\ OldRunning' /\ NoHook'
    BY <1>0, <2>1, <2>3 DEF NextHeld, OldRunning, NoHook, Held
  <2>. QED BY <2>2, <2>4
<1>12. CASE RestartMgmt
  <2>1. Frame /\ UNCHANGED <<next, old>>
    BY <1>12 DEF RestartMgmt, storeVars, runtimeVars
  <2>2. \A a \in Appliers : pc'[a] = "idle" \/ pc'[a] = pc[a]
    BY <1>12 DEF RestartMgmt
  <2>3. NextHeld' /\ OldRunning' /\ NoHook'
    BY <1>0, <2>1, <2>2 DEF NextHeld, OldRunning, NoHook, Held
  <2>. QED BY <1>b, <2>1, <2>3
<1>. QED BY <1>1, <1>2, <1>3, <1>4, <1>5, <1>6, <1>7, <1>8, <1>9, <1>10, <1>11, <1>12
         DEF Next, HandlerStep, ApplyStep

LEMMA InvCorrect == Spec => []IInv
<1>1. Init => IInv
  <2>. SUFFICES ASSUME Init PROVE IInv
    OBVIOUS
  <2>1. TypeOK
    BY TypeInit
  <2>2. history = <<disk>> /\ live = disk /\ boot = disk /\ \A a \in Appliers : pc[a] = "idle"
    BY DEF Init
  <2>3. 1 \in DOMAIN history /\ history[1] = disk
    BY <2>2
  <2>4. DiskHeld /\ SnapshotIsOneDocument /\ LiveMatchesRunning
    BY <2>2, <2>3 DEF DiskHeld, Held, SnapshotIsOneDocument, LiveMatchesRunning
  <2>5. NextHeld /\ OldRunning /\ NoHook
    BY <2>2 DEF NextHeld, OldRunning, NoHook, ApplySteps, Appliers
  <2>. QED BY <2>1, <2>4, <2>5 DEF IInv
<1>. QED BY <1>1, Inductive, TypeCorrect, PTL DEF Spec

(* "The live snapshot must never contradict what is actually running", for *)
(* any number of handlers, saves, edits and restarts.                      *)
THEOREM LiveMatchesRunningAlways == Spec => []LiveMatchesRunning
<1>1. IInv => LiveMatchesRunning
  BY DEF IInv
<1>. QED BY <1>1, InvCorrect, PTL

(* No interleaving of ApplySettings calls publishes a mixture of two saves. *)
THEOREM SnapshotNeverTorn == Spec => []SnapshotIsOneDocument
<1>1. IInv => SnapshotIsOneDocument
  BY DEF IInv
<1>. QED BY <1>1, InvCorrect, PTL

(* The snapshot is sound: startup-bound fields frozen, hot fields of one   *)
(* document.                                                               *)
THEOREM SnapshotSoundAlways == Spec => []SnapshotSound
BY LiveMatchesRunningAlways, SnapshotNeverTorn, PTL DEF SnapshotSound

-----------------------------------------------------------------------------
(* The split deployment implements Follower: besides IInv, the file is the *)
(* newest document, and what the watcher is about to apply is no older     *)
(* than what is in effect.                                                 *)
Ordered ==
    /\ Len(history) > 0 /\ disk = history[Len(history)]
    /\ pc[Watcher] \in {"read", "store"} =>
          \E i \in DOMAIN history : \E j \in i..Len(history) :
              HotPart(live) = HotPart(history[i]) /\ next[Watcher] = history[j]

HotHistory == [i \in DOMAIN history |-> HotPart(history[i])]

(* A save appends to the history and leaves what is in effect alone.       *)
LEMMA SaveStep ==
    ASSUME IInv, Ordered, NEW d \in Settings, history' = Append(history, d), disk' = d,
           UNCHANGED live, pc'[Watcher] = pc[Watcher], next'[Watcher] = next[Watcher]
    PROVE  Ordered' /\ File!Save
<1>1. history \in Seq(Settings)
  BY DEF IInv, TypeOK
<1>2. /\ Len(history') = Len(history) + 1 /\ DOMAIN history' = 1..(Len(history) + 1)
      /\ DOMAIN history = 1..Len(history) /\ Len(history) \in Nat
      /\ \A i \in DOMAIN history : history'[i] = history[i]
      /\ history'[Len(history) + 1] = d
  BY <1>1
<1>3. Ordered'
  <2>1. ASSUME pc[Watcher] \in {"read", "store"}
        PROVE  \E i \in DOMAIN history' : \E j \in i..Len(history') :
                   HotPart(live) = HotPart(history'[i]) /\ next[Watcher] = history'[j]
    <3>1. PICK i \in DOMAIN history : \E j \in i..Len(history) :
              HotPart(live) = HotPart(history[i]) /\ next[Watcher] = history[j]
      BY <2>1 DEF Ordered
    <3>4. PICK j \in i..Len(history) :
              HotPart(live) = HotPart(history[i]) /\ next[Watcher] = history[j]
      BY <3>1
    <3>2. i \in DOMAIN history' /\ j \in i..Len(history') /\ j \in DOMAIN history
      BY <1>2
    <3>. QED BY <1>2, <3>4, <3>2
  <2>. QED BY <1>2, <2>1 DEF Ordered
<1>4. /\ Len(HotHistory') = Len(HotHistory) + 1
      /\ \A i \in DOMAIN HotHistory : HotHistory'[i] = HotHistory[i]
  <2>1. /\ DOMAIN HotHistory = 1..Len(history) /\ DOMAIN HotHistory' = 1..(Len(history) + 1)
        /\ \A i \in DOMAIN history : HotHistory[i] = HotPart(history[i])
        /\ \A i \in DOMAIN history' : HotHistory'[i] = HotPart(history'[i])
    BY <1>2 DEF HotHistory
  <2>2. HotHistory \in Seq({HotPart(e) : e \in Settings}) /\ HotHistory' \in Seq({HotPart(e) : e \in Settings})
    BY <1>1, <1>2, <2>1 DEF HotHistory
  <2>3. Len(HotHistory) = Len(history) /\ Len(HotHistory') = Len(history) + 1
    BY <1>2, <2>1, <2>2
  <2>4. ASSUME NEW i \in DOMAIN HotHistory PROVE HotHistory'[i] = HotHistory[i]
    BY <1>2, <2>1
  <2>. QED BY <2>3, <2>4
<1>5. HotPart(live') = HotPart(live)
  OBVIOUS
<1>. QED BY <1>3, <1>4, <1>5 DEF File!Save, HotHistory

(* What is in effect moves on to a later document of the history.          *)
LEMMA AdoptStep ==
    ASSUME IInv, UNCHANGED history,
           NEW i \in DOMAIN history, NEW j \in i..Len(history),
           HotPart(live) = HotPart(history[i]), HotPart(live') = HotPart(history[j])
    PROVE  File!Adopt
<1>1. history \in Seq(Settings)
  BY DEF IInv, TypeOK
<1>2. DOMAIN HotHistory = DOMAIN history /\ j \in DOMAIN history
  BY <1>1 DEF HotHistory
<1>3. Len(HotHistory) = Len(history)
  <2>1. HotHistory \in Seq({HotPart(e) : e \in Settings})
    BY <1>1 DEF HotHistory
  <2>. QED BY <1>1, <2>1 DEF HotHistory
<1>4. HotHistory[i] = HotPart(history[i]) /\ HotHistory[j] = HotPart(history[j])
  BY <1>2 DEF HotHistory
<1>5. i \in DOMAIN HotHistory /\ j \in i..Len(HotHistory)
  BY <1>2, <1>3
<1>6. HotHistory' = HotHistory
  BY DEF HotHistory
<1>. QED BY <1>4, <1>5, <1>6 DEF File!Adopt, HotHistory

(* Every step of the split deployment keeps the order, and is a step of    *)
(* Follower or leaves history and hot settings alone.                      *)
LEMMA SplitStep ==
    ASSUME CoLocated = FALSE, IInv, TypeOK', Ordered, [Next]_vars
    PROVE  Ordered' /\ [File!Next]_<<HotHistory, HotPart(live)>>
<1>0. /\ Handlers \subseteq Appliers /\ Watcher \in Appliers
      /\ Appliers = Handlers \cup {Watcher} /\ Watcher \notin Handlers
  BY HandlersAssumption DEF Appliers
<1>a. /\ pc \in [Appliers -> Steps] /\ next \in [Appliers -> Settings]
      /\ old \in [Appliers -> Settings] /\ history \in Seq(Settings)
  BY DEF IInv, TypeOK
<1>b. ASSUME NEW h \in Handlers PROVE pc[h] \notin {"read", "store", "categories", "adblock"}
  BY <1>0 DEF IInv, NoHook, ApplySteps
<1>. DEFINE Same == UNCHANGED <<history, disk, live>>
<1>c. ASSUME Same PROVE HotHistory' = HotHistory /\ HotPart(live') = HotPart(live)
  BY <1>c DEF HotHistory
<1>d. ASSUME Same, pc'[Watcher] = pc[Watcher], next'[Watcher] = next[Watcher] PROVE Ordered'
  BY <1>d DEF Ordered
<1>e. ASSUME Same, pc'[Watcher] \notin {"read", "store"} PROVE Ordered'
  BY <1>e DEF Ordered
<1>1. ASSUME NEW h \in Handlers,
             BeginPut(h) \/ FailPut(h) \/ CreateTemp(h) \/ StoreCache(h)
      PROVE  Ordered' /\ [File!Next]_<<HotHistory, HotPart(live)>>
  <2>1. Same
    BY <1>1 DEF BeginPut, FailPut, CreateTemp, StoreCache, storeVars, runtimeVars
  <2>2. pc'[Watcher] = pc[Watcher] /\ next'[Watcher] = next[Watcher]
    BY <1>0, <1>a, <1>1 DEF BeginPut, FailPut, CreateTemp, StoreCache
  <2>. QED BY <1>c, <1>d, <2>1, <2>2
<1>2. ASSUME NEW h \in Handlers, RenameIntoPlace(h)
      PROVE  Ordered' /\ [File!Next]_<<HotHistory, HotPart(live)>>
  <2>1. /\ history' = Append(history, next[h]) /\ disk' = next[h] /\ next[h] \in Settings
        /\ UNCHANGED live /\ pc'[Watcher] = pc[Watcher] /\ next'[Watcher] = next[Watcher]
    BY <1>0, <1>a, <1>2 DEF RenameIntoPlace, runtimeVars
  <2>2. Ordered' /\ File!Save
    BY <2>1, SaveStep
  <2>. QED BY <2>2 DEF File!Next
<1>3. ASSUME NEW h \in Handlers PROVE ~ApplyStep(h)
  BY <1>b, <1>3 DEF ApplyStep, ApplyRead, ApplyStore, ApplyCategories, ApplyAdblock
<1>4. CASE ApplyRead(Watcher)
  <2>1. Same /\ next' = next /\ pc[Watcher] = "read"
    BY <1>4 DEF ApplyRead, storeVars, runtimeVars
  <2>2. Ordered'
    BY <2>1 DEF Ordered
  <2>. QED BY <1>c, <2>1, <2>2
<1>5. CASE ApplyStore(Watcher)
  <2>1. /\ pc[Watcher] = "store" /\ live' = MergeHot(old[Watcher], next[Watcher])
        /\ UNCHANGED <<history, disk>>
    BY <1>5 DEF ApplyStore, Merged, storeVars
  <2>2. HotPart(live') = HotPart(next[Watcher])
    BY <1>0, <1>a, <2>1, MergeHotFacts
  <2>3. PICK i \in DOMAIN history : \E j \in i..Len(history) :
            HotPart(live) = HotPart(history[i]) /\ next[Watcher] = history[j]
    BY <2>1 DEF Ordered
  <2>4. PICK j \in i..Len(history) :
            HotPart(live) = HotPart(history[i]) /\ next[Watcher] = history[j]
    BY <2>3
  <2>5. File!Adopt
    BY <2>1, <2>2, <2>4, AdoptStep
  <2>6. pc'[Watcher] \notin {"read", "store"}
    BY <1>0, <1>a, <1>5 DEF ApplyStore
  <2>7. Ordered'
    BY <2>1, <2>6 DEF Ordered
  <2>. QED BY <2>5, <2>7 DEF File!Next
<1>6. CASE ApplyCategories(Watcher) \/ ApplyAdblock(Watcher)
  <2>1. Same
    BY <1>6 DEF ApplyCategories, ApplyAdblock, storeVars
  <2>2. pc'[Watcher] \notin {"read", "store"}
    BY <1>0, <1>a, <1>6 DEF ApplyCategories, ApplyAdblock
  <2>. QED BY <1>c, <1>e, <2>1, <2>2
<1>7. CASE StartWatch \/ ReceiveEvent \/ TimerFires \/ EditBegins \/ UNCHANGED vars
  <2>1. Same /\ UNCHANGED <<pc, next>>
    BY <1>7 DEF StartWatch, ReceiveEvent, TimerFires, EditBegins, vars, storeVars, runtimeVars
  <2>. QED BY <1>c, <1>d, <2>1
<1>8. CASE BeginReload
  <2>1. Same
    BY <1>8 DEF BeginReload, storeVars, runtimeVars
  <2>2. CASE readable
    <3>1. next'[Watcher] = disk
      BY <1>0, <1>a, <1>8, <2>2 DEF BeginReload
    <3>2. PICK i \in DOMAIN history : HotPart(live) = HotPart(history[i])
      BY DEF IInv, SnapshotIsOneDocument
    <3>3. Len(history) \in i..Len(history)
      BY <1>a
    <3>4. next'[Watcher] = history[Len(history)]
      BY <3>1 DEF Ordered
    <3>5. Ordered'
      BY <2>1, <3>2, <3>3, <3>4 DEF Ordered
    <3>. QED BY <1>c, <2>1, <3>5
  <2>3. CASE ~readable
    <3>1. UNCHANGED <<next, pc>>
      BY <1>8, <2>3 DEF BeginReload
    <3>. QED BY <1>c, <1>d, <2>1, <3>1
  <2>. QED BY <2>2, <2>3
<1>9. CASE EditEnds
  <2>1. PICK touched \in Patches :
          /\ disk' = MergeSettings(disk, touched, serial + 1)
          /\ history' = Append(history, MergeSettings(disk, touched, serial + 1))
    BY <1>9 DEF EditEnds
  <2>2. UNCHANGED <<live, pc, next>>
    BY <1>9 DEF EditEnds, runtimeVars
  <2>3. disk' \in Settings
    BY DEF TypeOK
  <2>4. Ordered' /\ File!Save
    BY <2>1, <2>2, <2>3, SaveStep
  <2>. QED BY <2>4 DEF File!Next
<1>10. CASE RestartProxy
  <2>1. live' = disk /\ UNCHANGED <<disk, history>>
    BY <1>10 DEF RestartProxy, storeVars
  <2>2. PICK i \in DOMAIN history : HotPart(live) = HotPart(history[i])
    BY DEF IInv, SnapshotIsOneDocument
  <2>3. Len(history) \in i..Len(history) /\ HotPart(live') = HotPart(history[Len(history)])
    BY <1>a, <2>1 DEF Ordered
  <2>4. File!Adopt
    BY <2>1, <2>2, <2>3, AdoptStep
  <2>5. pc'[Watcher] = "idle"
    BY <1>0, <1>a, <1>10 DEF RestartProxy
  <2>6. Ordered'
    BY <2>1, <2>5 DEF Ordered
  <2>. QED BY <2>4, <2>6 DEF File!Next
<1>11. CASE RestartMgmt
  <2>1. Same /\ UNCHANGED next
    BY <1>11 DEF RestartMgmt, storeVars, runtimeVars
  <2>2. pc'[Watcher] = pc[Watcher]
    BY <1>0, <1>11 DEF RestartMgmt
  <2>. QED BY <1>c, <1>d, <2>1, <2>2
<1>. QED BY <1>0, <1>1, <1>2, <1>3, <1>4, <1>5, <1>6, <1>7, <1>8, <1>9, <1>10, <1>11
         DEF Next, HandlerStep, ApplyStep

(* Where the proxy runs apart from the management server, the proxy's hot  *)
(* settings follow the file as Follower's safety part says, for any number *)
(* of handlers, saves, edits and restarts.                                 *)
THEOREM FollowsFileSafely == ASSUME CoLocated = FALSE PROVE Spec => File!Safety
<1>1. Init => Ordered /\ File!Init
  <2>. SUFFICES ASSUME Init PROVE Ordered /\ File!Init
    OBVIOUS
  <2>1. history = <<disk>> /\ live = disk /\ pc[Watcher] = "idle"
    BY DEF Init, Appliers
  <2>2. Ordered
    BY <2>1 DEF Ordered
  <2>3. HotHistory = <<HotPart(live)>>
    BY <2>1 DEF HotHistory
  <2>. QED BY <2>2, <2>3 DEF File!Init, HotHistory
<1>2. IInv /\ TypeOK' /\ Ordered /\ [Next]_vars
        => Ordered' /\ [File!Next]_<<HotHistory, HotPart(live)>>
  BY SplitStep
<1>. QED BY <1>1, <1>2, InvCorrect, TypeCorrect, PTL DEF Spec, File!Safety, HotHistory
-----------------------------------------------------------------------------
(* Quiet means applied.  A saved document the proxy has not applied yet is *)
(* always on its way: an event is queued, the timer runs, a reload waits,  *)
(* an editor is still writing, or the watcher is applying that document.   *)
(* The last event's timer cannot fire between a PUT's rename and its end   *)
(* (Prompt), so no handler's ApplySettings can still overwrite what the    *)
(* watcher's reload, the last one, puts into effect.                       *)
Noticed == events > 0 \/ timer
Due     == Noticed \/ reload \/ ~readable

BeforeWatch == ~watching => AllIdle /\ ~Due
WatcherOnlyApplies == pc[Watcher] \in {"idle"} \cup ApplySteps
LateNoticed == \A h \in Handlers : pc[h] \in {"cache"} \cup ApplySteps => Noticed

HotApplied == HotPart(live) = HotPart(disk)
Catching ==
    \/ Due
    \/ pc[Watcher] = "idle" /\ HotApplied /\ adCfg = disk["adblock"]
    \/ pc[Watcher] \in {"read", "store"} /\ next[Watcher] = disk
    \/ pc[Watcher] \in {"categories", "adblock"} /\ next[Watcher] = disk /\ HotApplied

QInv == /\ TypeOK /\ BeforeWatch /\ WatcherOnlyApplies /\ LateNoticed /\ Catching

LEMMA QuietInductive ==
    ASSUME Prompt, QuietStart, QInv, TypeOK', [Next]_vars
    PROVE  QInv'
<1>0. /\ Handlers \subseteq Appliers /\ Watcher \in Appliers
      /\ Appliers = Handlers \cup {Watcher} /\ Watcher \notin Handlers
  BY HandlersAssumption DEF Appliers
<1>a. /\ pc \in [Appliers -> Steps] /\ next \in [Appliers -> Settings]
      /\ old \in [Appliers -> Settings] /\ events \in Nat /\ disk \in Settings
      /\ readable \in BOOLEAN /\ timer \in BOOLEAN /\ reload \in BOOLEAN /\ watching \in BOOLEAN
  BY DEF QInv, TypeOK
<1>b. /\ BeforeWatch /\ WatcherOnlyApplies /\ LateNoticed /\ Catching /\ TypeOK'
  BY DEF QInv
<1>c. ASSUME NEW h \in Handlers, pc[h] # "idle" PROVE watching
  BY <1>0, <1>b, <1>c DEF BeforeWatch, AllIdle
(* A step of a handler that changes nothing but its own state.             *)
<1>d. ASSUME NEW h \in Handlers, NEW s \in Steps, pc' = [pc EXCEPT ![h] = s],
             watching \/ s = "idle",
             s \in {"cache"} \cup ApplySteps => pc[h] \in {"cache"} \cup ApplySteps,
             next'[Watcher] = next[Watcher],
             UNCHANGED <<disk, readable, live, adCfg, events, timer, reload, watching>>
      PROVE  QInv'
  <2>1. pc'[Watcher] = pc[Watcher] /\ \A g \in Handlers : g = h \/ pc'[g] = pc[g]
    BY <1>0, <1>a, <1>d
  <2>2. BeforeWatch'
    BY <1>0, <1>a, <1>b, <1>d DEF BeforeWatch, AllIdle, Due, Noticed
  <2>3. LateNoticed'
    BY <1>0, <1>a, <1>b, <1>d DEF LateNoticed, Noticed
  <2>4. WatcherOnlyApplies' /\ Catching'
    BY <1>b, <1>d, <2>1 DEF WatcherOnlyApplies, Catching, Due, Noticed, HotApplied
  <2>. QED BY <1>b, <2>2, <2>3, <2>4 DEF QInv
(* A change of the file or of its directory while the watch is registered. *)
<1>e. ASSUME watching, watching', events' = events + 1, UNCHANGED <<timer, reload>>,
             pc'[Watcher] = pc[Watcher]
      PROVE  QInv'
  <2>1. Noticed'
    BY <1>a, <1>e DEF Noticed
  <2>. QED BY <1>b, <1>e, <2>1
       DEF QInv, BeforeWatch, LateNoticed, WatcherOnlyApplies, Catching, Due
<1>1. ASSUME NEW h \in Handlers, BeginPut(h) PROVE QInv'
  <2>1. /\ pc' = [pc EXCEPT ![h] = "temp"] /\ watching
        /\ UNCHANGED <<disk, readable, live, adCfg, events, timer, reload, watching>>
    BY <1>1 DEF BeginPut, WritersMayWrite, runtimeVars, watchVars
  <2>2. next'[Watcher] = next[Watcher]
    BY <1>0, <1>1, <1>a DEF BeginPut
  <2>. QED BY <1>d, <2>1, <2>2 DEF Steps, ApplySteps
<1>2. ASSUME NEW h \in Handlers, FailPut(h) PROVE QInv'
  <2>1. /\ pc' = [pc EXCEPT ![h] = "idle"] /\ next' = next
        /\ UNCHANGED <<disk, readable, live, adCfg, events, timer, reload, watching>>
    BY <1>2 DEF FailPut, storeVars, runtimeVars, watchVars
  <2>. QED BY <1>d, <2>1 DEF Steps, ApplySteps
<1>3. ASSUME NEW h \in Handlers, CreateTemp(h) \/ RenameIntoPlace(h) PROVE QInv'
  <2>1. watching
    BY <1>3, <1>c DEF CreateTemp, RenameIntoPlace
  <2>2. events' = events + 1 /\ UNCHANGED <<timer, reload, watching>>
    BY <1>3, <2>1 DEF CreateTemp, RenameIntoPlace, Notify
  <2>3. pc'[Watcher] = pc[Watcher]
    BY <1>0, <1>a, <1>3 DEF CreateTemp, RenameIntoPlace
  <2>. QED BY <1>e, <2>1, <2>2, <2>3
<1>4. ASSUME NEW h \in Handlers, StoreCache(h) PROVE QInv'
  <2>1. /\ pc[h] = "cache" /\ next' = next
        /\ \E s \in {"read", "idle"} : pc' = [pc EXCEPT ![h] = s]
        /\ UNCHANGED <<disk, readable, live, adCfg, events, timer, reload, watching>>
    BY <1>4 DEF StoreCache, storeVars, runtimeVars, watchVars
  <2>2. watching
    BY <1>c, <2>1
  <2>. QED BY <1>d, <2>1, <2>2 DEF Steps, ApplySteps
<1>5. ASSUME NEW h \in Handlers, ApplyStep(h) PROVE QInv'
  <2>1. /\ pc[h] \in ApplySteps
        /\ next' = next /\ UNCHANGED <<disk, readable, events, timer, reload, watching>>
        /\ \E s \in {"idle"} \cup ApplySteps : pc' = [pc EXCEPT ![h] = s]
    BY <1>5 DEF ApplyStep, ApplyRead, ApplyStore, ApplyCategories, ApplyAdblock,
                ApplySteps, storeVars, runtimeVars, watchVars
  <2>2. Noticed /\ watching
    BY <1>b, <1>c, <2>1 DEF LateNoticed, ApplySteps
  <2>3. Noticed'
    BY <2>1, <2>2 DEF Noticed
  <2>4. pc'[Watcher] = pc[Watcher]
    BY <1>0, <1>a, <2>1
  <2>. QED BY <1>b, <2>1, <2>2, <2>3, <2>4
       DEF QInv, BeforeWatch, LateNoticed, WatcherOnlyApplies, Catching, Due
(* The watcher's own steps: its document is the file's, unless more is due. *)
<1>f. ASSUME UNCHANGED <<disk, readable, events, timer, reload, watching>>,
             \A h \in Handlers : pc'[h] = pc[h], pc[Watcher] # "idle",
             WatcherOnlyApplies', Due \/ Catching'
      PROVE  QInv'
  <2>1. watching
    BY <1>0, <1>b, <1>f DEF BeforeWatch, AllIdle
  <2>2. BeforeWatch' /\ LateNoticed' /\ Catching'
    BY <1>b, <1>f, <2>1 DEF BeforeWatch, LateNoticed, Catching, Due, Noticed
  <2>. QED BY <1>b, <1>f, <2>2 DEF QInv
<1>6. CASE ApplyRead(Watcher)
  <2>1. /\ pc[Watcher] = "read" /\ pc' = [pc EXCEPT ![Watcher] = "store"] /\ next' = next
        /\ UNCHANGED <<disk, readable, events, timer, reload, watching>>
    BY <1>6 DEF ApplyRead, storeVars, watchVars
  <2>2. pc'[Watcher] = "store" /\ \A h \in Handlers : pc'[h] = pc[h]
    BY <1>0, <1>a, <2>1
  <2>3. WatcherOnlyApplies' /\ (Due \/ Catching')
    BY <1>b, <2>1, <2>2 DEF WatcherOnlyApplies, Catching, ApplySteps
  <2>. QED BY <1>f, <2>1, <2>2, <2>3
<1>7. CASE ApplyStore(Watcher)
  <2>1. /\ pc[Watcher] = "store" /\ next' = next /\ live' = MergeHot(old[Watcher], next[Watcher])
        /\ \E s \in {"categories", "adblock"} : pc' = [pc EXCEPT ![Watcher] = s]
        /\ UNCHANGED <<disk, readable, events, timer, reload, watching>>
    BY <1>7 DEF ApplyStore, Merged, storeVars, watchVars
  <2>2. pc'[Watcher] \in {"categories", "adblock"} /\ \A h \in Handlers : pc'[h] = pc[h]
    BY <1>0, <1>a, <2>1
  <2>3. HotPart(live') = HotPart(next[Watcher])
    BY <1>0, <1>a, <2>1, MergeHotFacts
  <2>4. Due \/ next[Watcher] = disk
    BY <1>b, <2>1 DEF Catching
  <2>5. WatcherOnlyApplies' /\ (Due \/ Catching')
    BY <2>1, <2>2, <2>3, <2>4 DEF WatcherOnlyApplies, Catching, ApplySteps, HotApplied
  <2>. QED BY <1>f, <2>1, <2>2, <2>5
<1>8. CASE ApplyCategories(Watcher)
  <2>1. /\ pc[Watcher] = "categories" /\ next' = next /\ live' = live
        /\ pc' = [pc EXCEPT ![Watcher] = "adblock"]
        /\ UNCHANGED <<disk, readable, events, timer, reload, watching>>
    BY <1>8 DEF ApplyCategories, storeVars, watchVars
  <2>2. pc'[Watcher] = "adblock" /\ \A h \in Handlers : pc'[h] = pc[h]
    BY <1>0, <1>a, <2>1
  <2>3. WatcherOnlyApplies' /\ (Due \/ Catching')
    BY <1>b, <2>1, <2>2 DEF WatcherOnlyApplies, Catching, ApplySteps, HotApplied
  <2>. QED BY <1>f, <2>1, <2>2, <2>3
<1>9. CASE ApplyAdblock(Watcher)
  <2>1. /\ pc[Watcher] = "adblock" /\ next' = next /\ live' = live
        /\ adCfg' = MergeHot(old[Watcher], next[Watcher])["adblock"]
        /\ pc' = [pc EXCEPT ![Watcher] = "idle"]
        /\ UNCHANGED <<disk, readable, events, timer, reload, watching>>
    BY <1>9 DEF ApplyAdblock, Merged, storeVars, watchVars
  <2>2. pc'[Watcher] = "idle" /\ \A h \in Handlers : pc'[h] = pc[h]
    BY <1>0, <1>a, <2>1
  <2>3. adCfg' = next[Watcher]["adblock"]
    BY <2>1, FieldsFacts DEF MergeHot
  <2>4. WatcherOnlyApplies' /\ (Due \/ Catching')
    BY <1>b, <2>1, <2>2, <2>3 DEF WatcherOnlyApplies, Catching, HotApplied
  <2>. QED BY <1>f, <2>1, <2>2, <2>4
<1>10. CASE StartWatch
  <2>1. /\ watching' = TRUE /\ ~watching
        /\ UNCHANGED <<disk, readable, live, adCfg, events, timer, reload, pc, next>>
    BY <1>10 DEF StartWatch, storeVars, runtimeVars
  <2>. QED BY <1>b, <2>1
       DEF QInv, BeforeWatch, LateNoticed, WatcherOnlyApplies, Catching, Due, Noticed, HotApplied
<1>11. CASE ReceiveEvent
  <2>1. /\ pc[Watcher] = "idle" /\ events > 0 /\ timer' = TRUE
        /\ UNCHANGED <<watching, pc>>
    BY <1>11 DEF ReceiveEvent
  <2>2. watching
    BY <1>b, <2>1 DEF BeforeWatch, Due, Noticed
  <2>. QED BY <1>b, <2>1, <2>2
       DEF QInv, BeforeWatch, LateNoticed, WatcherOnlyApplies, Catching, Due, Noticed
<1>12. CASE TimerFires
  <2>1. /\ timer /\ reload' = TRUE /\ UNCHANGED <<watching, pc>>
        /\ events' = events
        /\ events > 0 \/ \A h \in Handlers : pc[h] \notin {"cache"} \cup ApplySteps
    BY <1>12 DEF TimerFires
  <2>2. watching
    BY <1>b, <2>1 DEF BeforeWatch, Due, Noticed
  <2>3. LateNoticed'
    BY <2>1 DEF LateNoticed, Noticed
  <2>. QED BY <1>b, <2>1, <2>2, <2>3
       DEF QInv, BeforeWatch, WatcherOnlyApplies, Catching, Due
<1>13. CASE BeginReload
  <2>1. /\ pc[Watcher] = "idle" /\ reload
        /\ UNCHANGED <<disk, readable, live, adCfg, events, timer, watching>>
    BY <1>13 DEF BeginReload, storeVars, runtimeVars
  <2>2. watching
    BY <1>b, <2>1 DEF BeforeWatch, Due
  <2>3. CASE readable
    <3>1. /\ next' = [next EXCEPT ![Watcher] = disk] /\ pc' = [pc EXCEPT ![Watcher] = "read"]
      BY <1>13, <2>3 DEF BeginReload
    <3>2. /\ next'[Watcher] = disk /\ pc'[Watcher] = "read" /\ \A h \in Handlers : pc'[h] = pc[h]
      BY <1>0, <1>a, <3>1
    <3>. QED BY <1>b, <2>1, <2>2, <3>2
         DEF QInv, BeforeWatch, LateNoticed, WatcherOnlyApplies, Catching, Noticed, ApplySteps
  <2>4. CASE ~readable
    <3>1. UNCHANGED <<next, pc>>
      BY <1>13, <2>4 DEF BeginReload
    <3>. QED BY <1>b, <2>1, <2>2, <2>4, <3>1
         DEF QInv, BeforeWatch, LateNoticed, WatcherOnlyApplies, Catching, Due, Noticed
  <2>. QED BY <2>3, <2>4
<1>14. CASE EditBegins \/ EditEnds
  <2>1. watching
    BY <1>14, <1>b DEF EditBegins, EditEnds, WritersMayWrite, BeforeWatch, Due
  <2>2. events' = events + 1 /\ UNCHANGED <<timer, reload, watching, pc>>
    BY <1>14, <2>1 DEF EditBegins, EditEnds, Notify
  <2>. QED BY <1>e, <2>1, <2>2
<1>15. CASE RestartProxy
  <2>1. /\ live' = disk /\ adCfg' = disk["adblock"] /\ UNCHANGED <<disk, readable>> /\ readable
        /\ events' = 0 /\ timer' = FALSE /\ reload' = FALSE
    BY <1>15 DEF RestartProxy, storeVars
  <2>2. \A a \in Appliers : pc'[a] = "idle"
    <3>1. CASE CoLocated
      BY <1>15, <3>1 DEF RestartProxy
    <3>2. CASE ~CoLocated
      <4>1. pc' = [pc EXCEPT ![Watcher] = "idle"] /\ \A h \in Handlers : pc[h] = "idle"
        BY <1>15, <3>2 DEF RestartProxy
      <4>. QED BY <1>0, <1>a, <4>1
    <3>. QED BY <3>1, <3>2
  <2>. QED BY <1>0, <1>b, <2>1, <2>2
       DEF QInv, BeforeWatch, AllIdle, LateNoticed, WatcherOnlyApplies, Catching, Due, Noticed,
           HotApplied, ApplySteps
<1>16. CASE RestartMgmt
  <2>1. /\ \A h \in Handlers : pc'[h] = "idle"
        /\ pc'[Watcher] = pc[Watcher] /\ next' = next
        /\ UNCHANGED <<disk, readable, live, adCfg, events, timer, reload, watching>>
    BY <1>0, <1>16 DEF RestartMgmt, storeVars, runtimeVars, watchVars
  <2>2. BeforeWatch'
    BY <1>0, <1>b, <2>1 DEF BeforeWatch, AllIdle, Due, Noticed
  <2>. QED BY <1>b, <2>1, <2>2
       DEF QInv, LateNoticed, WatcherOnlyApplies, Catching, Due, Noticed, HotApplied, ApplySteps
<1>17. CASE UNCHANGED vars
  <2>1. UNCHANGED <<disk, readable, live, adCfg, events, timer, reload, watching, pc, next>>
    BY <1>17 DEF vars, storeVars, runtimeVars, watchVars
  <2>. QED BY <1>b, <2>1
       DEF QInv, BeforeWatch, AllIdle, LateNoticed, WatcherOnlyApplies, Catching, Due, Noticed,
           HotApplied
<1>. QED BY <1>0, <1>1, <1>2, <1>3, <1>4, <1>5, <1>6, <1>7, <1>8, <1>9, <1>10, <1>11, <1>12,
            <1>13, <1>14, <1>15, <1>16, <1>17
         DEF Next, HandlerStep, ApplyStep

(* Once everybody is idle and no event is outstanding, what is in effect   *)
(* is what the file says: for any number of overlapping PUTs, manual edits *)
(* and restarts, in one process or two, when no PUT outlasts the debounce  *)
(* interval and nobody writes between a startup's load and its watch.      *)
THEOREM QuietMeansAppliedAlways ==
    ASSUME Prompt, QuietStart PROVE Spec => []QuietMeansApplied
<1>0. Watcher \in Appliers
  BY DEF Appliers
<1>1. Init => QInv
  <2>. SUFFICES ASSUME Init PROVE QInv
    OBVIOUS
  <2>1. /\ live = disk /\ adCfg = 0 /\ disk = [f \in Fields |-> 0] /\ readable
        /\ events = 0 /\ ~timer /\ ~reload /\ \A a \in Appliers : pc[a] = "idle"
    BY DEF Init
  <2>2. adCfg = disk["adblock"] /\ HotApplied
    BY <2>1, FieldsFacts DEF HotApplied
  <2>3. BeforeWatch /\ WatcherOnlyApplies /\ Catching
    BY <1>0, <2>1, <2>2 DEF BeforeWatch, AllIdle, WatcherOnlyApplies, Catching, Due, Noticed
  <2>4. LateNoticed
    BY <2>1 DEF LateNoticed, ApplySteps, Appliers
  <2>. QED BY <2>3, <2>4, TypeInit DEF QInv
<1>2. QInv /\ TypeOK' /\ [Next]_vars => QInv'
  BY QuietInductive
<1>3. QInv => QuietMeansApplied
  BY <1>0 DEF QInv, QuietMeansApplied, Quiet, AllIdle, Catching, Due, Noticed, HotApplied
<1>. QED BY <1>1, <1>2, <1>3, TypeCorrect, PTL DEF Spec
-----------------------------------------------------------------------------
(* One PUT at a time.  Nothing below holds with two handlers (their writes *)
(* of the file and of the cache may cross), or once the file was edited by *)
(* hand, so both are hypotheses.  The document a PUT writes was merged     *)
(* into the cache, which was the file then and still is.                   *)
OnePut == \A h1, h2 \in Handlers : h1 = h2

FileCached ==
    /\ readable
    /\ \A f \in Fields : disk[f] <= serial
    /\ (\A h \in Handlers : pc[h] # "cache") => cache = disk
    /\ \A h \in Handlers :
          /\ pc[h] = "cache" => next[h] = disk
          /\ pc[h] \in {"temp", "rename"} =>
                \A f \in Fields : disk[f] <= next[h][f] /\ next[h][f] <= serial
WInv == TypeOK /\ (edits = 0 => FileCached)

LEMMA MergeSettingsOrder ==
    ASSUME NEW cur \in Settings, NEW touched, NEW n \in Nat, \A f \in Fields : cur[f] <= n
    PROVE  \A f \in Fields : /\ cur[f] <= MergeSettings(cur, touched, n + 1)[f]
                             /\ MergeSettings(cur, touched, n + 1)[f] <= n + 1
<1>. TAKE f \in Fields
<1>1. MergeSettings(cur, touched, n + 1)[f] = IF f \in touched THEN n + 1 ELSE cur[f]
  BY DEF MergeSettings
<1>2. cur[f] \in Nat /\ cur[f] <= n
  BY DEF Settings
<1>. QED BY <1>1, <1>2

LEMMA OnePutInductive ==
    ASSUME OnePut, WInv, TypeOK', [Next]_vars
    PROVE  WInv'
<1>0. /\ Handlers \subseteq Appliers /\ Watcher \in Appliers
      /\ Appliers = Handlers \cup {Watcher} /\ Watcher \notin Handlers
  BY HandlersAssumption DEF Appliers
<1>a. /\ pc \in [Appliers -> Steps] /\ next \in [Appliers -> Settings] /\ disk \in Settings
      /\ cache \in Settings /\ serial \in Nat /\ edits \in Nat
  BY DEF WInv, TypeOK
<1>b. edits = 0 => FileCached
  BY DEF WInv
<1>. SUFFICES ASSUME edits' = 0 PROVE FileCached'
  BY DEF WInv
<1>c. ASSUME edits = 0, UNCHANGED <<disk, readable, serial, cache, next>>,
             \A h \in Handlers : \/ pc'[h] = pc[h]
                                 \/ pc[h] = "temp" /\ pc'[h] \in {"idle", "rename"}
                                 \/ pc[h] \in {"idle"} \cup ApplySteps
                                       /\ pc'[h] \in {"idle"} \cup ApplySteps
      PROVE  FileCached'
  BY <1>b, <1>c DEF FileCached, ApplySteps
<1>1. ASSUME NEW h \in Handlers, BeginPut(h) PROVE FileCached'
  <2>1. PICK touched \in Patches :
          next' = [next EXCEPT ![h] = MergeSettings(cache, touched, serial + 1)]
    BY <1>1 DEF BeginPut
  <2>2. /\ pc[h] = "idle" /\ pc' = [pc EXCEPT ![h] = "temp"] /\ serial' = serial + 1
        /\ UNCHANGED <<disk, readable, cache, edits>>
    BY <1>1 DEF BeginPut, boundVars
  <2>3. FileCached /\ \A g \in Handlers : g = h
    BY <1>b, <2>2 DEF OnePut
  <2>4. cache = disk /\ \A f \in Fields : cache[f] <= serial
    BY <2>2, <2>3 DEF FileCached
  <2>5. \A f \in Fields : /\ disk[f] <= MergeSettings(cache, touched, serial + 1)[f]
                          /\ MergeSettings(cache, touched, serial + 1)[f] <= serial + 1
    BY <1>a, <2>4, MergeSettingsOrder
  <2>6. next'[h] = MergeSettings(cache, touched, serial + 1) /\ pc'[h] = "temp"
    BY <1>0, <1>a, <2>1, <2>2
  <2>7. \A f \in Fields : disk[f] \in Nat /\ disk[f] <= serial
    BY <1>a, <2>3 DEF Settings, FileCached
  <2>8. \A f \in Fields : disk'[f] <= serial'
    BY <1>a, <2>2, <2>7
  <2>. QED BY <2>2, <2>3, <2>4, <2>5, <2>6, <2>8 DEF FileCached
<1>2. ASSUME NEW h \in Handlers, FailPut(h) \/ CreateTemp(h) PROVE FileCached'
  <2>1. /\ pc[h] = "temp" /\ \E s \in {"idle", "rename"} : pc' = [pc EXCEPT ![h] = s]
        /\ UNCHANGED <<disk, readable, serial, cache, next, edits>>
    BY <1>2 DEF FailPut, CreateTemp, storeVars, boundVars
  <2>. QED BY <1>0, <1>a, <1>c, <2>1
<1>3. ASSUME NEW h \in Handlers, RenameIntoPlace(h) PROVE FileCached'
  <2>1. /\ pc[h] = "rename" /\ pc' = [pc EXCEPT ![h] = "cache"] /\ disk' = next[h]
        /\ readable' = TRUE /\ UNCHANGED <<serial, cache, next, edits>>
    BY <1>3 DEF RenameIntoPlace, boundVars
  <2>2. FileCached /\ (\A g \in Handlers : g = h) /\ pc'[h] = "cache"
    BY <1>0, <1>a, <1>b, <2>1 DEF OnePut
  <2>. QED BY <2>1, <2>2 DEF FileCached
<1>4. ASSUME NEW h \in Handlers, StoreCache(h) PROVE FileCached'
  <2>1. /\ pc[h] = "cache" /\ \E s \in {"read", "idle"} : pc' = [pc EXCEPT ![h] = s]
        /\ cache' = next[h] /\ UNCHANGED <<disk, readable, serial, next, edits>>
    BY <1>4 DEF StoreCache, storeVars, boundVars
  <2>2. FileCached /\ (\A g \in Handlers : g = h) /\ pc'[h] \in {"read", "idle"}
    BY <1>0, <1>a, <1>b, <2>1 DEF OnePut
  <2>. QED BY <2>1, <2>2 DEF FileCached
<1>5. ASSUME NEW a \in Appliers, ApplyStep(a) PROVE FileCached'
  <2>1. /\ pc[a] \in ApplySteps /\ \E s \in {"idle"} \cup ApplySteps : pc' = [pc EXCEPT ![a] = s]
        /\ UNCHANGED <<disk, readable, serial, cache, next, edits>>
    BY <1>5 DEF ApplyStep, ApplyRead, ApplyStore, ApplyCategories, ApplyAdblock,
                ApplySteps, storeVars, boundVars
  <2>. QED BY <1>0, <1>a, <1>c, <2>1
<1>6. CASE StartWatch \/ ReceiveEvent \/ TimerFires \/ UNCHANGED vars
  <2>1. UNCHANGED <<disk, readable, serial, cache, next, edits, pc>>
    BY <1>6 DEF StartWatch, ReceiveEvent, TimerFires, vars, storeVars, boundVars
  <2>. QED BY <1>c, <2>1
<1>7. CASE BeginReload
  <2>1. /\ UNCHANGED <<disk, readable, serial, cache, edits>>
        /\ \A h \in Handlers : pc'[h] = pc[h] /\ next'[h] = next[h]
    BY <1>0, <1>a, <1>7 DEF BeginReload, storeVars, boundVars
  <2>. QED BY <1>b, <2>1 DEF FileCached
<1>8. CASE EditBegins
  BY <1>a, <1>8 DEF EditBegins
<1>9. CASE EditEnds
  BY <1>b, <1>9 DEF EditEnds, FileCached, boundVars
<1>10. CASE RestartProxy
  <2>1. /\ UNCHANGED <<disk, readable, serial, next, edits>>
        /\ \/ CoLocated /\ cache' = disk /\ \A h \in Handlers : pc'[h] = "idle"
           \/ cache' = cache /\ \A h \in Handlers : pc'[h] = pc[h]
    BY <1>0, <1>a, <1>10 DEF RestartProxy, storeVars
  <2>. QED BY <1>b, <2>1 DEF FileCached
<1>11. CASE RestartMgmt
  <2>1. /\ UNCHANGED <<disk, readable, serial, next, edits>> /\ cache' = disk
        /\ \A h \in Handlers : pc'[h] = "idle"
    BY <1>0, <1>11 DEF RestartMgmt, storeVars
  <2>. QED BY <1>b, <2>1 DEF FileCached
<1>. QED BY <1>1, <1>2, <1>3, <1>4, <1>5, <1>6, <1>7, <1>8, <1>9, <1>10, <1>11
         DEF Next, HandlerStep

LEMMA OnePutCorrect == ASSUME OnePut PROVE Spec => []WInv
<1>1. Init => WInv
  <2>. SUFFICES ASSUME Init PROVE WInv
    OBVIOUS
  <2>1. /\ cache = disk /\ disk = [f \in Fields |-> 0] /\ readable /\ serial = 0
        /\ \A a \in Appliers : pc[a] = "idle"
    BY DEF Init
  <2>2. \A f \in Fields : disk[f] <= serial
    BY <2>1
  <2>3. FileCached
    BY <2>1, <2>2 DEF FileCached, Appliers
  <2>. QED BY <2>3, TypeInit DEF WInv
<1>. QED BY <1>1, OnePutInductive, TypeCorrect, PTL DEF Spec

(* With one PUT at a time and no manual edit, no save takes a field back:  *)
(* a PUT leaves every field it did not name as the file had it.            *)
THEOREM NoLostUpdateOnePut == ASSUME OnePut PROVE Spec => NoLostUpdate
<1>1. WInv /\ TypeOK' /\ [Next]_vars => [edits = 0 => \A f \in Fields : disk'[f] >= disk[f]]_disk
  <2>. SUFFICES ASSUME WInv, TypeOK', [Next]_vars, edits = 0, disk' # disk,
                       NEW f \in Fields
                PROVE  disk'[f] >= disk[f]
    OBVIOUS
  <2>1. FileCached /\ disk \in Settings
    BY DEF WInv, TypeOK
  <2>2. PICK h \in Handlers : RenameIntoPlace(h)
    <3>1. ~EditEnds
      BY <2>1 DEF EditEnds, FileCached
    <3>. QED BY <3>1 DEF Next, HandlerStep, ApplyStep, BeginPut, FailPut, CreateTemp, StoreCache,
                ApplyRead, ApplyStore, ApplyCategories, ApplyAdblock, StartWatch, ReceiveEvent,
                TimerFires, BeginReload, EditBegins, RestartProxy, RestartMgmt, vars, storeVars
  <2>3. disk' = next[h] /\ disk[f] <= next[h][f]
    BY <2>1, <2>2 DEF RenameIntoPlace, FileCached
  <2>4. next[h][f] \in Nat /\ disk[f] \in Nat
    BY DEF WInv, TypeOK, Settings, Appliers
  <2>. QED BY <2>3, <2>4
<1>. QED BY <1>1, OnePutCorrect, TypeCorrect, PTL DEF Spec, NoLostUpdate

(* Apart from the management server only the watcher applies settings: the *)
(* category store's directory is the snapshot's but for its own step.      *)
CategoriesHeld ==
    /\ pc[Watcher] = "store" => old[Watcher]["categories_dir"] = live["categories_dir"]
    /\ pc[Watcher] = "categories" => next[Watcher]["categories_dir"] = live["categories_dir"]
    /\ pc[Watcher] # "categories" => catDir = live["categories_dir"]

LEMMA CategoriesStep ==
    ASSUME CoLocated = FALSE, IInv, CategoriesHeld, [Next]_vars
    PROVE  CategoriesHeld'
<1>0. /\ Handlers \subseteq Appliers /\ Watcher \in Appliers
      /\ Appliers = Handlers \cup {Watcher} /\ Watcher \notin Handlers
  BY HandlersAssumption DEF Appliers
<1>a. /\ pc \in [Appliers -> Steps] /\ next \in [Appliers -> Settings]
      /\ old \in [Appliers -> Settings] /\ live \in Settings
  BY DEF IInv, TypeOK
<1>b. \A h \in Handlers : pc[h] \notin ApplySteps
  BY DEF IInv, NoHook
<1>c. ASSUME UNCHANGED <<live, catDir>>, pc'[Watcher] = pc[Watcher],
             next'[Watcher] = next[Watcher], old'[Watcher] = old[Watcher]
      PROVE  CategoriesHeld'
  BY <1>c DEF CategoriesHeld
<1>1. ASSUME NEW h \in Handlers, BeginPut(h) \/ FailPut(h) \/ HandlerStep(h) PROVE CategoriesHeld'
  <2>1. UNCHANGED <<live, catDir>>
    BY <1>1 DEF BeginPut, FailPut, HandlerStep, CreateTemp, RenameIntoPlace, StoreCache, runtimeVars
  <2>2. /\ pc'[Watcher] = pc[Watcher] /\ next'[Watcher] = next[Watcher]
        /\ old'[Watcher] = old[Watcher]
    BY <1>0, <1>a, <1>1 DEF BeginPut, FailPut, HandlerStep, CreateTemp, RenameIntoPlace, StoreCache
  <2>. QED BY <1>c, <2>1, <2>2
<1>2. ASSUME NEW h \in Handlers PROVE ~ApplyStep(h)
  BY <1>b, <1>2 DEF ApplyStep, ApplyRead, ApplyStore, ApplyCategories, ApplyAdblock, ApplySteps
<1>3. CASE ApplyRead(Watcher)
  <2>1. /\ pc'[Watcher] = "store" /\ pc[Watcher] = "read" /\ old'[Watcher] = live
        /\ UNCHANGED <<live, catDir>>
    BY <1>0, <1>a, <1>3 DEF ApplyRead, runtimeVars
  <2>. QED BY <2>1 DEF CategoriesHeld
<1>4. CASE ApplyStore(Watcher)
  <2>1. /\ pc[Watcher] = "store" /\ live' = MergeHot(old[Watcher], next[Watcher])
        /\ UNCHANGED <<next, old, catDir>>
    BY <1>4 DEF ApplyStore, Merged
  <2>2. live'["categories_dir"] = next[Watcher]["categories_dir"]
    BY <2>1, FieldsFacts DEF MergeHot
  <2>3. pc'[Watcher] = IF live'["categories_dir"] # old[Watcher]["categories_dir"]
                       THEN "categories" ELSE "adblock"
    BY <1>0, <1>a, <1>4 DEF ApplyStore
  <2>. QED BY <2>1, <2>2, <2>3 DEF CategoriesHeld
<1>5. CASE ApplyCategories(Watcher)
  <2>1. /\ pc[Watcher] = "categories" /\ pc'[Watcher] = "adblock" /\ UNCHANGED live
        /\ catDir' = MergeHot(old[Watcher], next[Watcher])["categories_dir"]
    BY <1>0, <1>a, <1>5 DEF ApplyCategories, Merged
  <2>2. catDir' = next[Watcher]["categories_dir"]
    BY <2>1, FieldsFacts DEF MergeHot
  <2>. QED BY <2>1, <2>2 DEF CategoriesHeld
<1>6. CASE ApplyAdblock(Watcher)
  <2>1. pc[Watcher] = "adblock" /\ pc'[Watcher] = "idle" /\ UNCHANGED <<live, catDir>>
    BY <1>0, <1>a, <1>6 DEF ApplyAdblock
  <2>. QED BY <2>1 DEF CategoriesHeld
<1>7. CASE StartWatch \/ ReceiveEvent \/ TimerFires \/ EditBegins \/ EditEnds \/ UNCHANGED vars
  <2>1. UNCHANGED <<live, catDir, pc, next, old>>
    BY <1>7 DEF StartWatch, ReceiveEvent, TimerFires, EditBegins, EditEnds, vars, runtimeVars
  <2>. QED BY <1>c, <2>1
<1>8. CASE BeginReload
  <2>1. pc[Watcher] = "idle" /\ UNCHANGED <<live, catDir, old>>
    BY <1>8 DEF BeginReload, runtimeVars
  <2>2. pc'[Watcher] \in {"idle", "read"}
    BY <1>0, <1>a, <1>8 DEF BeginReload
  <2>. QED BY <2>1, <2>2 DEF CategoriesHeld
<1>9. CASE RestartProxy
  <2>1. live' = disk /\ catDir' = disk["categories_dir"] /\ pc'[Watcher] = "idle"
    BY <1>0, <1>a, <1>9 DEF RestartProxy
  <2>. QED BY <2>1 DEF CategoriesHeld
<1>10. CASE RestartMgmt
  <2>1. UNCHANGED <<live, catDir, next, old>> /\ pc'[Watcher] = pc[Watcher]
    BY <1>0, <1>10 DEF RestartMgmt, runtimeVars
  <2>. QED BY <1>c, <2>1
<1>11. ASSUME NEW a \in Appliers, ApplyStep(a) PROVE CategoriesHeld'
  <2>1. a = Watcher
    BY <1>0, <1>2, <1>11
  <2>. QED BY <1>3, <1>4, <1>5, <1>6, <1>11, <2>1 DEF ApplyStep
<1>. QED BY <1>1, <1>7, <1>8, <1>9, <1>10, <1>11 DEF Next

(* Where the proxy runs apart from the management server and PUTs come one *)
(* at a time, both caches of the file follow it: the management server's   *)
(* cache is the file, and the category store reads the directory in effect. *)
THEOREM CachesFollowOnePut ==
    ASSUME CoLocated = FALSE, OnePut PROVE Spec => []CachesFollow
<1>1. Init => CategoriesHeld
  BY FieldsFacts DEF Init, CategoriesHeld, Appliers
<1>2. IInv /\ CategoriesHeld /\ [Next]_vars => CategoriesHeld'
  BY CategoriesStep
<1>3. Spec => []CategoriesHeld
  BY <1>1, <1>2, InvCorrect, PTL DEF Spec
<1>4. WInv /\ CategoriesHeld => CachesFollow
  BY DEF WInv, FileCached, CategoriesHeld, CachesFollow, NoDrift, CategoriesFollow, Quiet,
         AllIdle, Appliers
<1>. QED BY <1>3, <1>4, OnePutCorrect, PTL
=============================================================================
