----------------------------- MODULE PolicyStore -----------------------------
(***************************************************************************)
(* The policies directory and how its files reach the running proxy.       *)
(*                                                                         *)
(* Writers are the management API's handlers and the Android bridge; they  *)
(* go through config.PolicyStore, which holds no lock.  A write is atomic  *)
(* (temp file and rename), an operation of several writes is not.          *)
(* Reloaders run Runtime.ReloadPolicies: the watch loop, and on Android    *)
(* also the bridge right after a write of its own.  A reload reads the     *)
(* directory, then file after file, then publishes the policies and the    *)
(* MITM-exclude list built from them one after the other, without a lock.  *)
(*                                                                         *)
(* Data abstraction: a policy is the number of the operation that created  *)
(* it and the number of the one that wrote it last; file names are numbers *)
(* in their sort order; the exclude list is the policies it was built from.*)
(***************************************************************************)
EXTENDS Naturals, FiniteSets

CONSTANTS
    Writers,    \* goroutines that create, update and delete policies
    Bridge,     \* those that call ReloadPolicies themselves afterwards
    MaxName,    \* file names
    MaxOps      \* bound: operations begun

ASSUME WritersAssumption == Bridge \subseteq Writers
ASSUME BoundsAssumption  == MaxName \in Nat \ {0} /\ MaxOps \in Nat

Names     == 1..MaxName
Reloaders == {"watch", "bridge"}
NoFile    == [id |-> 0, ver |-> 0]
Policy    == [id : Nat, ver : Nat]
FirstPolicy == [id |-> 1, ver |-> 1]

VARIABLES
    files,      \* the directory
    ops,        \* operations begun: names their policies
    wpc,        \* per writer: its next step
    from, to,   \* per writer: the names the operation is about
    doc,        \* per writer: the policy it writes
    deleted,    \* history variable: policies removed by a delete
    owners,     \* history variable: the policies each file name has held
    dirty,      \* the watch loop has been told of a change since its last reload
    calls,      \* bridge calls of ReloadPolicies waiting for ctl.mu or running
    rpc,        \* per reloader: its next step
    todo, got,  \* per reloader: names still to read, policies read
    policies,   \* Runtime.policies
    bypass,     \* Runtime.mitmBypass
    generation  \* Runtime.generation

dirVars     == <<files, deleted, owners, dirty>>
writerVars  == <<ops, wpc, from, to, doc, calls>>
reloadVars  == <<rpc, todo, got>>
runtimeVars == <<policies, bypass, generation>>
vars == <<dirVars, writerVars, reloadVars, runtimeVars>>

Present(dir) == {n \in Names : dir[n] # NoFile}
Empty        == [n \in Names |-> NoFile]
Idle(r)      == rpc[r] = "idle"

(* The proxy has started: state.New loaded the directory, Start watches it.*)
Init ==
    /\ files = [Empty EXCEPT ![1] = FirstPolicy] /\ ops = 1
    /\ wpc = [w \in Writers |-> "idle"]
    /\ from = [w \in Writers |-> 1] /\ to = [w \in Writers |-> 1]
    /\ doc = [w \in Writers |-> NoFile]
    /\ owners = [n \in Names |-> IF n = 1 THEN {1} ELSE {}]
    /\ deleted = {} /\ dirty = FALSE /\ calls = 0
    /\ rpc = [r \in Reloaders |-> "idle"]
    /\ todo = [r \in Reloaders |-> {}] /\ got = [r \in Reloaders |-> Empty]
    /\ policies = files /\ bypass = files /\ generation = 1

-----------------------------------------------------------------------------
(* PolicyStore.Create, Update and Delete                                   *)

(* Create: ErrExists when the file is there.                               *)
BeginCreate(w) ==
    /\ wpc[w] = "idle" /\ ops < MaxOps
    /\ \E n \in Names \ Present(files) :
          /\ from' = [from EXCEPT ![w] = n] /\ to' = [to EXCEPT ![w] = n]
    /\ ops' = ops + 1
    /\ doc' = [doc EXCEPT ![w] = [id |-> ops + 1, ver |-> ops + 1]]
    /\ wpc' = [wpc EXCEPT ![w] = "write"]
    /\ UNCHANGED <<dirVars, calls, reloadVars, runtimeVars>>

(* Update: ErrNotFound without the old file, ErrExists when another policy *)
(* has the new name.                                                       *)
BeginUpdate(w) ==
    /\ wpc[w] = "idle" /\ ops < MaxOps
    /\ \E n \in Present(files), m \in Names :
          /\ m # n => files[m] = NoFile
          /\ from' = [from EXCEPT ![w] = n] /\ to' = [to EXCEPT ![w] = m]
          /\ doc' = [doc EXCEPT ![w] = [id |-> files[n].id, ver |-> ops + 1]]
    /\ ops' = ops + 1
    /\ wpc' = [wpc EXCEPT ![w] = "write"]
    /\ UNCHANGED <<dirVars, calls, reloadVars, runtimeVars>>

Owns(w) == owners' = [owners EXCEPT ![to[w]] = @ \cup {doc[w].id}]
AfterWrite(w) == IF w \in Bridge THEN "reload" ELSE "idle"

BugUpdateRemovesFirst(w) ==
    /\ wpc[w] = "write"
    /\ IF from[w] # to[w] /\ files[from[w]] # NoFile
       THEN /\ files' = [files EXCEPT ![from[w]] = NoFile] /\ UNCHANGED <<wpc, owners>>
       ELSE /\ files' = [files EXCEPT ![to[w]] = doc[w]] /\ Owns(w)
            /\ wpc' = [wpc EXCEPT ![w] = AfterWrite(w)]
    /\ dirty' = TRUE
    /\ UNCHANGED <<deleted, ops, from, to, doc, calls, reloadVars, runtimeVars>>
BugWriteUnnoticed(w) ==
    /\ wpc[w] = "write"
    /\ files' = [files EXCEPT ![to[w]] = doc[w]] /\ Owns(w)
    /\ dirty' = (dirty \/ Idle("watch"))
    /\ wpc' = [wpc EXCEPT ![w] = IF from[w] # to[w] THEN "remove" ELSE AfterWrite(w)]
    /\ UNCHANGED <<deleted, ops, from, to, doc, calls, reloadVars, runtimeVars>>
WriteFile(w) ==
    /\ wpc[w] = "write"
    /\ files' = [files EXCEPT ![to[w]] = doc[w]] /\ Owns(w) /\ dirty' = TRUE
    /\ wpc' = [wpc EXCEPT ![w] = IF from[w] # to[w] THEN "remove" ELSE AfterWrite(w)]
    /\ UNCHANGED <<deleted, ops, from, to, doc, calls, reloadVars, runtimeVars>>

(* A renamed policy's old file goes last.  If it has vanished meanwhile    *)
(* the operation fails and the bridge does not reload.                     *)
RemoveOld(w) ==
    /\ wpc[w] = "remove"
    /\ IF files[from[w]] # NoFile
       THEN /\ files' = [files EXCEPT ![from[w]] = NoFile] /\ dirty' = TRUE
            /\ wpc' = [wpc EXCEPT ![w] = AfterWrite(w)]
       ELSE /\ wpc' = [wpc EXCEPT ![w] = "idle"] /\ UNCHANGED <<files, dirty>>
    /\ UNCHANGED <<deleted, owners, ops, from, to, doc, calls, reloadVars, runtimeVars>>

Delete(w) ==
    /\ wpc[w] = "idle" /\ ops < MaxOps
    /\ \E n \in Present(files) :
          /\ files' = [files EXCEPT ![n] = NoFile]
          /\ deleted' = deleted \cup {files[n].id}
    /\ ops' = ops + 1 /\ dirty' = TRUE
    /\ wpc' = [wpc EXCEPT ![w] = AfterWrite(w)]
    /\ UNCHANGED <<owners, from, to, doc, calls, reloadVars, runtimeVars>>

(* The bridge reloads under ctl.mu and returns when that is done.          *)
CallReload(w) ==
    /\ wpc[w] = "reload" /\ calls = 0
    /\ calls' = 1 /\ wpc' = [wpc EXCEPT ![w] = "reloading"]
    /\ UNCHANGED <<dirVars, ops, from, to, doc, reloadVars, runtimeVars>>

-----------------------------------------------------------------------------
(* ReloadPolicies                                                          *)

(* PolicyStore.List reads the directory.  Events that arrive while the     *)
(* watch loop reloads stay queued and cause another reload.                *)
Begin(r) ==
    /\ Idle(r)
    /\ IF r = "watch" THEN dirty /\ dirty' = FALSE
                      ELSE calls = 1 /\ UNCHANGED dirty
    /\ rpc' = [rpc EXCEPT ![r] = "list"]
    /\ todo' = [todo EXCEPT ![r] = Present(files)]
    /\ got' = [got EXCEPT ![r] = Empty]
    /\ UNCHANGED <<files, deleted, owners, writerVars, runtimeVars>>

(* Files are read in the order of their names.                             *)
IsNext(r, n) == n \in todo[r] /\ \A m \in todo[r] : n <= m

(* The end of a reload, also when it gives up: a bridge call returns.      *)
EndReload(r) ==
    /\ rpc' = [rpc EXCEPT ![r] = "idle"]
    /\ IF r = "bridge"
       THEN /\ calls' = 0
            /\ wpc' = [w \in Writers |-> IF wpc[w] = "reloading" THEN "idle" ELSE wpc[w]]
       ELSE UNCHANGED <<calls, wpc>>

(* One file.  A file that vanished fails the reload: the policies in force *)
(* stay.                                                                   *)
ReadFile(r) ==
    /\ rpc[r] = "list"
    /\ \E n \in Names :
          /\ IsNext(r, n) /\ files[n] # NoFile
          /\ got' = [got EXCEPT ![r][n] = files[n]]
          /\ todo' = [todo EXCEPT ![r] = @ \ {n}]
    /\ UNCHANGED <<dirVars, writerVars, rpc, runtimeVars>>
ReadFails(r) ==
    /\ rpc[r] = "list" /\ \E n \in Names : IsNext(r, n) /\ files[n] = NoFile
    /\ EndReload(r)
    /\ UNCHANGED <<dirVars, ops, from, to, doc, todo, got, runtimeVars>>

StorePolicies(r) ==
    /\ rpc[r] = "list" /\ todo[r] = {}
    /\ policies' = got[r]
    /\ rpc' = [rpc EXCEPT ![r] = "bypass"]
    /\ UNCHANGED <<dirVars, writerVars, todo, got, bypass, generation>>

(* rebuildMitmBypass of the list in hand, and the new generation.          *)
BugBypassGrowsOnly(r) ==
    /\ rpc[r] = "bypass"
    /\ bypass' = [n \in Names |-> IF got[r][n] = NoFile THEN bypass[n] ELSE got[r][n]]
    /\ generation' = generation + 1
    /\ EndReload(r)
    /\ UNCHANGED <<dirVars, ops, from, to, doc, todo, got, policies>>
StoreBypass(r) ==
    /\ rpc[r] = "bypass"
    /\ bypass' = got[r] /\ generation' = generation + 1
    /\ EndReload(r)
    /\ UNCHANGED <<dirVars, ops, from, to, doc, todo, got, policies>>

Terminated ==
    /\ ops = MaxOps /\ ~dirty /\ \A w \in Writers : wpc[w] = "idle"
    /\ \A r \in Reloaders : Idle(r)
    /\ UNCHANGED vars

WriterStep(w) == WriteFile(w) \/ RemoveOld(w) \/ CallReload(w)
ReloadStep(r) ==
    Begin(r) \/ ReadFile(r) \/ ReadFails(r) \/ StorePolicies(r) \/ StoreBypass(r)

Act(w) == BeginCreate(w) \/ BeginUpdate(w) \/ Delete(w) \/ WriterStep(w)

Next ==
    \/ \E w \in Writers : Act(w)
    \/ \E r \in Reloaders : ReloadStep(r)
    \/ Terminated

(* An operation begun ends, the watch loop and a reload make progress.     *)
Fairness == /\ \A w \in Writers : WF_vars(WriterStep(w))
            /\ \A r \in Reloaders : WF_vars(ReloadStep(r))

Spec     == Init /\ [][Next]_vars
FairSpec == Spec /\ Fairness

-----------------------------------------------------------------------------
(* Properties                                                              *)

Directory == [Names -> Policy]

TypeOK ==
    /\ files \in Directory /\ ops \in Nat
    /\ wpc \in [Writers -> {"idle", "write", "remove", "reload", "reloading"}]
    /\ from \in [Writers -> Names] /\ to \in [Writers -> Names]
    /\ doc \in [Writers -> Policy]
    /\ deleted \subseteq Nat /\ owners \in [Names -> SUBSET Nat] /\ dirty \in BOOLEAN /\ calls \in {0, 1}
    /\ rpc \in [Reloaders -> {"idle", "list", "bypass"}]
    /\ todo \in [Reloaders -> SUBSET Names] /\ got \in [Reloaders -> Directory]
    /\ policies \in Directory /\ bypass \in Directory /\ generation \in Nat

Quiet == ~dirty /\ \A r \in Reloaders : Idle(r)

(* The exclude list that decides whether a tunnel is decrypted is the one  *)
(* of the policies in force whenever no reload is under way: no host stays *)
(* spliced because of a policy that was changed or removed.                *)
BypassOfLoadedPolicies == (\A r \in Reloaders : Idle(r)) => bypass = policies

(* A policy nobody deletes is in force at all times, whatever it is        *)
(* renamed to, unless another policy is given a name it had: no reload     *)
(* catches the directory without it (renaming writes the new file before   *)
(* it removes the old one, and a reload that misses a listed file is       *)
(* abandoned).                                                             *)
NeverUnloaded ==
    (/\ FirstPolicy.id \notin deleted
     /\ \A n \in Names : FirstPolicy.id \in owners[n] => owners[n] = {FirstPolicy.id})
        => \E n \in Names : policies[n].id = FirstPolicy.id

(* When nothing is left to reload, what is in force is what is on disk.    *)
QuietMeansCurrent == Quiet => policies = files /\ bypass = files

(* Every change reaches the proxy: once the last operation has ended, the  *)
(* directory's policies are in force for good ("a write made right after   *)
(* the call is never missed").                                             *)
CatchesUp == (ops = MaxOps /\ \A w \in Writers : wpc[w] = "idle")
                ~> [](policies = files /\ bypass = files)

(* "failing with ErrExists if the target name collides with a different    *)
(* existing policy": a create or a rename never replaces a policy.         *)
NoPolicyOverwritten ==
    [][\A n \in Names : (files'[n] # files[n] /\ files[n] # NoFile /\ files'[n] # NoFile)
            => files'[n].id = files[n].id]_vars
=============================================================================
