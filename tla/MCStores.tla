------------------------------ MODULE MCStores ------------------------------
(* One instance of each of the three directories that are read while they  *)
(* change: the policies, the downloaded ad-block lists, the categories.    *)
(* They share nothing, so each behaviour is one of one store; the others   *)
(* are parked in a state without a next step.                              *)
EXTENDS PolicyStore

CONSTANTS Readers, Nothing, MaxSwitches,
          NLists, Dirs, MaxDownloads, MaxDeletes, MaxBuilds,
          Categories, Used, Bases, Threads, Tarball, MaxWrites

ASSUME CountsAssumption ==
    {MaxSwitches, NLists, MaxDownloads, MaxDeletes, MaxBuilds, MaxWrites} \subseteq Nat
ASSUME UsersAssumption == Used \subseteq Categories /\ Tarball \notin Threads

VARIABLES which, side,
          dir, list, version, cached, looker, build, wanted, wake, round, down, deletes, moves,
          base, file, listed, serial, cache, reader, up, lock, overtaken, switches

adblock    == <<dir, list, version, cached, looker, build, wanted, wake, round, down, deletes, moves>>
categories == <<base, file, listed, serial, cache, reader, up, lock, overtaken, switches>>
allVars    == <<which, side, vars, adblock, categories>>

A == INSTANCE AdblockStore WITH file <- list, serial <- version, reader <- looker, switches <- moves
C == INSTANCE CategoryStore WITH Names <- Categories

(* Nothing stands for an object, a place or a goroutine that is not there. *)
ASSUME NothingAssumption ==
    /\ Nothing \notin Dirs \cup Bases \cup Categories \cup C!Updaters
    /\ Nothing \notin A!Engines /\ Nothing \notin A!Contents /\ Nothing \notin C!List
    /\ Nothing \notin [mtime : Nat, domains : C!List, stale : BOOLEAN]

(* The two deployments of PolicyStore: all changes through the management  *)
(* API beside the watch loop (`webfilter run`), or all of them through     *)
(* Android's bridge, which reloads by itself after each.                   *)
PoliciesInit == Init /\ side \in Writers
PoliciesNext == Act(side) \/ (\E r \in Reloaders : ReloadStep(r)) \/ Terminated
PoliciesParked == Init /\ side = Nothing

AdblockParked ==
    /\ dir = (CHOOSE d \in Dirs : TRUE) /\ list = [d \in Dirs |-> A!NoFiles] /\ version = 1 /\ cached = Nothing
    /\ looker = [r \in Readers |-> [A!IdleRead EXCEPT !.pc = "parked"]]
    /\ build = [b \in 1..MaxBuilds |-> A!NoBuild] /\ wanted = {} /\ wake = FALSE /\ round = {}
    /\ down = [p \in A!Downloaders |-> [A!IdleDown EXCEPT !.pc = "parked"]]
    /\ deletes = MaxDeletes /\ moves = MaxSwitches
CategoriesParked ==
    /\ base = (CHOOSE b \in Bases : TRUE) /\ file = [b \in Bases |-> [c \in Categories |-> Nothing]]
    /\ listed = [b \in Bases |-> {}] /\ serial = 1 /\ switches = MaxSwitches
    /\ cache = [c \in Used |-> [mtime |-> 0, domains |-> C!EmptySet, stale |-> TRUE]]
    /\ reader = [r \in Readers |-> [C!Idle EXCEPT !.pc = "parked"]]
    /\ up = [u \in C!Updaters |-> [C!NoWork EXCEPT !.pc = "parked"]]
    /\ lock = Nothing /\ overtaken = FALSE

(* Lookups are checked beside one thread and the tarball, and one staged   *)
(* list of what is looked up; the index with all threads and MaxWrites     *)
(* lists of any kind, which overlap, and no lookup: they meet in the files *)
(* only.                                                                   *)
OneThread == CHOOSE t \in Threads : TRUE
LookupsNext ==
    /\ C!Next /\ serial' <= 2 /\ \A t \in Threads \ {OneThread} : up'[t] = up[t]
    /\ \A u \in C!Updaters : up'[u].todo \cup up'[u].done \subseteq Used
IndexNext ==
    \/ C!Next /\ UNCHANGED <<reader, base>>
    \/ (\A u \in C!Updaters : up[u].pc = "idle") /\ UNCHANGED categories

(* A list is removed, or the directory changed, in one behaviour.          *)
AdblockNext == A!Next /\ deletes' + moves' <= 1

StoresInit ==
    \/ which = "policies" /\ PoliciesInit   /\ AdblockParked /\ CategoriesParked
    \/ which = "adblock"  /\ PoliciesParked /\ A!Init        /\ CategoriesParked
    \/ which \in {"lookups", "index"} /\ PoliciesParked /\ AdblockParked /\ C!Init
StoresNext ==
    /\ UNCHANGED <<which, side>>
    /\ \/ which = "policies" /\ PoliciesNext /\ UNCHANGED <<adblock, categories>>
       \/ which = "adblock"  /\ AdblockNext  /\ UNCHANGED <<vars, categories>>
       \/ which = "lookups"  /\ LookupsNext  /\ UNCHANGED <<vars, adblock>>
       \/ which = "index"    /\ IndexNext    /\ UNCHANGED <<vars, adblock>>
StoresSpec ==
    /\ StoresInit /\ [][StoresNext]_allVars
    /\ A!Fairness /\ C!Fairness
    /\ \A w \in Writers : WF_vars(which = "policies" /\ WriterStep(w))
    /\ \A r \in Reloaders : WF_vars(which = "policies" /\ ReloadStep(r))

(* Where the watch loop is the only reloader, the exclude list belongs to  *)
(* the policies in force between any two reloads, pending changes or not.  *)
BypassBelongs == side \notin Bridge => BypassOfLoadedPolicies

(* What is taken for current is: an engine holds the installed lists, a    *)
(* category's entry the category's list.  And nothing is waited for in     *)
(* vain: no compilation and no missing list.                               *)
NothingStale ==
    /\ which = "policies" => TypeOK
    /\ which = "adblock" => A!TypeOK /\ A!CurrentMeansCurrent /\ A!NothingForgotten
    /\ which \in {"lookups", "index"} => C!TypeOK /\ C!FreshMeansCurrent
(* CategoryStore: overlapping downloads keep each other's index entry.     *)
EntriesKept         == [][C!KeepsEntries]_allVars
(* Requests and lookups end up with the lists that are installed.          *)
InstalledIsUsed     == A!CatchesUp /\ C!Follows
=============================================================================
