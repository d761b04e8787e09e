---------------------------- MODULE CategoryStore ----------------------------
(***************************************************************************)
(* The domain categories of internal/categories: one directory per         *)
(* category, replaced by downloads and tarball updates while requests look *)
(* hosts up through a cache that goes by modification times.               *)
(*                                                                         *)
(* A list is the number of the write that staged it, which is also its     *)
(* modification time, and the form it is stored in: "gz" from a download   *)
(* of one category, "plain" from the tarball.                              *)
(***************************************************************************)
EXTENDS Naturals

CONSTANTS
    Names,          \* categories that are offered
    Used,           \* those a policy refers to
    Bases,          \* directories the settings may name
    Readers,        \* goroutines looking up hosts
    Threads,        \* of the app or server, downloading and deleting
    Tarball,        \* the process of `webfilter categories update`
    Nothing,        \* no entry, no list, nobody
    MaxWrites,      \* bound: lists staged
    MaxSwitches     \* bound: changes of the directory

Forms    == {"gz", "plain"}
List     == [at : 0..MaxWrites + 1, form : Forms]
EmptySet == [at |-> 0, form |-> "plain"]
Gz(n)    == [at |-> n, form |-> "gz"]
Plain(n) == [at |-> n, form |-> "plain"]
Updaters == Threads \cup {Tarball}
(* What an archive and the --keep option agree on.                         *)
Archives == SUBSET Names \ {{}}

VARIABLES
    base,           \* Store.base
    file,           \* the list of each category directory, or Nothing
    listed,         \* index.json of each directory: the categories it lists
    serial,         \* lists staged
    cache,          \* Store.cache: an entry of each category, or Nothing
    reader,         \* Store.domains, per goroutine
    up,             \* DownloadCategory, DeleteCategory, WriteCategories
    lock,           \* indexMu: who holds it
    overtaken,      \* history: the tarball replaced the index while it was held
    switches

storeVars == <<file, listed, serial>>
vars == <<base, storeVars, cache, reader, up, lock, overtaken, switches>>

Idle    == [pc |-> "idle", name |-> Nothing, base |-> Nothing, seen |-> Nothing, got |-> Nothing]
NoWork  == [pc |-> "idle", op |-> Nothing, base |-> Nothing, todo |-> {}, staged |-> Nothing,
            done |-> {}, doc |-> {}]

Init ==
    /\ base \in Bases /\ serial = 1
    /\ \E have \in SUBSET Names :
          /\ file = [b \in Bases |-> [c \in Names |->
                        IF b = base /\ c \in have THEN Plain(1) ELSE Nothing]]
          /\ listed = [b \in Bases |-> IF b = base THEN have ELSE {}]
    /\ cache = [c \in Used |-> Nothing]
    /\ reader = [r \in Readers |-> Idle] /\ up = [u \in Updaters |-> NoWork]
    /\ lock = Nothing /\ overtaken = FALSE /\ switches = 0

-----------------------------------------------------------------------------
(* Store.domains.  An entry that was checked within checkInterval answers  *)
(* at once and changes nothing.                                            *)

Lookup(r, c) ==
    /\ reader[r].pc = "idle" /\ (cache[c] # Nothing => cache[c].stale)
    /\ reader' = [reader EXCEPT ![r] = [Idle EXCEPT !.pc = "stat", !.name = c, !.base = base]]
    /\ UNCHANGED <<base, storeVars, cache, up, lock, overtaken, switches>>

(* domainsFile, with a stat for each form.                                 *)
On(r) == file[reader[r].base][reader[r].name]
StatGz(r) ==
    /\ reader[r].pc = "stat"
    /\ reader' = [reader EXCEPT ![r] =
          IF On(r) # Nothing /\ On(r).form = "gz" THEN [@ EXCEPT !.pc = "compare", !.seen = On(r)]
          ELSE [@ EXCEPT !.pc = "stat2"]]
    /\ UNCHANGED <<base, storeVars, cache, up, lock, overtaken, switches>>
StatPlain(r) ==
    /\ reader[r].pc = "stat2"
    /\ reader' = [reader EXCEPT ![r] =
          IF On(r) # Nothing /\ On(r).form = "plain" THEN [@ EXCEPT !.pc = "compare", !.seen = On(r)]
          ELSE [@ EXCEPT !.pc = "store", !.seen = EmptySet, !.got = EmptySet]]
    /\ UNCHANGED <<base, storeVars, cache, up, lock, overtaken, switches>>

(* An entry loaded from the file of that time is good for another interval.*)
BugFreshWhateverTime(r) == cache[reader[r].name] # Nothing
SameTime(r) ==
    cache[reader[r].name] # Nothing /\ cache[reader[r].name].mtime = reader[r].seen.at
Compare(r) ==
    /\ reader[r].pc = "compare"
    /\ IF SameTime(r)
       THEN /\ cache' = [cache EXCEPT ![reader[r].name].stale = FALSE]
            /\ reader' = [reader EXCEPT ![r] = Idle]
       ELSE reader' = [reader EXCEPT ![r].pc = "load"] /\ UNCHANGED cache
    /\ UNCHANGED <<base, storeVars, up, lock, overtaken, switches>>

(* loadDomains opens the path that was found: what is gone by now, or      *)
(* there in the other form, is an empty set.                               *)
BugTrustsStat(r) ==
    /\ reader[r].pc = "load" /\ reader' = [reader EXCEPT ![r].pc = "store", ![r].got = On(r)]
    /\ UNCHANGED <<base, storeVars, cache, up, lock, overtaken, switches>>
Load(r) ==
    /\ reader[r].pc = "load"
    /\ reader' = [reader EXCEPT ![r].pc = "store", ![r].got =
          IF On(r) # Nothing /\ On(r).form = reader[r].seen.form THEN On(r) ELSE EmptySet]
    /\ UNCHANGED <<base, storeVars, cache, up, lock, overtaken, switches>>

(* The entry is filed under the time of the stat.                          *)
BugTimeOfStore(r) ==
    [mtime |-> IF On(r) = Nothing THEN reader[r].seen.at ELSE On(r).at, domains |-> reader[r].got,
     stale |-> FALSE]
Entry(r) == [mtime |-> reader[r].seen.at, domains |-> reader[r].got, stale |-> FALSE]
Store(r) ==
    /\ reader[r].pc = "store"
    /\ cache' = [cache EXCEPT ![reader[r].name] = Entry(r)]
    /\ reader' = [reader EXCEPT ![r] = Idle]
    /\ UNCHANGED <<base, storeVars, up, lock, overtaken, switches>>

(* checkInterval passes.                                                   *)
Expire(c) ==
    /\ cache[c] # Nothing /\ ~cache[c].stale
    /\ cache' = [cache EXCEPT ![c].stale = TRUE]
    /\ UNCHANGED <<base, storeVars, reader, up, lock, overtaken, switches>>

(* Configure leaves the entries of the old directory in the cache.         *)
Configure ==
    /\ switches < MaxSwitches /\ switches' = switches + 1 /\ base' \in Bases \ {base}
    /\ UNCHANGED <<storeVars, cache, reader, up, lock, overtaken>>

-----------------------------------------------------------------------------
(* Writers of the directory                                                *)

(* A list is cleaned into a staging directory; a bad one changes nothing.  *)
Download(u, c) ==
    /\ up[u].pc = "idle" /\ u # Tarball /\ serial <= MaxWrites /\ serial' = serial + 1
    /\ up' = [up EXCEPT ![u] = [NoWork EXCEPT !.pc = "remove", !.op = "download", !.base = base,
                                  !.todo = {c}, !.staged = Gz(serial')]]
    /\ UNCHANGED <<base, file, listed, cache, reader, lock, overtaken, switches>>

(* WriteCategories stages all categories, and one index, before the first  *)
(* is swapped in.                                                          *)
Update(keep) ==
    /\ up[Tarball].pc = "idle" /\ serial <= MaxWrites /\ serial' = serial + 1
    /\ up' = [up EXCEPT ![Tarball] =
          [NoWork EXCEPT !.pc = "remove", !.op = "update", !.base = base, !.todo = keep,
                         !.staged = Plain(serial')]]
    /\ UNCHANGED <<base, file, listed, cache, reader, lock, overtaken, switches>>

(* RemoveAll, then Rename, one category after the other.  A directory that *)
(* somebody else put in place meanwhile is not renamed onto.               *)
RemoveOld(u, c) ==
    /\ up[u].pc = "remove" /\ c \in up[u].todo
    /\ file' = [file EXCEPT ![up[u].base][c] = Nothing]
    /\ up' = [up EXCEPT ![u].pc = "swap", ![u].done = @ \cup {c}]
    /\ UNCHANGED <<base, listed, serial, cache, reader, lock, overtaken, switches>>
SwapIn(u, c) ==
    /\ up[u].pc = "swap" /\ c \in up[u].todo \cap up[u].done /\ file[up[u].base][c] = Nothing
    /\ file' = [file EXCEPT ![up[u].base][c] = up[u].staged]
    /\ up' = [up EXCEPT ![u].todo = @ \ {c}, ![u].pc = IF up[u].todo = {c} THEN "index" ELSE "remove"]
    /\ UNCHANGED <<base, listed, serial, cache, reader, lock, overtaken, switches>>

(* The update process is killed, or a rename fails: what was removed is    *)
(* gone and nothing is put in its place.                                   *)
InTheWay(u) == up[u].pc = "swap" /\ \E c \in up[u].todo \cap up[u].done : file[up[u].base][c] # Nothing
GivesUp(u) ==
    /\ up[u].pc = "swap" \/ (u = Tarball /\ up[u].pc \in {"remove", "index"})
    /\ up' = [up EXCEPT ![u] = NoWork]
    /\ UNCHANGED <<base, storeVars, cache, reader, lock, overtaken, switches>>

Delete(u, c) ==
    /\ up[u].pc = "idle" /\ u # Tarball /\ file[base][c] # Nothing
    /\ file' = [file EXCEPT ![base][c] = Nothing]
    /\ up' = [up EXCEPT ![u] = [NoWork EXCEPT !.pc = "index", !.op = "delete", !.base = base, !.done = {c}]]
    /\ UNCHANGED <<base, listed, serial, cache, reader, lock, overtaken, switches>>

(* upsertIndexEntry and removeIndexEntry read and write under indexMu.     *)
BugNoLock(u) == TRUE
MayLock(u) == lock = Nothing
ReadIndex(u) ==
    /\ up[u].pc = "index" /\ u # Tarball /\ MayLock(u) /\ lock' = u
    /\ up' = [up EXCEPT ![u].pc = "write", ![u].doc = listed[up[u].base]]
    /\ UNCHANGED <<base, storeVars, cache, reader, overtaken, switches>>
WriteIndex(u) ==
    /\ up[u].pc = "write" /\ lock' = Nothing
    /\ listed' = [listed EXCEPT ![up[u].base] =
          IF up[u].op = "delete" THEN up[u].doc \ up[u].done ELSE up[u].doc \cup up[u].done]
    /\ up' = [up EXCEPT ![u] = NoWork] /\ overtaken' = FALSE
    /\ UNCHANGED <<base, file, serial, cache, reader, switches>>

(* The tarball's index replaces the old one as a whole, without the lock.  *)
ReplaceIndex ==
    /\ up[Tarball].pc = "index" /\ up' = [up EXCEPT ![Tarball] = NoWork]
    /\ listed' = [listed EXCEPT ![up[Tarball].base] = up[Tarball].done]
    /\ overtaken' = (lock # Nothing)
    /\ UNCHANGED <<base, file, serial, cache, reader, lock, switches>>

Reads(r)  == (\E c \in Used : Lookup(r, c)) \/ StatGz(r) \/ StatPlain(r) \/ Compare(r) \/ Load(r) \/ Store(r)
Writes(u) == (\E c \in Names : RemoveOld(u, c) \/ SwapIn(u, c)) \/ ReadIndex(u) \/ WriteIndex(u)
Next ==
    \/ \E r \in Readers : Reads(r)
    \/ \E c \in Used : Expire(c)
    \/ \E u \in Updaters : Writes(u) \/ GivesUp(u) \/ \E c \in Names : Download(u, c) \/ Delete(u, c)
    \/ \E keep \in Archives : Update(keep)
    \/ ReplaceIndex \/ Configure

(* Hosts keep being looked up and time passes; nobody has to update.       *)
Fairness ==
    /\ \A r \in Readers : WF_vars(StatGz(r) \/ StatPlain(r) \/ Compare(r) \/ Load(r) \/ Store(r))
    /\ \A c \in Used : WF_vars(Expire(c)) /\ \E r \in Readers : SF_vars(Lookup(r, c))
    /\ \A u \in Updaters : WF_vars(Writes(u) \/ (InTheWay(u) /\ GivesUp(u)))
    /\ WF_vars(ReplaceIndex)

Spec     == Init /\ [][Next]_vars
FairSpec == Spec /\ Fairness

-----------------------------------------------------------------------------
(* Properties                                                              *)

TypeOK ==
    /\ base \in Bases /\ serial \in 1..MaxWrites + 1 /\ switches \in 0..MaxSwitches /\ overtaken \in BOOLEAN
    /\ file \in [Bases -> [Names -> List \cup {Nothing}]]
    /\ listed \in [Bases -> SUBSET Names] /\ lock \in Threads \cup {Nothing}
    /\ cache \in [Used -> [mtime : 0..MaxWrites + 1, domains : List, stale : BOOLEAN] \cup {Nothing}]
    /\ reader \in [Readers -> [pc : {"idle", "stat", "stat2", "compare", "load", "store"},
                               name : Used \cup {Nothing}, base : Bases \cup {Nothing},
                               seen : List \cup {Nothing}, got : List \cup {Nothing}]]
    /\ up \in [Updaters -> [pc : {"idle", "remove", "swap", "index", "write"},
                            op : {"download", "delete", "update", Nothing}, base : Bases \cup {Nothing},
                            todo : SUBSET Names, staged : List \cup {Nothing},
                            done : SUBSET Names, doc : SUBSET Names]]

(* An entry whose time is the file's is never loaded again, so it must     *)
(* hold that file, although the file was replaced, removed or moved to     *)
(* another directory between stat, open and store.                         *)
FreshMeansCurrent ==
    \A c \in Used : (cache[c] # Nothing /\ file[base][c] # Nothing /\ cache[c].mtime = file[base][c].at)
                       => cache[c].domains = file[base][c]

(* Downloads and deletions that overlap, of one category or of several, do *)
(* not lose each other's index entry: what leaves the index is what is     *)
(* being deleted, or is not in the tarball that replaces the index.  The   *)
(* process of the tarball knows nothing of the lock: the cycle it falls    *)
(* into (overtaken) may lose what it listed.                               *)
KeepsEntries ==
    \A b \in Bases : \A c \in listed[b] \ listed'[b] :
        \/ \E u \in Threads :
              /\ up[u].pc = "write" /\ up'[u].pc = "idle"
              /\ overtaken \/ (up[u].op = "delete" /\ c \in up[u].done)
        \/ up[Tarball].pc = "index" /\ up'[Tarball].pc = "idle" /\ listed'[b] = up[Tarball].done
EntriesKept == [][KeepsEntries]_vars

(* Once nobody writes any more, hosts are matched against the lists that   *)
(* are there, also if an emptied directory was cached meanwhile.           *)
Follows ==
    <>[](\A c \in Used : cache[c] # Nothing /\
            cache[c].domains = IF file[base][c] = Nothing THEN EmptySet ELSE file[base][c])

(* What does not hold. A category that is being replaced is gone for a     *)
(* moment (download.go:41 says it is swapped in atomically), and its       *)
(* entry may be missing from the index although it is installed.           *)
SwappedAtomically ==
    [][\A b \in Bases, c \in Names : (file[b][c] # Nothing /\ file'[b][c] = Nothing) =>
          \E u \in Threads : up'[u].op = "delete"]_vars
IndexTellsInstalled ==
    (\A u \in Updaters : up[u].pc = "idle") => \A b \in Bases : listed[b] = {c \in Names : file[b][c] # Nothing}
=============================================================================
