SPECIFICATION StoresSpec
CONSTANTS
    Writers = {web, native}
    Bridge = {native}
    MaxName = 3
    MaxOps = 3
    Readers = {r1}
    Nothing = Nothing
    MaxSwitches = 1
    NLists = 1
    Dirs = {d1, d2}
    MaxDownloads = 1
    MaxDeletes = 1
    MaxBuilds = 1
    Categories = {c1, c2}
    Used = {c1}
    Bases = {d1, d2}
    Threads = {t1, t2}
    Tarball = tarball
    MaxWrites = 2
INVARIANTS QuietMeansCurrent BypassBelongs NeverUnloaded NothingStale
PROPERTIES CatchesUp EntriesKept InstalledIsUsed
