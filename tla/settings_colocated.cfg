SPECIFICATION InTurnSpec
CONSTANTS
    Handlers = {h1, h2}
    Watcher = w
    CoLocated = TRUE
    Patches <- PagePatches
    Prompt = TRUE
    QuietStart = TRUE
    MaxSaves = 2
    MaxEdits = 0
    MaxRestarts = 1
INVARIANTS TypeOK SnapshotSound QuietMeansApplied
PROPERTIES EventuallyApplied
CHECK_DEADLOCK FALSE
