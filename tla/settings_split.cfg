SPECIFICATION FairSpec
CONSTANTS
    Handlers = {h1}
    Watcher = w
    CoLocated = FALSE
    Patches <- OneFieldPatches
    Prompt = TRUE
    QuietStart = TRUE
    MaxSaves = 2
    MaxEdits = 1
    MaxRestarts = 1
INVARIANTS CachesFollow
PROPERTIES FollowsFile NoLostUpdate
CHECK_DEADLOCK FALSE
