SPECIFICATION FairSpec
CONSTANTS
    Handlers = {h1, h2}
    Watcher = w
    CoLocated = TRUE
    Patches <- OneFieldPatches
    Prompt = TRUE
    QuietStart = TRUE
    MaxSaves = 2
    MaxEdits = 0
    MaxRestarts = 0
INVARIANTS CategoriesFollow
CHECK_DEADLOCK FALSE
