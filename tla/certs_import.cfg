SPECIFICATION Spec
CONSTANTS
    Bundles <- OwnCA
    Importers = {i1}
    Hosts = {h1}
    None = None
    MaxMade = 2
INVARIANT ManagementFollows
CHECK_DEADLOCK FALSE
