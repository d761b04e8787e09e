SPECIFICATION RulesSpec
CONSTANTS
    Bits = 2
    Days = 3
    PerDay = 3
    Macs = {m1}
    NoMac = NoMac
    Pool <- SomePolicies
    MaxPolicies = 3
    V4 = {0, 1}
    TTL = 1
    NoTable = NoTable
    Absent = Absent
    Null = Null
    Nothing = Nothing
    Blank = Blank
    Parked = Parked
    Names = {"n1", "n2"}
    Known = {"e1", "e2"}
    Other = "e3"
    Tabs = {"t1", "t2"}
    Values = {"v"}
    Messages <- SomeMessages
    MaxBodyBytes = 3
    MaxHeaderBytes = 2
    TrustClientIPHeader = TRUE
    NormalizeAcceptEncoding = TRUE
    Peer = "proxy"
    Docs <- SomeDocuments
    Ports = {2}
    Levels = {"mine"}
    Dirs = {"home", "other"}
    Home = "home"
    Bundles <- SomeBundles
    Importers = {"i1", "i2"}
    Hosts = {"h1"}
    MaxMade = 2
    Requests = {"r1", "r2"}
    Answers <- SomeAnswers
    Configs <- SomeDoh
    BlockAddrs = {"sink"}
    EdeBlockCodes = {15}
    DefaultTTL = 2
    FailTTL = 1
    MaxTTL = 3
    Timeout = 1
    MaxClock = 4
    Browsers = {"any", "admin"}
    Passwords = {"pw"}
    Bearers = {"t"}
    MaxPasswords = 1
    MaxFlips = 1
    Callers = {"button", "page", "cli"}
    Process <- SomeProcess
    Assets <- SomeAssets
    MaxAssetBytes = 2
    InUseFails = TRUE
    Patterns <- SomePatterns
    Urls <- SomeUrls
    MinTokenLen = 2
    StopTokens <- SomeStopTokens
    Sites <- SomeSites
    UrlPaths = {"ads", "page"}
    Lines <- SomeLines
    Cosmetics <- SomeCosmetics
    MaxLines = 3
    Keyed = {"k"}
    Exempted <- SitesSpared
    Nowhere = Nowhere
    Latin = {"a", "b"}
    Cyrillic = {"y"}
    Han = {"h", "i"}
    Marks = {"m"}
    Digits = {"1"}
    Symbols = {"+"}
    MinHan = 2
    Entries <- SomeEntries
    Tags = {"en", "de-AT"}
    Files <- SomeFiles
    Extras <- SomeExtras
    Elements = {"div", "code", "br"}
    SkipTags = {"code"}
    VoidTags = {"br"}
    Texts <- SomeTexts
    MaxNodes = 3
    NoTag = NoTag
    Elsewhere = Elsewhere
INVARIANTS PolicySound MeaningKept FiltersApplied CensoredAsWritten TransactionSound DeviceSound RootSound VerdictOnGrounds SessionSound InstallSound
\* a match, a page and a document come to an end
CHECK_DEADLOCK FALSE
