SPECIFICATION Spec
CONSTANTS
    Conns = {c1}
    Passwords = {}
    NoPassword = NoPassword
    Nothing = Nothing
    MgmtName = MgmtName
    MgmtAddr = MgmtAddr
    right = right
    bad = bad
    mixed = mixed
    Hosts <- AllHosts
    Configs <- AuthOff
    Policies <- AllPolicies
    ForeignLists <- OtherLists
    MaxRequests = 1
    MaxChanges = 2
INVARIANTS TypeOK VerdictsKept OneRowPerRequest
PROPERTIES BlockedNeverReached SplicedOnlyIfExcluded
