SPECIFICATION FairSpec
CONSTANTS
    Conns = {c1}
    Passwords = {right, wrong}
    NoPassword = NoPassword
    Nothing = Nothing
    MgmtName = MgmtName
    MgmtAddr = MgmtAddr
    right = right
    bad = bad
    mixed = mixed
    Hosts <- AllHosts
    Configs <- AnyAuth
    Policies <- OnePolicy
    ForeignLists <- NoOtherLists
    MaxRequests = 2
    MaxChanges = 1
PROPERTIES OnlyAuthenticated AnswersEventually
