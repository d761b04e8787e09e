SPECIFICATION Spec
CONSTANTS
    Messages <- Uploads
    MaxBodyBytes = 3
    MaxHeaderBytes = 2
    TrustClientIPHeader = TRUE
    NormalizeAcceptEncoding = TRUE
    Peer = "proxy"
    NoTxn = NoTxn
INVARIANT HandedBackWhole
\* the connection ends
CHECK_DEADLOCK FALSE
