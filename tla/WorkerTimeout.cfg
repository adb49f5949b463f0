CONSTANTS
    Requests = {r1}
    Connections = {c1}
    PGconns = {p1}
    NumPeers = 1
    Addr <- OneAddr
    MaxCached = 1
    Single = TRUE
    Reject = FALSE
    UintMax = 7
    MayFail = {}
    None = None
    ZeroFd = ZeroFd
    Scripts <- OneScript
SPECIFICATION WorkerSafety
PROPERTIES
    ConnectTimeoutConnects
