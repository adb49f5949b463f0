CONSTANTS
    Requests = {r1, r2}
    Connections = {c1, c2}
    PGconns = {p1, p2}
    NumPeers = 1
    Addr <- OneAddr
    MaxCached = 1
    Single = TRUE
    Reject = FALSE
    UintMax = 7
    MayFail = {}
    None = None
    ZeroFd = ZeroFd
    Scripts <- OneScript
SPECIFICATION WorkerSafety
SYMMETRY Slots
INVARIANTS
    CachedIsClean
    OwnResult
PROPERTIES
    OneAnswer
    UsesKeepalive
