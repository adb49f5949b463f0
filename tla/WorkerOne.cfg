CONSTANTS
    Requests = {r1}
    Connections = {c1, c2}
    PGconns = {p1, p2}
    NumPeers = 2
    Addr <- TwoAddrs
    MaxCached = 1
    Single = FALSE
    Reject = TRUE
    UintMax = 7
    MayFail = {"ngx_pnalloc", "PQconnectStart", "PQsocket", "ngx_get_connection", "ngx_add_event", "PQsendQuery"}
    None = None
    ZeroFd = ZeroFd
    Scripts <- AllScripts
SPECIFICATION WorkerSpec
INVARIANTS
    WorkerTypeOK
    CachedIsClean
    EveryWaitIsTimed
    ConnectWakesUp
PROPERTIES
    OneAnswer
    UsesKeepalive
    Answered
