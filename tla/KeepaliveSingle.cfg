CONSTANTS
    Requests = {r1, r2}
    Connections = {c1, c2, c3}
    PGconns = {p1, p2, p3}
    NumPeers = 2
    Addr <- TwoAddrs
    MaxCached = 1
    Single = TRUE
    Reject = FALSE
    UintMax = 7
    MayFail = {"ngx_pnalloc", "PQconnectStart", "PQsocket", "ngx_get_connection", "ngx_del_event", "PQsendQuery"}
    None = None
    ZeroFd = ZeroFd
SPECIFICATION Spec
SYMMETRY Slots
INVARIANT QueuesPartition
INVARIANT SpotAccounting
INVARIANT ExclusiveUse
INVARIANT Paired
INVARIANT NoOrphan
INVARIANT QuietWhenIdle
PROPERTY ImplementsPool
