CONSTANTS
    Requests = {r1, r2}
    Connections = {c1, c2}
    PGconns = {p1, p2}
    NumPeers = 2
    Addr <- TwoAddrs
    MaxCached = 2
    Single = FALSE
    Reject = FALSE
    UintMax = 3
    MayFail = {"ngx_pnalloc", "PQconnectStart", "PQsocket", "ngx_get_connection", "ngx_del_event", "PQsendQuery", "ngx_add_event"}
    None = None
    ZeroFd = ZeroFd
SPECIFICATION Spec
SYMMETRY Slots
INVARIANT KeepaliveTypeOK
INVARIANT QueuesPartition
PROPERTY ServesChosen
