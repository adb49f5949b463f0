CONSTANTS
    Requests = {r1, r2}
    Connections = {c1, c2, c3}
    PGconns = {p1, p2, p3}
    NumPeers = 1
    Addr <- OneAddr
    MaxCached = 1
    Single = TRUE
    Reject = TRUE
    UintMax = 7
    MayFail = {"ngx_add_event"}
    None = None
    ZeroFd = ZeroFd
SPECIFICATION Spec
SYMMETRY Slots
INVARIANT SpotAccounting
