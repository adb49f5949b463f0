CONSTANTS
    Requests = {r1, r2}
    Names = {db, web}
    Databases = {d1, d2}
    Resolve <- MCResolve
    KeepaliveArgs <- MCKeepaliveArgs
    MaxDirectives = 5
    None = None

SPECIFICATION Spec
SYMMETRY Slots

INVARIANTS
    UpstreamTypeOK
    OwnUpstream
    OnlyDatabases
    RefusedRightly
    PeersMatchServers
    KeepaliveAsWritten
