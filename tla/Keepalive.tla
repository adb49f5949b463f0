------------------------------ MODULE Keepalive ------------------------------
(***************************************************************************)
(* The keepalive connection pool of one upstream block, in one nginx       *)
(* worker: ngx_postgres_keepalive.c and the peer functions of              *)
(* ngx_postgres_upstream.c that take a connection for a request, give it   *)
(* back and destroy it.                                                    *)
(*                                                                         *)
(* A database connection is two objects that must travel together: an      *)
(* ngx_connection_t (Connections) registered with the event loop, and the  *)
(* PGconn of libpq (PGconns) that owns the socket.  They are separate here *)
(* because they are separate in the code, and freed by separate calls.     *)
(*                                                                         *)
(* The functions run to completion on one thread.  A request's peer        *)
(* functions are called by nginx and by the handlers of                    *)
(* ngx_postgres_processor.c and ngx_postgres_util.c; this module allows    *)
(* every order of calls those callers can make, and more (the module       *)
(* Worker has the callers themselves).                                     *)
(***************************************************************************)
EXTENDS Integers, Sequences, FiniteSets, Functions

CONSTANTS
    Requests,       \* requests that may use the upstream at the same time
    Connections,    \* ngx_connection_t structures left for this upstream
    PGconns,        \* PGconn structures libpq can allocate
    NumPeers,       \* peers->number: addresses of the postgres_server lines
    Addr,           \* Addr[k]: the sockaddr of peer k (two peers may share one)
    MaxCached,      \* postgres_keepalive max=, 0 for "off"
    Single,         \* mode=single (TRUE) or mode=multi
    Reject,         \* overflow=reject (TRUE) or overflow=ignore
    UintMax,        \* largest ngx_uint_t
    MayFail,        \* the calls into libpq and nginx that may fail
    None,           \* NULL, and fd -1
    ZeroFd          \* fd 0, carried by the placeholder of a rejected request

Peers == 0..(NumPeers - 1)
Items == 1..MaxCached
Fallible == {"ngx_pnalloc", "PQconnectStart", "PQsocket",
             "ngx_get_connection", "ngx_add_event", "ngx_del_event",
             "PQsendQuery"}

ASSUME PeersAssumption ==
    /\ NumPeers \in Nat \ {0}
    /\ DOMAIN Addr = Peers
    /\ None \notin {Addr[k] : k \in Peers}
ASSUME PoolAssumption ==
    /\ MaxCached \in Nat
    /\ Single \in BOOLEAN
    /\ Reject \in BOOLEAN
    /\ MayFail \subseteq Fallible
ASSUME ResourceAssumption ==
    /\ IsFiniteSet(PGconns)
    /\ UintMax \in Nat
    /\ Cardinality(PGconns) <= UintMax
    /\ MaxCached <= UintMax
ASSUME NullAssumption ==
    /\ None \notin Requests \cup Connections \cup PGconns \cup Peers \cup Items
    /\ ZeroFd \notin PGconns \cup {None}
    /\ Requests \cap Items = {}

VARIABLES
    cache,          \* pgscf->cache: items in use, most recently used first
    free,           \* pgscf->free: unused items
    item,           \* the ngx_postgres_keepalive_cache_t array
    active_conns,   \* pgscf->active_conns, unsigned
    current,        \* pgscf->current: round-robin index
    max_cached,     \* pgscf->max_cached: MaxCached until the cleanup
    conn,           \* the ngx_connection_t structures
    dialled,        \* libpq: the peer an open PGconn was dialled to, or None
    peer,           \* per request: u->peer and its ngx_postgres_upstream_peer_data_t
    phase,          \* per request: how far nginx has brought it
    worker          \* "running", "exited", or "crashed" on a NULL pointer

poolVars == <<cache, free, item, active_conns, current, max_cached>>
keepaliveVars == <<poolVars, conn, dialled, peer, phase, worker>>

Addrs == {Addr[k] : k \in Peers}

(* ngx_get_connection zeroes the structure; a free one has fd -1. *)
FreeConn == [fd |-> None, data |-> None, handler |-> "none",
             idle |-> FALSE, timers |-> {}]

(* ngx_pcalloc in ngx_postgres_upstream_init_peer and ngx_http_upstream_create. *)
NewPeer == [connection |-> None, pgconn |-> None, sockaddr |-> None,
            cached |-> FALSE, failed |-> FALSE]

(* "new": init_peer is done, get_peer is next.  "again", "declined",        *)
(* "error": what get_peer returned, nginx still in ngx_http_upstream_connect. *)
(* "placeholder": nginx returned to ngx_postgres_handler with the           *)
(* placeholder of a rejected request.                                       *)
(* "failed": inside upstream_next, between its free_peer and its            *)
(* finalize_request.                                                        *)
Phases == {"done", "new", "again", "declined", "error", "placeholder",
           "active", "failed"}

ItemRecords == [connection : Connections \cup {None}, pgconn : PGconns \cup {None},
                sockaddr : Addrs \cup {None}]
ConnRecords == [fd : PGconns \cup {None, ZeroFd},
                data : Requests \cup Items \cup {None},
                handler : {"none", "upstream", "keepalive"},
                idle : BOOLEAN, timers : SUBSET {"read", "write"}]
PeerRecords == [connection : Connections \cup {None}, pgconn : PGconns \cup {None},
                sockaddr : Addrs \cup {None}, cached : BOOLEAN, failed : BOOLEAN]

KeepaliveTypeOK ==
    /\ cache \in Seq(Items)
    /\ free \in Seq(Items)
    /\ item \in [Items -> ItemRecords]
    /\ active_conns \in 0..UintMax
    /\ current \in 0..NumPeers
    /\ max_cached \in {0, MaxCached}
    /\ conn \in [Connections -> ConnRecords]
    /\ dialled \in [PGconns -> Peers \cup {None}]
    /\ peer \in [Requests -> PeerRecords]
    /\ phase \in [Requests -> Phases]
    /\ worker \in {"running", "exited", "crashed"}

-----------------------------------------------------------------------------
(* Helpers *)

Open == {p \in PGconns : dialled[p] # None}
Cached == Range(cache)

(* Each definition named X_Y is X with a plausible mistake in it; PROJECT.json *)
(* says which property notices.                                              *)
Decr_Forgotten(n) == n
Decr_Signed(n) == n - 1
Incr(n) == IF n = UintMax THEN 0 ELSE n + 1
Decr(n) == IF n = 0 THEN UintMax ELSE n - 1

(* ngx_queue_insert_head; ngx_queue_remove of the item at position k. *)
InsertHead(q, i) == <<i>> \o q
RemoveIndex_Kept(q, k) == q
RemoveIndex_Prefix(q, k) == SubSeq(q, 1, k - 1)
RemoveIndex(q, k) == SubSeq(q, 1, k - 1) \o SubSeq(q, k + 1, Len(q))

(* What ngx_get_connection may return: NULL when the worker has none left, *)
(* and, other modules drawing on the same connections, at any time.        *)
GetConnection ==
    LET unused == {c \in Connections : conn[c].fd = None}
    IN  IF unused = {} \/ "ngx_get_connection" \in MayFail
        THEN unused \cup {None} ELSE unused

(* ngx_postgres_upstream_free_connection, applied to the structures: the   *)
(* timers and events go with the connection, PQfinish(NULL) does nothing.  *)
FreeConnection(cs, c) == IF c = None THEN cs ELSE [cs EXCEPT ![c] = FreeConn]
Finish_Skipped(d, p) == d
Finish(d, p) == IF p = None THEN d ELSE [d EXCEPT ![p] = None]

(* The event loop runs handlers only when no peer function is on the stack. *)
EventLoop ==
    /\ worker = "running"
    /\ \A r \in Requests : phase[r] \in {"done", "active"}

Init ==
    /\ cache = <<>>
    /\ free = [k \in Items |-> MaxCached + 1 - k]
    /\ item = [i \in Items |-> [connection |-> None, pgconn |-> None,
                                sockaddr |-> None]]
    /\ active_conns = 0
    /\ current = 0
    /\ max_cached = MaxCached
    /\ conn = [c \in Connections |-> FreeConn]
    /\ dialled = [p \in PGconns |-> None]
    /\ peer = [r \in Requests |-> NewPeer]
    /\ phase = [r \in Requests |-> "done"]
    /\ worker = "running"

-----------------------------------------------------------------------------
(* ngx_postgres_upstream_init_peer: a request reaches the upstream. *)

InitPeer(r) ==
    /\ EventLoop
    /\ phase[r] = "done"
    /\ phase' = [phase EXCEPT ![r] = "new"]
    /\ peer' = [peer EXCEPT ![r] = NewPeer]
    /\ UNCHANGED <<poolVars, conn, dialled, worker>>

-----------------------------------------------------------------------------
(* ngx_postgres_upstream_get_peer, one action per outcome. *)

GetPeer(r) ==
    /\ worker = "running"
    /\ phase[r] = "new"

(* Lines 283-299: the next peer of the round robin. *)
Chosen == IF current > NumPeers - 1 THEN 0 ELSE current

(* What get_peer_single and get_peer_multi copy from the item to the peer.  *)
Taken_NoPGconn(p, i, a) ==
    [p EXCEPT !.connection = item[i].connection, !.sockaddr = a,
              !.cached = TRUE, !.failed = FALSE]
Taken(p, i, a) ==
    [p EXCEPT !.connection = item[i].connection, !.pgconn = item[i].pgconn,
              !.sockaddr = a, !.cached = TRUE, !.failed = FALSE]

(* The item at position k of the cache changes hands: its connection goes  *)
(* to r, the item goes to the head of the free queue.                      *)
Reuse(r, k, a) ==
    LET i == cache[k]
    IN  /\ cache' = RemoveIndex(cache, k)
        /\ free' = InsertHead(free, i)
        /\ conn' = [conn EXCEPT ![item[i].connection].idle = FALSE]
        /\ peer' = [peer EXCEPT ![r] = Taken(@, i, a)]
        /\ phase' = [phase EXCEPT ![r] = "again"]
        /\ UNCHANGED <<item, active_conns, max_cached, dialled, worker>>

(* ngx_postgres_keepalive_get_peer_single: the last connection put back,   *)
(* whatever its peer; the round robin does not advance.                    *)
GetPeerSingle(r) ==
    /\ GetPeer(r)
    /\ max_cached > 0 /\ Single
    /\ cache # <<>>
    /\ Reuse(r, 1, item[cache[1]].sockaddr)
    /\ UNCHANGED current

Matches_Any(a) == DOMAIN cache
Matches(a) == {k \in DOMAIN cache : item[cache[k]].sockaddr = a}

(* ngx_postgres_keepalive_get_peer_multi: the first cached connection with *)
(* the address of the peer the round robin chose.                          *)
GetPeerMulti(r) ==
    /\ GetPeer(r)
    /\ max_cached > 0 /\ ~Single
    /\ \E k \in Matches(Addr[Chosen]) :
          /\ \A j \in Matches(Addr[Chosen]) : k <= j
          /\ Reuse(r, k, Addr[Chosen])
    /\ current' = Chosen + 1

(* Lines 268 and 301 found nothing to re-use. *)
MissesCache(r) ==
    /\ GetPeer(r)
    /\ max_cached > 0 =>
          IF Single THEN cache = <<>> ELSE Matches(Addr[Chosen]) = {}
    /\ current' = Chosen + 1
    /\ UNCHANGED <<cache, free, item, max_cached, worker>>

Full_OffByOne == Reject /\ active_conns > max_cached
Full == Reject /\ active_conns >= max_cached

(* get_peer leaves the request with connection c and PGconn p, and returns rc. *)
Leave(r, c, p, rc) ==
    /\ peer' = [peer EXCEPT ![r] =
                  [@ EXCEPT !.connection = c, !.pgconn = p,
                            !.sockaddr = Addr[Chosen], !.cached = FALSE,
                            !.failed = FALSE]]
    /\ phase' = [phase EXCEPT ![r] = rc]

(* Lines 316-330: a placeholder connection makes nginx come back to the     *)
(* handler, which answers 503.                                              *)
RejectPeer(r) ==
    /\ MissesCache(r)
    /\ Full
    /\ \E c \in GetConnection :
          /\ conn' = IF c = None THEN conn
                     ELSE [conn EXCEPT ![c] = [FreeConn EXCEPT !.fd = ZeroFd]]
          /\ Leave(r, c, None, "again")
    /\ UNCHANGED <<active_conns, dialled>>

(* Lines 340-344: no memory for the connection string. *)
ConnectNoMemory(r) ==
    /\ MissesCache(r)
    /\ ~Full
    /\ "ngx_pnalloc" \in MayFail
    /\ Leave(r, None, None, "error")
    /\ UNCHANGED <<conn, active_conns, dialled>>

(* Lines 368-384: PQconnectStart failed, no spot is taken. *)
ConnectDeclined(r) ==
    /\ MissesCache(r)
    /\ ~Full
    /\ "PQconnectStart" \in MayFail \/ Open = PGconns
    /\ Leave(r, None, None, "declined")
    /\ UNCHANGED <<conn, active_conns, dialled>>

(* Lines 393-415 and 468-475: the spot is taken, then the socket or the     *)
(* ngx_connection_t is missing, and ngx_postgres_upstream_free_connection   *)
(* gives the spot back.                                                     *)
ConnectInvalid(r) ==
    /\ MissesCache(r)
    /\ ~Full
    /\ "PQsocket" \in MayFail \/ None \in GetConnection
    /\ \E p \in PGconns \ Open : Leave(r, None, p, "error")
    /\ active_conns' = Decr(Incr(active_conns))
    /\ UNCHANGED <<conn, dialled>>

(* Lines 430-475: the event module refuses the connection.  The connection  *)
(* is destroyed, but the request keeps both of its pointers.                *)
ConnectBadAdd(r) ==
    /\ MissesCache(r)
    /\ ~Full
    /\ "ngx_add_event" \in MayFail
    /\ \E p \in PGconns \ Open, c \in GetConnection \ {None} :
          Leave(r, c, p, "error")
    /\ active_conns' = Decr(Incr(active_conns))
    /\ UNCHANGED <<conn, dialled>>

(* Lines 368-461: a new connection, registered with the event loop. *)
ConnectPeer(r) ==
    /\ MissesCache(r)
    /\ ~Full
    /\ \E p \in PGconns \ Open, c \in GetConnection \ {None} :
          /\ dialled' = [dialled EXCEPT ![p] = Chosen]
          /\ conn' = [conn EXCEPT ![c] = [FreeConn EXCEPT !.fd = p]]
          /\ Leave(r, c, p, "again")
    /\ active_conns' = Incr(active_conns)

-----------------------------------------------------------------------------
(* nginx and ngx_postgres_handler around get_peer. *)

(* ngx_http_upstream_connect after NGX_AGAIN: the connection is the        *)
(* request's, its handlers are the upstream's, the connect timer runs.      *)
Attached(x, r) == [x EXCEPT !.data = r, !.handler = "upstream",
                            !.timers = x.timers \cup {"write"}]
Attach(r) ==
    LET c == peer[r].connection
    IN  /\ worker = "running"
        /\ phase[r] = "again"
        /\ c # None
        /\ conn' = [conn EXCEPT ![c] = Attached(@, r)]
        /\ phase' = [phase EXCEPT ![r] = IF conn[c].fd = ZeroFd
                                         THEN "placeholder" ELSE "active"]
        /\ UNCHANGED <<poolVars, dialled, peer, worker>>

(* Undefined behaviour that may end the worker.  When get_peer returned     *)
(* NGX_AGAIN without a connection, the first use of u->peer.connection is a *)
(* NULL dereference, and nothing else can follow.  When it returned         *)
(* NGX_ERROR with a connection it had destroyed, ngx_postgres_upstream_free_peer *)
(* calls PQfinish again on freed memory: this, or FinishPeer, if that goes  *)
(* unnoticed (what it does to the heap and nginx's list is not modelled).   *)
Crash(r) ==
    /\ worker = "running"
    /\ \/ phase[r] = "again" /\ peer[r].connection = None
       \/ phase[r] = "error" /\ peer[r].connection # None
    /\ worker' = "crashed"
    /\ UNCHANGED <<poolVars, conn, dialled, peer, phase>>

(* The clean-up part of ngx_postgres_handler. *)
DropPlaceholder(r) ==
    LET c == peer[r].connection
    IN  /\ worker = "running"
        /\ phase[r] = "placeholder"
        /\ c # None
        /\ conn' = FreeConnection(conn, c)
        /\ peer' = [peer EXCEPT ![r].connection = None]
        /\ UNCHANGED <<poolVars, dialled, phase, worker>>

(* ngx_postgres_upstream_send_query and nginx set timers, the processing    *)
(* functions delete them.                                                   *)
ChangeTimers(r) ==
    LET c == peer[r].connection
    IN  /\ \/ phase[r] = "active" /\ EventLoop
           \/ phase[r] = "again" /\ worker = "running"
        /\ c # None
        /\ conn[c].fd \in PGconns
        /\ \E t \in SUBSET {"read", "write"} :
              conn' = [conn EXCEPT ![c].timers = t]
        /\ UNCHANGED <<poolVars, dialled, peer, phase, worker>>

-----------------------------------------------------------------------------
(* ngx_postgres_upstream_free_peer *)

(* A connection saved in item i: no timers, events to the keepalive handlers. *)
Parked_TimersLeft(x, i) ==
    [x EXCEPT !.data = i, !.handler = "keepalive", !.idle = TRUE]
Parked(x, i) ==
    [x EXCEPT !.data = i, !.handler = "keepalive", !.idle = TRUE, !.timers = {}]

(* pc->connection = NULL. *)
Detached_Forgotten(p) == p
Detached(p) == [p EXCEPT !.connection = None]

(* ngx_postgres_keepalive_free_peer keeps the connection: not failed, and   *)
(* ok, the response's status_n is 200.  The item that holds it is the head  *)
(* of the free queue, or the least recently used one, whose connection is   *)
(* closed.                                                                  *)
SavePeer(r, failed, ok) ==
    LET c == peer[r].connection
        evict == free = <<>>
        i == IF evict THEN cache[Len(cache)] ELSE free[1]
    IN  /\ max_cached > 0
        /\ ~(failed \/ peer[r].failed) /\ c # None /\ ok
        /\ cache' = InsertHead(IF evict THEN RemoveIndex(cache, Len(cache))
                               ELSE cache, i)
        /\ free' = IF evict THEN free ELSE Tail(free)
        /\ conn' = [(IF evict THEN FreeConnection(conn, item[i].connection)
                     ELSE conn) EXCEPT ![c] = Parked(@, i)]
        /\ dialled' = IF evict THEN Finish(dialled, item[i].pgconn) ELSE dialled
        /\ active_conns' = IF evict THEN Decr(active_conns) ELSE active_conns
        /\ item' = [item EXCEPT ![i] = [connection |-> c,
                                        pgconn |-> peer[r].pgconn,
                                        sockaddr |-> peer[r].sockaddr]]
        /\ peer' = [peer EXCEPT ![r] = Detached(@)]
        /\ UNCHANGED <<current, max_cached>>

(* Otherwise the connection, if there is one, is closed.  A failing          *)
(* ngx_del_event makes keepalive_free_peer give up before it saves.          *)
ClosePeer(r, failed, ok) ==
    LET c == peer[r].connection
        sticky == peer[r].failed \/ (failed /\ max_cached > 0)
    IN  /\ \/ max_cached = 0 \/ sticky \/ c = None \/ ~ok
           \/ "ngx_del_event" \in MayFail
        /\ IF c = None
           THEN /\ peer' = [peer EXCEPT ![r].failed = sticky]
                /\ UNCHANGED <<conn, dialled, active_conns>>
           ELSE /\ peer' = [peer EXCEPT ![r] =
                              [@ EXCEPT !.connection = None, !.pgconn = None,
                                        !.failed = sticky]]
                /\ conn' = FreeConnection(conn, c)
                /\ dialled' = Finish(dialled, peer[r].pgconn)
                /\ active_conns' = Decr(active_conns)
        /\ UNCHANGED <<cache, free, item, current, max_cached>>

FreePeer(r, failed, ok) ==
    /\ worker = "running"
    /\ SavePeer(r, failed, ok) \/ ClosePeer(r, failed, ok)
    /\ UNCHANGED worker

(* ngx_postgres_upstream_next gives the peer back as failed.  On a re-used   *)
(* connection get_peer itself sends the query, so the failure may come       *)
(* while nginx is still waiting for get_peer.                                *)
FailPeer(r) ==
    /\ \/ phase[r] = "active" /\ EventLoop
       \/ phase[r] = "declined"
       \/ phase[r] = "again" /\ peer[r].cached /\ "PQsendQuery" \in MayFail
    /\ FreePeer(r, TRUE, FALSE)
    /\ phase' = [phase EXCEPT ![r] = IF @ = "again" THEN @ ELSE "failed"]

(* ngx_postgres_upstream_finalize_request, at the end of the request; ok     *)
(* after ngx_postgres_upstream_done.  From "new": init_peer itself failed.   *)
FinishPeer(r, ok) ==
    /\ \/ phase[r] = "active" /\ EventLoop
       \/ phase[r] \in {"new", "error", "failed"}
       \/ phase[r] = "placeholder" /\ peer[r].connection = None
       \/ phase[r] = "again" /\ peer[r].failed
    /\ ok => phase[r] = "active"
    /\ FreePeer(r, FALSE, ok)
    /\ phase' = [phase EXCEPT ![r] = IF @ = "again" THEN @ ELSE "done"]

-----------------------------------------------------------------------------
(* Events on idle connections, and the end of the worker. *)

(* ngx_postgres_keepalive_close_handler, from line 299: the server closed   *)
(* the idle connection, sent a result on it, or nginx asked for it (c->close). *)
(* On its early return (line 289) nothing changes.                          *)
CloseHandler(c) ==
    LET i == conn[c].data
    IN  /\ EventLoop
        /\ conn[c].handler = "keepalive"
        /\ conn' = FreeConnection(conn, c)
        /\ dialled' = Finish(dialled, item[i].pgconn)
        /\ active_conns' = Decr(active_conns)
        /\ \E k \in DOMAIN cache :
              cache[k] = i /\ cache' = RemoveIndex(cache, k)
        /\ free' = InsertHead(free, i)
        /\ UNCHANGED <<item, current, max_cached, peer, phase, worker>>

(* ngx_postgres_keepalive_cleanup: runs when the pool of the configuration  *)
(* is destroyed, and nothing of the worker runs after it.  The items do not *)
(* go back to the free queue.                                               *)
Cleanup ==
    LET gone == {item[i].connection : i \in Cached}
        finished == {item[i].pgconn : i \in Cached}
    IN  /\ EventLoop
        /\ worker' = "exited"
        /\ IF MaxCached = 0     \* cache.prev == NULL: the queue was never initialized
           THEN UNCHANGED <<cache, max_cached, conn, dialled, active_conns>>
           ELSE /\ max_cached' = 0
                /\ cache' = <<>>
                /\ conn' = [c \in Connections |->
                              IF c \in gone THEN FreeConn ELSE conn[c]]
                /\ dialled' = [p \in PGconns |->
                              IF p \in finished THEN None ELSE dialled[p]]
                /\ active_conns' = (active_conns - Len(cache)) % (UintMax + 1)
        /\ UNCHANGED <<free, item, current, peer, phase>>

-----------------------------------------------------------------------------
Next ==
    \/ \E r \in Requests :
          \/ InitPeer(r)
          \/ GetPeerSingle(r) \/ GetPeerMulti(r)
          \/ RejectPeer(r) \/ ConnectNoMemory(r) \/ ConnectDeclined(r)
          \/ ConnectInvalid(r) \/ ConnectBadAdd(r) \/ ConnectPeer(r)
          \/ Attach(r) \/ Crash(r) \/ DropPlaceholder(r) \/ ChangeTimers(r)
          \/ FailPeer(r)
          \/ \E ok \in BOOLEAN : FinishPeer(r, ok)
    \/ \E c \in Connections : CloseHandler(c)
    \/ Cleanup
    \/ worker # "running" /\ UNCHANGED keepaliveVars

Spec == Init /\ [][Next]_keepaliveVars

-----------------------------------------------------------------------------
(* Properties *)

Holds(r) == peer[r].connection # None
HoldsPlaceholder(r) == Holds(r) /\ conn[peer[r].connection].fd = ZeroFd
HoldsDatabase(r) == Holds(r) /\ conn[peer[r].connection].fd # ZeroFd

(* Every item is in exactly one of the two queues, once: an item taken from *)
(* one (get_peer, free_peer, the close handler) is always put in the other, *)
(* and none is lost until the cleanup.                                      *)
QueuesPartition ==
    /\ IsInjective(cache) /\ IsInjective(free)
    /\ Cached \cap Range(free) = {}
    /\ worker # "exited" => Cached \cup Range(free) = Items

(* active_conns, which decides who is rejected, is the number of open       *)
(* database connections: every path that dials takes one spot and every     *)
(* path that closes gives one back, none of them twice.                     *)
SpotAccounting == active_conns = Cardinality(Open)

(* A connection has one user: no two requests hold the same one, a cached   *)
(* one is held by no request and by one item.                               *)
ExclusiveUse ==
    /\ \A r, s \in Requests :
          r # s /\ Holds(r) => peer[r].connection # peer[s].connection
    /\ \A i \in Cached, r \in Requests :
          Holds(r) => peer[r].connection # item[i].connection
    /\ \A i, j \in Cached :
          item[i].connection = item[j].connection => i = j

(* The ngx_connection_t and the PGconn handed over together belong          *)
(* together: the socket registered with nginx is that of the PGconn.        *)
Paired ==
    /\ \A r \in Requests :
          HoldsDatabase(r) => conn[peer[r].connection].fd = peer[r].pgconn
    /\ \A i \in Cached : conn[item[i].connection].fd = item[i].pgconn

(* The open database connections are those that a request holds and those   *)
(* that are cached: none is leaked by an error path, and no pointer in use  *)
(* dangles.                                                                 *)
NoOrphan ==
    Open = {peer[r].pgconn : r \in {s \in Requests : HoldsDatabase(s)}}
           \cup {item[i].pgconn : i \in Cached}

(* An idle connection is in the cache, its event data is its own item, its  *)
(* events go to the keepalive handlers and no timer of the request that     *)
(* used it is left to fire on it; and every cached connection is idle.      *)
QuietWhenIdle ==
    /\ \A c \in Connections : conn[c].idle =>
          /\ conn[c].handler = "keepalive" /\ conn[c].timers = {}
          /\ conn[c].data \in Cached /\ item[conn[c].data].connection = c
    /\ \A i \in Cached :
          conn[item[i].connection].idle /\ conn[item[i].connection].data = i

(* The address recorded for a connection, the only thing multi mode matches *)
(* on, is the address it was dialled to, however often it changed hands.    *)
AddressTruth ==
    /\ \A r \in Requests : HoldsDatabase(r) =>
          peer[r].sockaddr = Addr[dialled[peer[r].pgconn]]
    /\ \A i \in Cached : item[i].sockaddr = Addr[dialled[item[i].pgconn]]

(* overflow=reject: never more open connections than max, cached or in use. *)
RejectBound == Reject => Cardinality(Open) <= MaxCached

(* mode=multi: a request, served from the cache or not, is connected to the *)
(* address the round robin chose for it.                                    *)
ServesChosen ==
    [][~Single => \A r \in Requests :
          phase[r] = "new" /\ phase'[r] = "again" /\ peer'[r].pgconn # None
          => Addr[dialled'[peer'[r].pgconn]] = Addr[Chosen]]_keepaliveVars

(* nginx never meets an upstream without a connection. *)
NeverCrashes == worker # "crashed"

-----------------------------------------------------------------------------
(* The pool keeps the promises of ConnectionPool: a request's use of a       *)
(* connection begins with get_peer and ends with free_peer.                  *)
UserOf(p) ==
    LET holders == {r \in Requests : HoldsDatabase(r) /\ peer[r].pgconn = p}
    IN  IF holders = {} THEN None ELSE CHOOSE r \in holders : TRUE

Pool == INSTANCE ConnectionPool WITH
    Users <- Requests, Conns <- PGconns, Max <- MaxCached, Nobody <- None,
    idle <- {item[i].pgconn : i \in Cached},
    user <- [p \in PGconns |-> UserOf(p)],
    addr <- [p \in PGconns |-> IF dialled[p] = None THEN None
                               ELSE Addr[dialled[p]]]

ImplementsPool == Pool!Spec

=============================================================================
