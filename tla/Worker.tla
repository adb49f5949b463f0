-------------------------------- MODULE Worker --------------------------------
(***************************************************************************)
(* One nginx worker running ngx_postgres: the event loop, the state machine *)
(* of a request on its database connection (ngx_postgres_processor.c), the  *)
(* event handlers (ngx_postgres_handler.c), the end of a request            *)
(* (ngx_postgres_util.c), and around them libpq, the sockets and the        *)
(* servers.  The connection pool and the peer functions are the actions of  *)
(* Keepalive; every step here that touches them is one of its steps.        *)
(*                                                                         *)
(* One C function is one action.  "pc" says which one runs next: "loop"     *)
(* when the worker waits for events, and then any event or timer may come.  *)
(* Events are edge-triggered (NGX_USE_CLEAR_EVENT, epoll): what is not read *)
(* when its event is handled is not announced again.                        *)
(***************************************************************************)
EXTENDS Keepalive

CONSTANT Scripts        \* what a server may answer to a query: sequences of kinds

ASSUME ScriptsAssumption ==
    \A s \in Scripts :
       /\ s \in Seq({"ok", "err", "ready"}) \ {<<>>}
       /\ \A k \in DOMAIN s : s[k] = "ready" <=> k = Len(s)

VARIABLES
    pc,         \* the function that runs next, its request and its rc or ft_type
    state,      \* pgdt->state
    status,     \* pgctx->status: 0, or what a rewrite, a variable or the output set
    response,   \* pgctx->response: the request whose query it answers, or None
    reply,      \* what ngx_http_finalize_request was called with, 0 before
    pg,         \* per PGconn: libpq, the socket and the server at its other end
    events,     \* per connection: the events epoll has yet to deliver
    wready      \* connections with write->ready set

requestVars == <<state, status, response, reply>>
ioVars == <<pg, events, wready>>
workerVars == <<keepaliveVars, pc, requestVars, ioVars>>

Loop == [fn |-> "loop", r |-> None, arg |-> 0]
Run(fn, r, arg) == [fn |-> fn, r |-> r, arg |-> arg]

OK == 200                           \* the client gets the response
SpecialResponse == 300              \* NGX_HTTP_SPECIAL_RESPONSE
Special == 404                      \* a status rewrites and the others may set
ClientClosed == 499                 \* the client gets nothing
Statuses == {0, Special}
Replies == {0, OK, Special, ClientClosed, 500, 502, 503, 504}
States == {"db_connect", "db_send_query", "db_get_result", "db_get_ack", "db_idle"}
FT_ERROR == 2                       \* NGX_HTTP_UPSTREAM_FT_ERROR, _TIMEOUT
FT_TIMEOUT == 4
FailTypes == {FT_ERROR, FT_TIMEOUT}

(* A message of the server, and the request whose query it answers. *)
Messages == [kind : {"welcome", "ok", "err", "ready", "notice"},
             to : Requests \cup {None}]
Message(kind, to) == [kind |-> kind, to |-> to]

(* status: PQstatus; async: what PQisBusy and PQgetResult go by; inbuf: read *)
(* and not parsed; net: the TCP connection ("gone": the server closed it,   *)
(* "resetting": and something was sent since); in: arrived and not read;    *)
(* todo: what the server has yet to send.                                   *)
NoPG == [status |-> "closed", async |-> "idle", inbuf |-> <<>>,
         net |-> "none", in |-> <<>>, todo |-> <<>>]

WorkerTypeOK ==
    /\ pc \in {Loop}
             \cup {Run("process_events", r, 0) : r \in Requests}
             \cup {Run("next", r, ft) : r \in Requests, ft \in FailTypes}
             \cup {Run("finalize", r, rc) : r \in Requests, rc \in Replies \ {0}}
    /\ state \in [Requests -> States]
    /\ status \in [Requests -> Statuses]
    /\ response \in [Requests -> Requests \cup {None}]
    /\ reply \in [Requests -> Replies]
    /\ \A p \in PGconns :
          /\ pg[p].status \in {"closed", "started", "made", "awaiting", "ok", "bad"}
          /\ pg[p].async \in {"idle", "busy", "ready"}
          /\ pg[p].net \in {"none", "connecting", "up", "refused", "gone", "resetting"}
          /\ {pg[p].inbuf, pg[p].in, pg[p].todo} \subseteq Seq(Messages)
    /\ events \in [Connections -> SUBSET {"read", "write"}]
    /\ wready \subseteq Connections

WorkerInit ==
    /\ Init
    /\ pc = Loop
    /\ state = [r \in Requests |-> "db_connect"]
    /\ status = [r \in Requests |-> 0]
    /\ response = [r \in Requests |-> None]
    /\ reply = [r \in Requests |-> 0]
    /\ pg = [p \in PGconns |-> NoPG]
    /\ events = [c \in Connections |-> {}]
    /\ wready = {}

-----------------------------------------------------------------------------
(* libpq, as far as the code relies on it *)

(* The client sends, and the server will answer with ms. *)
Sent(x, ms) == IF x.net = "up" THEN [x EXCEPT !.todo = ms]
               ELSE [x EXCEPT !.net = "resetting"]
Ended(x) == x.net \in {"gone", "resetting"}

(* PQconnectPoll.  PGRES_POLLING_OK is status "ok", _FAILED is "bad", and   *)
(* _READING or _WRITING any other.                                          *)
PQconnectPoll(x) ==
    CASE x.status = "started" -> [x EXCEPT !.status = "made"]
      [] x.status = "made" ->
            [Sent(x, <<Message("welcome", None)>>) EXCEPT !.status = "awaiting"]
      [] x.status = "awaiting" /\ x.in # <<>> ->
            [x EXCEPT !.status = "ok", !.in = Tail(x.in)]
      [] x.status = "awaiting" /\ x.in = <<>> /\ Ended(x) ->
            [x EXCEPT !.status = "bad"]
      [] OTHER -> x

(* PQconsumeInput reads once: some of what has arrived; it is when nothing  *)
(* has that it notices the end of the connection.  libpq handles a notice   *)
(* by itself; one can only be the first of what has arrived (ServerNotes).  *)
ConsumeFails(x) == x.in = <<>> /\ Ended(x)
Read(x, n) ==
    LET first == IF Head(x.in).kind = "notice" THEN 2 ELSE 1
    IN  [x EXCEPT !.in = SubSeq(x.in, n + 1, Len(x.in)),
                  !.inbuf = @ \o SubSeq(x.in, first, n)]
Consumed(x) == IF x.in = <<>> THEN {x} ELSE {Read(x, n) : n \in 1..Len(x.in)}

(* PQisBusy parses: a result, or the end of the query. *)
Parsed(x) ==
    IF x.async # "busy" \/ x.inbuf = <<>> THEN x
    ELSE IF Head(x.inbuf).kind = "ready"
         THEN [x EXCEPT !.async = "idle", !.inbuf = Tail(@)]
         ELSE [x EXCEPT !.async = "ready"]

(* PQgetResult: NULL when nothing is in progress. *)
PQgetResult(x) == IF x.async = "ready" THEN Head(x.inbuf) ELSE Message("null", None)
ResultTaken(x) == IF x.async = "ready"
                  THEN [x EXCEPT !.async = "busy", !.inbuf = Tail(@)] ELSE x

-----------------------------------------------------------------------------
(* The servers and the network, at any time *)

ConnOf(p) == CHOOSE c \in Connections : conn[c].fd = p

(* epoll reports what is ready along with what changed. *)
Notify(p, es) == events' = [events EXCEPT ![ConnOf(p)] = @ \cup es]
Readable(p) == Notify(p, {"read"}) \/ Notify(p, {"read", "write"})

Outside(p) ==
    /\ worker = "running"
    /\ p \in Open
    /\ UNCHANGED <<keepaliveVars, pc, requestVars, wready>>

Accept(p) ==
    /\ Outside(p)
    /\ pg[p].net = "connecting"
    /\ pg' = [pg EXCEPT ![p].net = "up"]
    /\ Notify(p, {"write"})

Refuse(p) ==
    /\ Outside(p)
    /\ pg[p].net = "connecting"
    /\ pg' = [pg EXCEPT ![p].net = "refused"]
    /\ Notify(p, {"read", "write"})

ServerSends(p) ==
    /\ Outside(p)
    /\ pg[p].net = "up" /\ pg[p].todo # <<>>
    /\ pg' = [pg EXCEPT ![p].in = Append(@, Head(pg[p].todo)),
                        ![p].todo = Tail(@)]
    /\ Readable(p)

(* A segment that ends in the middle of a message. *)
PartArrives(p) ==
    /\ Outside(p)
    /\ pg[p].net = "up" /\ pg[p].todo # <<>>
    /\ Readable(p)
    /\ UNCHANGED pg

(* A message nobody asked for: a notice, a parameter status, or the reason  *)
(* why the server is about to close.                                        *)
ServerNotes(p) ==
    /\ Outside(p)
    /\ pg[p].net = "up" /\ pg[p].status = "ok" /\ pg[p].todo = <<>>
    /\ pg[p].in = <<>>
    /\ pg' = [pg EXCEPT ![p].in = <<Message("notice", None)>>]
    /\ Readable(p)

ServerCloses(p) ==
    /\ Outside(p)
    /\ pg[p].net = "up"
    /\ pg' = [pg EXCEPT ![p].net = "gone", ![p].todo = <<>>]
    /\ Readable(p)

(* Whatever was sent to a server that is gone is answered with a reset. *)
ResetArrives(p) ==
    /\ Outside(p)
    /\ pg[p].net = "resetting"
    /\ pg' = [pg EXCEPT ![p].net = "gone"]
    /\ Notify(p, {"read", "write"})

(* PQfinish and the end of an ngx_connection_t, with any step of Keepalive. *)
Released ==
    /\ pg' = [p \in PGconns |-> IF dialled'[p] = None THEN NoPG ELSE pg[p]]
    /\ events' = [c \in Connections |-> IF conn'[c].fd = None THEN {} ELSE events[c]]
    /\ wready' = {c \in wready : conn'[c].fd # None}

-----------------------------------------------------------------------------
(* nginx and the peer functions, from the request to the wait for events *)

AtLoop == EventLoop /\ pc = Loop

(* ngx_postgres_handler, from ngx_http_upstream_create to init_peer. *)
HandleRequest(r) ==
    /\ pc = Loop
    /\ InitPeer(r)
    /\ state' = [state EXCEPT ![r] = "db_connect"]
    /\ status' = [status EXCEPT ![r] = 0]
    /\ response' = [response EXCEPT ![r] = None]
    /\ reply' = [reply EXCEPT ![r] = 0]
    /\ UNCHANGED <<pc, ioVars>>

(* What nginx itself does with the end of a request. *)
NginxFinalizes(r, ok, code) ==
    /\ FinishPeer(r, ok)
    /\ Released
    /\ reply' = [reply EXCEPT ![r] = code]
    /\ pc' = Loop
    /\ UNCHANGED <<state, status, response>>

(* init_peer returned NGX_ERROR, or get_peer did. *)
InitFails(r) == pc = Loop /\ phase[r] = "new" /\ NginxFinalizes(r, FALSE, 500)
GetPeerErrs(r) == pc = Loop /\ phase[r] = "error" /\ NginxFinalizes(r, FALSE, 500)

(* get_peer re-uses a connection: it sends the query before it returns. *)
GetPeerCached(r) ==
    /\ pc = Loop
    /\ GetPeerSingle(r) \/ GetPeerMulti(r)
    /\ state' = [state EXCEPT ![r] = "db_send_query"]
    /\ pc' = Run("process_events", r, 0)
    /\ UNCHANGED <<status, response, reply, ioVars>>

GetPeerNew(r) ==
    /\ pc = Loop
    /\ ConnectPeer(r)
    /\ state' = [state EXCEPT ![r] = "db_connect"]
    /\ pg' = [pg EXCEPT ![peer'[r].pgconn] =
                [NoPG EXCEPT !.status = "started", !.net = "connecting"]]
    /\ UNCHANGED <<pc, status, response, reply, events, wready>>

GetPeerNone(r) ==
    /\ pc = Loop
    /\ \/ RejectPeer(r) \/ ConnectNoMemory(r) \/ ConnectDeclined(r)
       \/ ConnectInvalid(r) \/ ConnectBadAdd(r)
    /\ UNCHANGED <<pc, requestVars, ioVars>>

(* ngx_http_upstream_connect after get_peer. *)
Connected(r) ==
    /\ pc = Loop
    /\ Attach(r) \/ Crash(r)
    /\ UNCHANGED <<pc, requestVars, ioVars>>

Declined(r) ==
    /\ pc = Loop
    /\ phase[r] = "declined"
    /\ FailPeer(r)
    /\ Released
    /\ pc' = Run("finalize", r, 502)
    /\ UNCHANGED requestVars

(* ngx_postgres_handler again: the clean-up part. *)
CleanUpPart(r) ==
    /\ pc = Loop
    /\ DropPlaceholder(r)
    /\ Released
    /\ pc' = Run("finalize", r, 503)
    /\ UNCHANGED requestVars

(* u->headers_in.status_n, set by ngx_postgres_upstream_done. *)
Acked_EachResult(r) == state[r] \in {"db_get_ack", "db_idle"}
Acked(r) == state[r] = "db_idle"

(* The main request ends while the database works: nginx's clean-up handler *)
(* finalizes the upstream, and nobody waits for an answer.                  *)
Abort(r) == AtLoop /\ phase[r] = "active" /\ NginxFinalizes(r, Acked(r), ClientClosed)

-----------------------------------------------------------------------------
(* ngx_postgres_wev_handler and ngx_postgres_rev_handler *)

Runs(fn, r, arg) == pc' = Run(fn, r, arg)
Returns == pc' = Loop
(* goto failed, in ngx_postgres_process_events. *)
Fails(r) == Runs("next", r, FT_ERROR)

(* ngx_postgres_upstream_test_connect asks for the error of the socket:     *)
(* connect() failed, or the end of the connection was a reset.              *)
Deliver(c, e) ==
    /\ AtLoop
    /\ conn[c].handler = "upstream"
    /\ e \in events[c]
    /\ events' = [events EXCEPT ![c] = @ \ {e}]
    /\ wready' = IF e = "write" THEN wready \cup {c} ELSE wready
    /\ LET net == pg[conn[c].fd].net
       IN  \/ net \in {"refused", "gone"} /\ Fails(conn[c].data)
           \/ net # "refused" /\ Runs("process_events", conn[c].data, 0)
    /\ UNCHANGED <<keepaliveVars, requestVars, pg>>

WithTimers(c, ts) == conn' = [conn EXCEPT ![c].timers = ts]
TimerExpires(c, t) ==
    /\ AtLoop
    /\ t \in conn[c].timers
    /\ WithTimers(c, conn[c].timers \ {t})
    /\ Runs("next", conn[c].data, FT_TIMEOUT)
    /\ UNCHANGED <<poolVars, dialled, peer, phase, worker, requestVars, ioVars>>

-----------------------------------------------------------------------------
(* ngx_postgres_process_events: one action per state *)

(* The processing functions change timers, libpq and the request only. *)
Processes(r, ss) ==
    /\ worker = "running"
    /\ pc.fn = "process_events" /\ pc.r = r
    /\ state[r] \in ss
    /\ UNCHANGED <<poolVars, dialled, peer, phase, worker, reply, events, wready>>

Repoll_Forgotten(x, c) == PQconnectPoll(x)
Repoll(x, c) ==
    LET y == PQconnectPoll(x)
    IN  IF y.status = "made" /\ c \in wready THEN PQconnectPoll(y) ELSE y

(* ngx_postgres_upstream_connect *)
Connect(r) ==
    LET c == peer[r].connection
        p == peer[r].pgconn
        x == Repoll(pg[p], c)
    IN  /\ Processes(r, {"db_connect"})
        /\ pg' = [pg EXCEPT ![p] = x]
        /\ \/ /\ x.status \notin {"ok", "bad"}
              /\ Returns
              /\ UNCHANGED <<state, conn>>
           \/ /\ x.status = "bad"
              /\ WithTimers(c, conn[c].timers \ {"write"})
              /\ Fails(r)
              /\ UNCHANGED state
           \/ /\ x.status = "ok"
              /\ WithTimers(c, conn[c].timers \ {"write"})
              /\ state' = [state EXCEPT ![r] = "db_send_query"]
              /\ UNCHANGED pc
        /\ UNCHANGED <<status, response>>

ResultTimer_Forgotten(ts) == ts
ResultTimer(ts) == ts \cup {"read"}

(* ngx_postgres_upstream_send_query; PQsendQuery refuses a connection that   *)
(* is not open or that has a query in progress.                             *)
SendQuery(r) ==
    LET c == peer[r].connection
        p == peer[r].pgconn
    IN  /\ Processes(r, {"db_send_query", "db_idle"})
        /\ \/ /\ pg[p].status = "ok" /\ pg[p].async = "idle"
              /\ \E s \in Scripts :
                    pg' = [pg EXCEPT ![p] =
                             [Sent(@, [k \in DOMAIN s |-> Message(s[k], r)])
                                EXCEPT !.async = "busy"]]
              /\ WithTimers(c, ResultTimer(conn[c].timers))
              /\ state' = [state EXCEPT ![r] = "db_get_result"]
              /\ Returns
           \/ /\ \/ pg[p].status # "ok" \/ pg[p].async # "idle"
                 \/ "PQsendQuery" \in MayFail
              /\ Fails(r)
              /\ UNCHANGED <<pg, conn, state>>
        /\ UNCHANGED <<status, response>>

ProcessResponse_Ignored(r, q) ==
    /\ \E s \in Statuses : status' = [status EXCEPT ![r] = s]
    /\ response' \in {[response EXCEPT ![r] = q], response}
    /\ state' = [state EXCEPT ![r] = "db_get_ack"]
    /\ UNCHANGED pc

(* ngx_postgres_process_response: rewrites, variables and the output set the *)
(* status and the response, or the output fails; res answers a query of q.   *)
ProcessResponse(r, q) ==
    \/ /\ \E s \in Statuses : status' = [status EXCEPT ![r] = s]
       /\ response' = [response EXCEPT ![r] = q]
       /\ state' = [state EXCEPT ![r] = "db_get_ack"]
       /\ UNCHANGED pc
    \/ /\ Fails(r)
       /\ UNCHANGED <<status, response, state>>

(* ngx_postgres_upstream_get_result *)
GetResult(r) ==
    LET c == peer[r].connection
        p == peer[r].pgconn
    IN  /\ Processes(r, {"db_get_result"})
        /\ WithTimers(c, conn[c].timers \ {"write"})
        /\ \/ /\ ConsumeFails(pg[p])
              /\ Fails(r)
              /\ UNCHANGED <<pg, state, status, response>>
           \/ /\ ~ConsumeFails(pg[p])
              /\ \E x \in {Parsed(y) : y \in Consumed(pg[p])} :
                 LET res == PQgetResult(x)
                 IN  IF x.async = "busy"
                     THEN /\ pg' = [pg EXCEPT ![p] = x]
                          /\ Returns
                          /\ UNCHANGED <<state, status, response>>
                     ELSE /\ pg' = [pg EXCEPT ![p] = ResultTaken(x)]
                          /\ \/ /\ res.kind = "ok"
                                /\ ProcessResponse(r, res.to)
                             \/ /\ res.kind # "ok"
                                /\ IF res.kind = "null" THEN Fails(r)
                                   ELSE Runs("finalize", r, 500)
                                /\ UNCHANGED <<state, status, response>>

(* ngx_postgres_upstream_get_ack, and ngx_postgres_upstream_done *)
GetAck(r) ==
    LET c == peer[r].connection
        p == peer[r].pgconn
    IN  /\ Processes(r, {"db_get_ack"})
        /\ \/ /\ ConsumeFails(pg[p])
              /\ Fails(r)
              /\ UNCHANGED <<pg, state, conn>>
           \/ /\ ~ConsumeFails(pg[p])
              /\ \E x \in {Parsed(y) : y \in Consumed(pg[p])} :
                 IF x.async = "busy"
                 THEN /\ pg' = [pg EXCEPT ![p] = x]
                      /\ Returns
                      /\ UNCHANGED <<state, conn>>
                 ELSE /\ pg' = [pg EXCEPT ![p] = ResultTaken(x)]
                      /\ WithTimers(c, conn[c].timers \ {"read"})
                      /\ IF PQgetResult(x).kind # "null"
                         THEN /\ Runs("finalize", r, 500)
                              /\ UNCHANGED state
                         ELSE /\ Runs("finalize", r,
                                      IF status[r] >= SpecialResponse THEN status[r] ELSE OK)
                              /\ state' = [state EXCEPT ![r] = "db_idle"]
        /\ UNCHANGED <<status, response>>

-----------------------------------------------------------------------------
(* ngx_postgres_upstream_next: nothing is tried again *)

CodeOf_Zero(r, ft, broken) ==
    IF broken THEN ClientClosed
    ELSE IF peer[r].cached /\ ft = FT_ERROR THEN 0
    ELSE IF ft = FT_TIMEOUT THEN 504 ELSE 502
CodeOf(r, ft, broken) ==
    IF broken THEN ClientClosed
    ELSE IF peer[r].cached /\ ft = FT_ERROR THEN 500
    ELSE IF ft = FT_TIMEOUT THEN 504 ELSE 502

UpstreamNext(r) ==
    /\ pc.fn = "next" /\ pc.r = r
    /\ FailPeer(r)
    /\ Released
    /\ \E broken \in BOOLEAN : Runs("finalize", r, CodeOf(r, pc.arg, broken))
    /\ UNCHANGED requestVars

(* ngx_postgres_upstream_finalize_request; it disarms nginx's clean-up       *)
(* handler, the one of Abort, which the first mistake forgets.              *)
FinalizeRequest_CleanupKept(r) ==
    /\ pc.fn = "finalize" /\ pc.r = r
    /\ FreePeer(r, FALSE, Acked(r))
    /\ Released
    /\ reply' = [reply EXCEPT ![r] = pc.arg]
    /\ Returns
    /\ UNCHANGED <<state, status, response, phase>>
FinalizeRequest(r) ==
    /\ pc.fn = "finalize" /\ pc.r = r
    /\ FinishPeer(r, Acked(r))
    /\ Released
    /\ reply' = [reply EXCEPT ![r] = pc.arg]
    /\ Returns
    /\ UNCHANGED <<state, status, response>>

-----------------------------------------------------------------------------
(* Idle connections, and the end *)

(* ngx_postgres_keepalive_close_handler on a read event. *)
IdleReadable(c) ==
    LET p == conn[c].fd
    IN  /\ AtLoop
        /\ conn[c].handler = "keepalive" /\ "read" \in events[c]
        /\ \/ /\ ConsumeFails(pg[p])
              /\ CloseHandler(c)
              /\ Released
           \/ /\ ~ConsumeFails(pg[p])
              /\ \E x \in {Parsed(y) : y \in Consumed(pg[p])} :
                 IF x.async = "idle"
                 THEN /\ pg' = [pg EXCEPT ![p] = x]
                      /\ events' = [events EXCEPT ![c] = @ \ {"read"}]
                      /\ UNCHANGED <<keepaliveVars, wready>>
                 ELSE CloseHandler(c) /\ Released
        /\ UNCHANGED <<pc, requestVars>>

(* ngx_postgres_keepalive_dummy_handler *)
IdleWritable(c) ==
    /\ AtLoop
    /\ conn[c].handler = "keepalive" /\ "write" \in events[c]
    /\ events' = [events EXCEPT ![c] = @ \ {"write"}]
    /\ wready' = wready \cup {c}
    /\ UNCHANGED <<keepaliveVars, pc, requestVars, pg>>

(* c->close: nginx closes the idle connections of a worker that quits. *)
CloseIdle(c) == AtLoop /\ CloseHandler(c) /\ Released /\ UNCHANGED <<pc, requestVars>>

Exit == AtLoop /\ Cleanup /\ Released /\ UNCHANGED <<pc, requestVars>>

-----------------------------------------------------------------------------
(* The steps of the worker on behalf of r, once it has begun to serve it. *)
Serve(r) ==
    \/ InitFails(r) \/ GetPeerCached(r) \/ GetPeerNew(r) \/ GetPeerNone(r)
    \/ Connected(r) \/ Declined(r) \/ GetPeerErrs(r) \/ CleanUpPart(r)
    \/ Connect(r) \/ SendQuery(r) \/ GetResult(r) \/ GetAck(r)
    \/ UpstreamNext(r) \/ FinalizeRequest(r)

Network(p) ==
    \/ Accept(p) \/ Refuse(p) \/ ServerSends(p) \/ PartArrives(p)
    \/ ServerNotes(p) \/ ServerCloses(p) \/ ResetArrives(p)

OnConnection(c) ==
    \/ \E e \in {"read", "write"} : Deliver(c, e)
    \/ \E t \in {"read", "write"} : TimerExpires(c, t)
    \/ IdleReadable(c) \/ IdleWritable(c) \/ CloseIdle(c)

WorkerNext ==
    \/ \E r \in Requests : HandleRequest(r) \/ Serve(r) \/ Abort(r)
    \/ \E c \in Connections : OnConnection(c)
    \/ \E p \in PGconns : Network(p)
    \/ Exit
    \/ worker # "running" /\ UNCHANGED workerVars

(* The thread runs the functions it has begun, and sooner or later the       *)
(* event loop finds that a timer which stays set has expired, however often *)
(* it is busy with something else.  Nothing is assumed of the servers, the  *)
(* clients, the network and the delivery of events.                         *)
Fairness ==
    /\ \A r \in Requests : WF_workerVars(Serve(r))
    /\ \A c \in Connections, t \in {"read", "write"} : SF_workerVars(TimerExpires(c, t))

WorkerSafety == WorkerInit /\ [][WorkerNext]_workerVars
WorkerSpec == WorkerSafety /\ Fairness

-----------------------------------------------------------------------------
(* Properties *)

(* A cached connection is open and between queries: the server has finished *)
(* with the last one and nothing of its answer is left to be taken for the  *)
(* answer to the next.                                                      *)
CachedIsClean ==
    \A i \in Cached :
       LET x == pg[item[i].pgconn]
       IN  /\ x.status = "ok" /\ x.async = "idle" /\ x.todo = <<>>
           /\ \A k \in DOMAIN x.in : x.in[k].kind = "notice"

(* The response a client gets is the result of its own query, whoever used  *)
(* the connection before, and only once the server has acknowledged it.     *)
OwnResult ==
    \A r \in Requests :
       /\ response[r] \in {None, r}
       /\ reply[r] = OK => response[r] = r /\ state[r] = "db_idle"

(* Whenever the worker waits for events, a request that waits for its       *)
(* database waits under a timer: a server that never answers holds a        *)
(* request, and its spot in the pool, only so long.                         *)
EveryWaitIsTimed ==
    AtLoop => \A r \in Requests : phase[r] = "active" =>
       /\ conn[peer[r].connection].handler = "upstream"
       /\ conn[peer[r].connection].data = r
       /\ IF state[r] = "db_connect"
          THEN "write" \in conn[peer[r].connection].timers
          ELSE "read" \in conn[peer[r].connection].timers

(* While it connects the worker never waits for an event that has already   *)
(* been delivered: the hazard of the comment in ngx_postgres_upstream_connect. *)
ConnectWakesUp ==
    AtLoop => \A r \in Requests : phase[r] = "active" /\ state[r] = "db_connect" =>
       LET c == peer[r].connection
           x == pg[peer[r].pgconn]
       IN  CASE x.status = "started" -> x.net = "connecting" \/ "write" \in events[c]
             [] x.status = "made" -> "write" \in events[c]
             [] OTHER -> x.net = "resetting" \/ "read" \in events[c]
                         \/ (x.net = "up" /\ x.in = <<>>)

(* A request is answered once. *)
OneAnswer ==
    [][\A r \in Requests : reply[r] # 0 =>
          reply'[r] = reply[r] \/ (reply'[r] = 0 /\ phase[r] = "done")]_workerVars

(* Every request is answered, whatever the servers do and whatever fails,   *)
(* unless the worker ends first, on its own or as NeverCrashes has it.      *)
Answered == \A r \in Requests : phase[r] = "new" ~> reply[r] # 0 \/ worker # "running"

(* The worker uses the pool as Keepalive says it is used. *)
UsesKeepalive == Spec

(* postgres_connect_timeout as README.md describes it: a timeout for        *)
(* connecting.                                                              *)
ConnectTimeoutConnects ==
    [][\A c \in Connections :
          "write" \in conn[c].timers \ conn'[c].timers /\ pc'.arg = FT_TIMEOUT
          => state[conn[c].data] = "db_connect"]_workerVars

=============================================================================
