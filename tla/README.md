# A verification of ngx_postgres

ngx_postgres is an nginx upstream module: an HTTP request is answered with the
result of an SQL query, sent through libpq over a connection that a *keepalive
pool* keeps between requests. It runs inside an nginx worker: one thread, one
event loop, many requests at once, each a state machine driven by events on its
database connection. Nothing runs in parallel, and almost everything hard about
the code is in the order in which events, timers, answers, closes and the ends
of requests arrive, and in the error paths of functions that have already taken
half of what they need.

## 1. The system

| Component | State it keeps | Operations | Hard behaviour |
|---|---|---|---|
| Keepalive pool (`ngx_postgres_keepalive.c`) | two queues of items (`cache`, `free`), the item array, `active_conns`, per worker and upstream block | `init`, `get_peer_single`, `get_peer_multi`, `free_peer`, the handler of events on idle connections, `cleanup` | eviction when full, stale handlers and timers on idle connections, accounting |
| Peer functions (`ngx_postgres_upstream.c`) | round robin `current`; per request `ngx_postgres_upstream_peer_data_t` | `init`, `init_peer`, `get_peer`, `free_peer`, `free_connection` | partial failure in `get_peer`, rejection by a placeholder connection, re-use sends the query from inside `get_peer` |
| Processing (`ngx_postgres_processor.c`) | `pgdt->state` | `process_events` and the functions of the five states | edge-triggered events, partial messages, timers |
| Handlers (`ngx_postgres_handler.c`) | the request context | content handler, write and read event handlers | continues after `ngx_http_upstream_init`, whatever happened in it |
| End of a request (`ngx_postgres_util.c`) | | `upstream_next`, `finalize_request`, `test_connect` | two releases of one peer; the clean-up handler of nginx |
| Rewrites, variables, output | `pgctx` (status, counters, variables, response) | pure functions of a `PGresult` | first-match rules, sizes computed beforehand |
| Escaping (`ngx_postgres_escape.c`) | the codes of nginx's rewrite script, the variables of a request | the directive, `escape_string` | a script that ends in the middle, empty and missing values |
| Configuration (`ngx_postgres_module.c`) | location and upstream configuration | directives, merge, upstream lookup | duplicates and inheritance; a lookup whose result all requests of a location write to one place |

**How they interact.** nginx calls the handler; `ngx_http_upstream_init` calls
`init_peer` and `get_peer`. `get_peer` takes a connection from the pool, makes
one, or refuses. From then on events call `process_events` through the two
event handlers, and one state function calls the next. A failure goes through
`upstream_next`, success and most errors through `finalize_request`; both call
`free_peer`, which gives the connection to the pool or destroys it. An idle
connection's events go to the pool's own handlers. All of them share
`active_conns`, the two queues and the `ngx_connection_t`, whose `data` and
handlers say whom an event is for.

**What makes each correct.** The pool: an item is in one queue; a connection has
one user; the counter is the number of open connections; what is handed over
together belongs together; an idle connection is quiet and clean. A request: it
gets the result of its own query, once, and it always ends. The bound of
`overflow=reject` holds. The pure functions: their tables and sizes. Configuration:
what a block says is what its requests see.

The hazards this gives rise to are listed in `PROJECT.json` at the line where
each bites, with the properties that would notice.

## 2. The modules

```
ConnectionPool      what a pool promises        (abstract)
     ^ implemented by
Keepalive           the pool and the peer functions
     ^ extended by                    ^ extended by
Worker              the event loop,   KeepaliveProofs   types, queues, ownership, accounting
     |      ^       libpq, servers      ^         ^
     |      |                           |    KeepaliveRefinement   ConnectionPool
     |   WorkerProofs  -----------------+    who runs, who waits
     |      ^
     |   WorkerResults                       whose result, what wakes a request up
MCKeepalive, MCWorker
     instances for TLC

Upstream            the blocks of the file, and the way of a request to its block
     ^                    ^
MCUpstream  for TLC    UpstreamProofs   the right block, its peers and settings

Output              the formats of a result
     ^ extended by
Location            configuration of a location, and what its requests are answered
     ^                    ^
     |                 LocationProofs   tables, queries, rewrites, answers, output
     |
     |     Escape      literals of SQL
     |        ^   ^
     |        |    EscapeProofs         what the server reads of them
MCLocation     for TLC, the two side by side

DataInduction       what the folds of the community modules compute, which
                    UpstreamProofs, LocationProofs and EscapeProofs use
```

`Upstream` says where the constants of `Keepalive` come from (`NumPeers`, `Addr`,
`MaxCached`, `Single`, `Reject`) and how a request gets to its pool. `Worker` and
`Location` meet at a result: `Worker` is about getting one over a shared
connection, and chooses among what processing it may do; `Location` is about what
is done with it, and takes one from a set or fails.

### Keepalive

The state is that of the code: `cache` and `free` are sequences of item numbers
(head first), `item` the array `ngx_postgres_keepalive_cache_t`, `active_conns` an
unsigned counter that wraps at `UintMax`, `current` and `max_cached` as in
`ngx_postgres_upstream_srv_conf_t`. A database connection is two objects in the
code and two here: an `ngx_connection_t` (`conn`: its descriptor, `data`, whose
handlers it has, `idle`, the timers set) and a `PGconn` (`dialled`: where it was
connected to). `peer` is what a request holds (`u->peer` and the peer data), and
`phase` how far nginx has brought the request.

Each outcome of `get_peer` is an action, because each changes a different part of
the state before it returns: `GetPeerSingle` and `GetPeerMulti` (re-use),
`RejectPeer`, `ConnectNoMemory`, `ConnectDeclined`, `ConnectInvalid`,
`ConnectBadAdd` and `ConnectPeer`. `FreePeer` is `SavePeer` (with its eviction) or
`ClosePeer`; it is called by `FailPeer` (`upstream_next`) and `FinishPeer`
(`finalize_request`). `CloseHandler` and `Cleanup` are the remaining two. `Attach`,
`Crash` and `DropPlaceholder` are what nginx and the handler do with what `get_peer`
returned; a rejected request is given a placeholder connection with descriptor 0,
possibly `NULL`, in which case nginx dereferences it and the worker ends
("crashed").

`Keepalive` allows every order of calls its callers could make, and more: it is
the interface `Worker` must respect, and the module the theorems are about.

### ConnectionPool

What the pool promises to a user who sees no queue, item or counter: a connection
is closed, idle, or somebody's; nobody has two; at most `Max` are idle; one is
sacrificed only to keep another when `Max` are idle, never under `Reject`, under
which at most `Max` exist. `Keepalive` implements it (`ImplementsPool`): a request
uses a connection from `get_peer` to `free_peer`, and every path of the code in
between must be one of six abstract steps or none.

### Worker

Extends `Keepalive` with the callers themselves. `pc` is the C function that runs
next (one function, one action: nothing can come between the steps inside it),
or the event loop, where anything may come. Added to it: `state`, `status`,
`response` and `reply` of each request; for each `PGconn` what libpq knows
(`status`, `async`), what has been read and not parsed, the TCP connection, what
has arrived and what the server has yet to send (`pg`); the events epoll has yet
to deliver; and `write->ready`.

`Connect`, `SendQuery`, `GetResult` (with `ProcessResponse`) and `GetAck` are the
state functions; `Deliver` and `TimerExpires` the two event handlers;
`test_connect` is in `Deliver`: the socket has an error when the connect was refused, and
may have one when a connection is gone. `UpstreamNext` and `FinalizeRequest` are the
functions of `ngx_postgres_util.c`; `IdleReadable`
and `IdleWritable` the handlers of an idle connection. `Accept`, `Refuse`,
`ServerSends`, `PartArrives`, `ServerNotes`, `ServerCloses` and `ResetArrives` are the
world outside. `Abort` is nginx ending a request whose client or parent is gone
(the module sets `ignore_client_abort`, so a closing client is not noticed by
the upstream code; a main request that ends is).

libpq is modelled from how this code uses it: `PQconsumeInput` reads some of what
has arrived and notices the end of a connection only when there is nothing to
read; `PQisBusy` parses; `PQgetResult` takes a result, and is `NULL` between queries;
`PQconnectPoll` goes from one status to the next, with no input or output in the
first step; that is the step the comment in `ngx_postgres_upstream_connect` is about.
Events are edge-triggered (`NGX_USE_CLEAR_EVENT`).

Every run of `Worker` in which it makes sense also checks `UsesKeepalive`, that
each of its steps is a step of `Keepalive` or leaves the pool alone. `WorkerProofs` proves
it, so what is proved about `Keepalive` holds of the worker.

### Output

What each format makes of a result: for every buffer, the size computed before it is
allocated (modulo `SizeMod`, as a `size_t`) and the bytes that the second pass writes.
A cell is its length, or `Null`. As in the code a renderer fails when a buffer cannot
be allocated or when the two numbers differ.

### Location

`given` is the file: the directives accepted at an outer level and in the location
inside it, in order. `conf` is what the directive handlers made of them
(`ngx_postgres_loc_conf_t`: the table of queries, the list of rewrite tables by
condition, the output handler, the variables). `ConfQuery`, `ConfRewrite`,
`ConfOutput` and `ConfSet` are the handlers, refusals included, and `MergeLocConf` ends
the configuration. From then on requests are served one after another, with the
context `ctx` (`ngx_postgres_ctx_t`): `HandleRequest`, `InitPeer`, `ProcessResponse`
(with the rewrites, `SetCustom` for each variable, which may find no memory for its value,
and the output handler), `Done` and
`Fail`. A rewrite written `=N` is `-N`, as in the code. Queries are told apart by the
place of their directive; a query that evaluates to an empty string is one of the
reasons of `Fail`. Each `postgres_set` names a new variable: the code refuses a second
directive for the same name. The inner level stands for a location, the outer one for
anything around it; merging a third level is doing the same again.

The properties are stated over `given` and never over `conf`: what the reader of the
configuration file may expect of a request.

### Upstream

`file` is what has been read and accepted, line by line with the block it is in;
`upstreams` is `umcf->upstreams` with the `ngx_postgres_upstream_srv_conf_t` of each
entry, and `pglcf` the part of the location's configuration that `postgres_pass`
sets, for a location and an `if` in it. `OpenBlock`, `CloseBlock`, `ForeignServer` and
`OtherPass` are nginx and other modules, which add entries of their own;
`ConfServer`, `ConfKeepalive` and `ConfPass` are the directives, and `InitUpstreams`
ends the configuration with the merge and `ngx_postgres_upstream_init`.
`HandleName` and `HandleVariable` are the content handler where `postgres_pass` has a
name and where it has variables: the latter looks the upstream up and stores what it
finds, `NULL` included, in the configuration of the location. `InitPeer` is
`ngx_http_upstream_init`, which reads it there. Between them `running` is the request
on the stack: the code gives no other request a turn there, and that is all that keeps
two requests of a location apart. `ProcessEvents` is the first event, with the test
whose peer this is.

### Escape

`codes` is the script that the directives append to and `ip` the place of the run in it.
A text is a sequence of the bytes that libpq or the server treats specially.
`EscapeString` is the three codes of one directive: the value, `escape_string` and the
assignment; `Exit` is the end of the script for want of memory. `PQescapeString` is
modelled from what it is called for, with the setting it keeps per process (`std`). The
properties read what was written the way the server does (`Read`). A request runs
its script once and leaves nothing to the next, so one request stands for all.

## 3. The runs

Slots (requests, connections, `PGconn`s) are interchangeable, so the safety runs
use symmetry; `WorkerOne`, which has a liveness property, does not.

| Run | Question | Bounds |
|---|---|---|
| `KeepaliveSingle` | `mode=single`, `overflow=ignore`: do the queues, the counter, ownership, pairing and idle connections stay right through every failure, eviction, close and the cleanup, and does the pool keep the promises of `ConnectionPool`? | 2 requests, 3 connections, 3 PGconns, 1 item, 2 servers |
| `KeepaliveMulti` | `mode=multi`, items taken from the middle, and everything may fail, the event module included, after which `get_peer`'s connection is released twice: does the wrapping counter stay an `ngx_uint_t`, do the queues stay whole, and is a request always connected to the address chosen for it? | 2 requests, 2 connections, 2 items, 2 addresses; `UintMax` is 3, so that the counter wraps |
| `KeepaliveReject` | `mode=multi`, `overflow=reject`: does the bound hold, is nothing leaked, do addresses stay true, and are the promises of `ConnectionPool` kept, none of them at the cost of an idle connection? | 2 requests, 3 connections, 1 item, 2 addresses |
| `WorkerOne` | one request after another, everything that may fail failing: are all waits timed, no wake-up lost while connecting, cached connections clean, answers single? And is every request answered in the end, whatever the server does? | 1 request, 2 connections, two servers, three kinds of answer |
| `WorkerShare` | two requests sharing one cached connection, with evictions and aborts: does each get its own result? | 2 requests, 2 connections, 1 item |
| `Location` | for every configuration of the bounds and every result: does each request get the query of its method, the status of the rewrite that applies, the variables of its own result and an output that fills its buffers? And does every script of `postgres_escape` leave literals that the server reads back, or answer 500? | 3 directives, at most one of them at the outer level, 2 methods, 8 results; 2 escape directives, 8 texts for each variable |
| `Upstream` | for every configuration of the bounds: does each request reach the block it means and no other, is it refused only for what the file says, and does each block have the peers and the pool that its lines say? | 5 directives, 2 names, 2 databases, 2 requests, a location and an `if` |
| `KeepaliveBadAdd`, `KeepaliveSendFails`, `WorkerTimeout`, `LocationIdx`, `LocationRewrites` | five places where the code does not do what the repository says; see section 6 | as small as shows it |

**Why the bounds are enough.** Two requests are the fewest that can compete for a
connection, and every property that speaks of two users speaks of two. Three
connections and `PGconn`s with one item let two be in use while one is cached, so
that a full pool, an eviction and a request without a connection all happen; with
two items an item can be taken from the end, and with three connections both
items can be in use. `UintMax` is 7: larger than any count the instance reaches,
so that a wrap is a mistake and not a limit of the instance. The servers' scripts
have a result, an error and a query of two statements, whose second result comes
where the code expects the end. The number of requests served is not bounded:
a request's slot is used again, so the state spaces contain histories of any
length. No counter is cut off. `Answered` is checked with one request at a time, and with
every failure: a request depends on others only through what the pool gives it, which may
be a connection made, one re-used, or a refusal.

Three directives in `Location` are a query and two others that interact, two rewrites
of one condition or of two, a rewrite and a required variable, or three queries for two
methods; interactions of more are compositions of these, since a request looks at one
table at a time and the first rewrite that applies ends the search. One of them may be
at the outer level (`MaxOuter`): the merge takes what a level says of each kind whole or
not at all, so one directive there shows both a kind that is inherited and one that is
not, and the theorems hold for every bound. The statuses are
one of success, one of error, one kept with "=", and one that is refused. The results
are one of each shape that some branch tells apart: no row, no column, one value, an
empty one, several with a `NULL`, and commands with and without a count. `SizeMod` is
128 and `MemMax` 100: larger than any size that is not the result of a wrap. The two
methods are interchangeable and the run uses that symmetry.

Two escape directives are enough for one to read what another wrote, for the second
to find no memory when the first has written, and for both to write one variable. The
texts have each special byte alone and the pairs whose meaning depends on their order.
`Location` and `Escape` share no state, so a behaviour of the run is one of the one or
one of the other: the run is two checks that TLC makes in one go.

Five directives in `Upstream` are two blocks with a server each and a pass, or one block
with two servers, a second `postgres_keepalive` and a pass. Two requests are the fewest
that can overwrite each other's upstream; one host has two addresses, so that peers and
servers are not counted alike.

**Fairness** (`WorkerSpec`, used by `Answered`). The worker runs the functions it
has begun (weak fairness of `Serve(r)`): it is one thread and none of them waits.
A timer that stays set expires even if the loop is busy with other events (strong
fairness of `TimerExpires`): nginx processes expired timers in every iteration of
its loop. Nothing is assumed of servers, network, clients or delivery of events:
`Answered` holds because every wait is under a timer, which is the point of
`EveryWaitIsTimed`. It is stated from the moment `init_peer` is done, and of a worker that
runs on: one that exits, or that ends as `NeverCrashes` shows it may, answers nobody.

Each property of a passing run has a *mutant* in `PROJECT.json`: a definition
replaced by the version with a plausible mistake that stands beside it in the
module (`RemoveIndex_Kept`, `Acked_EachResult`, ...), under which TLC finds the
property violated.

## 4. The theorems

Checked by TLAPS for any number of requests, connections, items and servers, both
modes and both overflow policies.

`KeepaliveProofs`, whatever fails:

- `TypeCorrect`: `Spec => []KeepaliveTypeOK`. The type invariant is not inductive
  alone. `free_peer` with no free item takes the last of the cache, so the cache
  must have one; that follows from the partition of the items into the two queues
  (`NoneFree`), so both go into `TypeInv`.
- `QueuesCorrect`: `Spec => []QueuesPartition`. It rests on lemmas about the queue
  operations (`InsertHeadFacts`, `RemoveIndexFacts`, `TailFacts`) and on what they do
  together: take an item, put one, turn one over (`TakeItem`, `PutItem`, `RotateItem`).

`KeepaliveProofs` and `KeepaliveRefinement`, for instances in which the event module
accepts every connection (`"ngx_add_event" \notin MayFail`; every other failure is allowed). The hypothesis is
needed: `KeepaliveBadAdd` shows a behaviour without it in which the counter wraps.

- `SpotsCorrect` (`SpotAccounting`), `UseIsExclusive` (`ExclusiveUse`), `NothingLeaks`
  (`NoOrphan`), `PairsCorrect` (`Paired`), `HandOversCorrect` (`QuietWhenIdle`),
  `AddressesTrue` (`AddressTruth`), `RejectBounds` (`RejectBound`), `ChosenServed`
  (`ServesChosen`).
- `PoolImplemented`: `Spec => ImplementsPool`, the refinement of `ConnectionPool`.

The inductive invariant `SafeInv` adds to types and queues what a request holds in
each phase (`PeerInv`), what a cached item refers to (`ItemInv`) and what a connection
refers to (`ConnInv`). None of the properties is inductive: that the counter is right
after a release needs that the released connection was open, hence that pointers
do not dangle, hence that nobody else has released it, hence exclusive use; that an
idle connection's handler finds an item needs that `data` was not overwritten while
it was in use. `PeerInv` says of a placeholder that it is neither cached nor failed:
releasing one as a database connection would give back a spot never taken. Every
action does one of seven things to ownership, and there is one lemma for each
(`Nothing`, `Acquire`, `ReuseItem`, `KeepInItem`, `Release`, `CloseItem`, `CloseAll`); the
actions are then cases of them. The counter is by cardinalities of finite sets
(`SpotTaken`, `SpotGiven`, and `CountCached` for the cleanup, which counts the cache
by a bijection). Assumptions on the constants: there are no more `PGconn`s than an
`ngx_uint_t` counts, `NULL` and the placeholder's descriptor are neither a `PGconn`
nor each other, and items and requests are told apart.

`ChosenServed` is an action property: in `mode=multi` the search compares the address
stored in the item, which `ItemInv` ties to the place where the `PGconn` was dialled.
`PoolImplemented` maps a connection to its user, to "idle" or to "closed". `UserOf`
chooses among the holders of a connection, so the map is a function of the state only
because use is exclusive (`UserCorrect`); a step of the code is then one of the six
abstract steps or none: releasing is `Keep`, `Close` or, with an eviction,
`KeepInsteadOf`, which wants a full pool and no `overflow=reject`. The former is `QueuesPartition` (no free item means `MaxCached` cached
ones), the latter is where `RejectBound` is needed: under `reject` a pool that is full
has no connection outside it that could come back.

`WorkerProofs`, for any scripts of the servers too, and under the same hypothesis about the
event module:

- `UsesKeepaliveAlways`: `WorkerSafety => UsesKeepalive`. Every step of the worker is a step
  of `Keepalive` or leaves the pool alone, so the theorems about the pool are theorems
  about the worker. It carries `SafeInv` over to `Worker`.
- `WaitsAreTimed` (`EveryWaitIsTimed`) and `AnsweredOnce` (`OneAnswer`).

`Keepalive` lets its callers call in any order that makes sense; that the worker calls in
such an order is what `ControlInv` says. At most one request is between the functions
of nginx and of the module (`OneBetween`), and it is the one `pc` names; a request that a
function is about to run for holds its database connection, has not been answered,
and is in the state that function expects (`Running`); one for which no function runs waits
for events with the timer of its state (`Waiting`); and a connection nobody uses has no
timer left to fire. An event or a timer leads to a request through `data` of a
connection: that it is the request that holds it is `ConnInv` of `SafeInv`, so the two
invariants are proved together. `OthersKept` is what every step leaves to the other
requests; each action has one lemma, and `InHands`, `TimersChange` and `UsesPool` are what
they share.

`WorkerResults`, on top of `WorkerProofs` and for the same instances:

- `CachedAreClean` (`CachedIsClean`) and `ResultsAreOwn` (`OwnResult`);
- `ConnectsWakeUp` (`ConnectWakesUp`) and `WorkerTypeCorrect` (`WorkerTypeOK`).

`OwnResult` is about the end of a request and `CachedIsClean` about the time between two;
`ResultInv` says what holds in between. In each state of `ngx_postgres_processor.c` it says
what may be on its way in libpq, in the socket and at the server: a greeting at most while
the connection is made (`Dialling`), nothing but a notice before the query and after its end
(`Clean`), and otherwise messages for this request only, the last of them "ready"
(`Answering`). That a script ends with its only "ready" is `ScriptsAssumption`, the
protocol of the server. Three things carry it along: nobody else touches the `PGconn` of a
request (`OwnPGconn`, from the exclusive use of `SafeInv`); `get_ack` ends in `db_idle` only
when libpq says that nothing is left (`ReadSays`); and `free_peer` keeps a connection only
from there (`KeptIsClean`), so that the next request finds it as `Clean` as it must be
(`ResultReuses`). `WakeInv` adds what epoll has yet to say of a connection that is being
made: `Asleep` while the request waits, `Called` while its state function runs on an event.
The two differ in one case, "write" delivered while libpq did not need it yet, which
`write->ready` remembers and the second poll of `ngx_postgres_upstream_connect` uses
(`RepollSleeps`); `MovesWake` says that the network takes no event back.

`UpstreamProofs`, for any names, databases, addresses, numbers of directives and
requests:

- `UpstreamInvariant`: `Spec => []UpstreamInv`, and from it `OwnUpstreamAlways`
  (`OwnUpstream`) and `RefusedRightlyAlways` (`RefusedRightly`).

The invariant relates three things that the code keeps apart. `UpInv` ties the entries
of `umcf->upstreams` to the file: one entry per name and port, "ours" exactly with a
`postgres_server` line. `PassInv` ties `pglcf` to the one `postgres_pass` line a level may
have, before the merge and after it. `ReqInv` is about requests: while one is between its
handler and `init_peer` it is the one `running`, and what it stored is still there; that
is the place where the proof uses `Alone`, and with a body awaited there
(`Alone_BodyAwaited`) the property fails. Once connected, what a request has is
independent of the configuration others overwrite.

- `BlocksInvariant`: `Spec => [](UpstreamInv /\ BlocksInv)`, and from it `PeersInOrder`
  (`PeersMatchServers`), `OnlyDatabasesAlways` (`OnlyDatabases`) and `KeepaliveSettings`
  (`KeepaliveAsWritten`); `UpstreamTypes` (`UpstreamTypeOK`) from `UpstreamInv` alone.

`BlocksInv` ties what a block has to its lines. `ServersInv` says that there is an
increasing map from the servers of a block onto its `postgres_server` lines: the order
of the file, whatever other lines are in between. `PeersInv` says that once the file
has been read the peers are those that `ngx_postgres_upstream_init` makes (`PeersOf`),
a concatenation of the addresses of each server; where an address ends up in it is
`FlattenPlaces` of `DataInduction`, and that it is the place that `PeersMatchServers` names,
by counting the addresses of the file up to it, is `UpToPlaces`. `NamesInv`
is needed for `KeepaliveAsWritten`: a block that is opened is one entry, so that what its
lines say is said of that entry only.

`LocationProofs`, for any directives, methods, statuses and results:

- `TablesCorrect`: `Spec => []TablesUnambiguous`. The inductive invariant `ConfInv` adds
  the types of the tables and of the file read so far, because an entry is appended to
  a sequence. `InsertGood` is the heart of it: a directive that `Duplicate` lets through
  adds only methods that are in no entry yet, given that `methods_set` is exactly their
  union. `RewriteGood` and `GrownGood` carry it to the list of conditions, and the merge
  only copies whole tables.
- `QueryCorrect`: `Spec => []QueryOfMethod`. The property relates a request to the file,
  and the code never looks from one to the other. `QueryInv` goes by way of the table:
  `TablesAsGiven` says that a table has an entry for each query of its level and nothing
  else, level by level while the file is read, and of the level `QueryLevel` after the
  merge; `ByTable` says what a request has by the table. `LookupFinds` joins the two, and
  is where `TablesCorrect` is needed: the first entry that lists the method is the one
  that does. The value of a query is the place of its directive, and the assumption on
  `None` is that it is no such place.
- `LocationInvariant`: `Spec => []LocInv`, and from it `RewriteAlwaysChosen`
  (`RewriteChosen`), `AnswersAlwaysMatch` (`AnswerMatches`), `VariablesAlwaysFresh`
  (`VariablesAreFresh`), `LocationTypesAlways` (`LocationTypeOK`) and `OutputAlwaysFits`
  (`OutputFits`).

`LocInv` has six parts. `QueryInv` is that of `QueryCorrect`, and `TypesInv` has the types of
the rest. `RewritesInv` is to rewrites
what `TablesAsGiven` is to queries, one level deeper: the list of a location has one table
for each condition of its file, in the order in which the conditions are first mentioned,
and each table says what the rewrites of its condition say (`Says`). It is what makes the
first table of the list that applies (`ngx_postgres_process_response` stops there) the
rewrite that `RewriteChosen` finds in the file. `ResultInv` says that before its result a
request knows nothing and afterwards what that result says, which is `VariablesAreFresh`
and half of `AnswerMatches`. `StatusInv` says where the status came from: no rewrite, a
rewrite, or the 500 of a required variable or of an output of one value; it connects the
status to `Rewritten`, which nobody computes again after the response has been made.
`AnswerInv` is what is left of that when the client has been answered and the request is
no longer there to ask.

`OutputAlwaysFits` has a hypothesis of its own, that no result wants a buffer larger than
memory can be had for (`Allocatable`; `MCLocation` has TLC check that its results meet
it): beyond that the code fails, as it should, and sizes could wrap. Under it the two
passes of each renderer are compared as what they are, sums over the cells
of a row or of the whole result with different summands (`SumShift`, `SumButOne`), for any
number of rows and columns. The subtraction of 1 in the size of the text output is the
delicate place: it is the separator that the last cell does not have, so it is right exactly
when there is a cell, and `OutputFits` excludes the one shape that has rows and none.

`EscapeProofs`, for any texts, directives and number of them:

- `EscapeInvariant`: `EscapeSpec => []EscInv`, and from it `AlwaysEscapedOrRefused`
  (`EscapedOrRefused`) and `AlwaysReadsBack` (`EscapeReadsBack`).

The heart of it is the lemma `LiteralReads`: for every text and both settings of
`standard_conforming_strings` what is put between two quotes fits its buffer and is read back
as the text before its first zero byte. The writer doubles letters
and the reader works byte by byte, so the proof goes by where each letter ended up
(`EscapePlaces`) and by induction over the letters (`LettersRead`): after the bytes of a letter
the reader is inside the literal and has read so many letters of the text. `EscInv` adds the script:
each directive that has run has left such a literal in its variable, whichever of
them wrote there last. `NULL` counts as a letter in the types of the proof, because a value may
contain a variable that another directive has made `NULL`.

`DataInduction` has what the community modules do not prove of `FlattenSeq` and `SumFunction`,
which are recursive functions behind `CHOOSE`: that the function exists
(`FlatteningExists`, `SummingExists`; `ReadingExists` in `EscapeProofs` for the fold of the
reader) and from it where each element of a concatenation is, and that a sum does not
depend on the order of its terms. Induction is used in the form of a set that has 0 and
the successor of each of its members (`NatSetInduction`), or {} and each of its members
with one element more (`SubsetInduction`), so no theorem takes an operator as a parameter.

Assumptions on the constants of these modules: positions are natural numbers, as the
directive has them from `ngx_atoi`; statuses are integers; results are what libpq can
return (`ResultsAssumption`: all rows of one have the same columns, and what is no set of
tuples has neither), `NULL` is no number and "unset" no list of rewrites
(`UnsetAssumption`), and texts are sequences of bytes (`EscapeAssumption`). TLC evaluates
them on the instances.

## 5. Model-checked only, and not modelled

Every invariant and every action property of the passing runs is also proved, under the
hypotheses given in section 4, and so is the refinement. Only TLC's instances show
`Answered`: it is liveness under fairness, and its proof would need ENABLED, which the prover does not do. The theorems about the pool and the
worker leave out the event module that refuses a connection: `KeepaliveMulti` includes it for
the properties that survive it, and only on its instance. That actions can happen at all
is shown by TLC, which fires every one of them.

Not modelled:

- In `Worker`, what `process_response` computes: the response is made and a status may be
  set, or the output fails. `Location` has the computation, without the connection.
- The bytes of an output and its content type, the column types of RDS, the text of the
  connection string and of the built-in variables.
- A block with servers of this module and of another: two modules would read one array
  as two types.
- The order of nginx's phases: which module reads a variable, and when.
- Level-triggered and real-time-signal events: only the edge-triggered branch is in
  `Worker`. In `Keepalive`, `free_peer` includes the branch for level-triggered events,
  whose `ngx_del_event` may fail.
- nginx before 0.8.17, which the code still supports by conditional compilation.
- Addresses are compared as values; the code compares a `struct sockaddr`, which
  holds an IPv4 address (the only kind it can connect to).
- Logging, names, and memory that is freed with its request.

## 6. What the runs found

- **A refused connection is released twice** (`KeepaliveBadAdd`). On the `bad_add` path
  `get_peer` destroys the connection and returns with both pointers still set; the
  end of the request destroys it again. `active_conns` falls below the number of open
  connections and wraps. The second `PQfinish` works on freed memory: in the model it
  ends the worker or goes unnoticed (`Crash`, `FinishPeer`). What it does to the heap,
  and the `ngx_connection_t` that is then in nginx's free list twice, are not modelled,
  so `KeepaliveMulti` speaks only of the pool's own bookkeeping.
- **A failed send on a re-used connection** (`KeepaliveSendFails`). `get_peer` runs the
  state machine and ignores its outcome; the request may be over and its connection
  gone when it returns `NGX_AGAIN`.
- **The connect timeout also covers queries on re-used connections** (`WorkerTimeout`),
  until the first event after the query was sent.
- **A variable of an outer level is read from the wrong place** (`LocationIdx`) in a
  location with `postgres_set` directives of its own: `get_custom` uses the index the
  variable has among the directives of its level, and the store belongs to those of the
  location. It is another variable's value, or past the end of the array.
- **The first rewrite does not always win** (`LocationRewrites`). The README says of
  `postgres_rewrite` "Rewrite response `status_code` when given condition is met (first
  one wins!)" (`src/README.md:78`). The code groups the rewrites by condition, in the
  order in which the conditions are first mentioned (`ngx_postgres_module.c:856`), and
  within a group the rewrites that list the method go before the one for all methods
  (`ngx_postgres_rewrite.c:45`). So `rows =404` followed by `GET rows 201` answers 201,
  and a rewrite added to a condition mentioned earlier, if only for another method, wins
  over one in between.
  `FirstOneWins` is the rule of the README; `RewriteChosen`, which the run `Location`
  checks and `RewriteAlwaysChosen` proves, is the rule of the code. The two agree when no
  condition has more than one rewrite.

Also met while modelling, and no property of any run: a full pool with
`overflow=ignore` keeps the connection that comes back and closes the least recently
used idle one (`ngx_postgres_keepalive.c:215`), where the README says that the
connections above the limit are closed (`src/README.md:45-46`); `ConnectionPool` promises
what the code does. A second `postgres_keepalive` is a duplicate only if the first
changed `max` from 10, so that `overflow=reject` followed by `off` leaves a pool of size
0 that rejects every request; `KeepaliveAsWritten` states what the code does. In
`mode=multi` a cached connection is chosen by its socket address alone, so two servers
that differ in database or user share connections. `postgres_escape` with one argument
takes the whole of `$a$b` for the name of its destination. And a notice and a close that
one edge-triggered event announces leave the close unread, so a dead connection
stays in the pool and the next request that gets it is answered 500 (the code marks
the missing retry with a TODO, `ngx_postgres_util.c:260`); and a result and its
acknowledgement, one left unread by a read that took the other, make a request
wait for its timer. Both are why `Answered` rests on timers and not on events.
A result with rows and no columns (`SELECT` alone, in a server that allows it) makes
the text output compute a size of -1 and fail, and the RDS output send an empty buffer,
which nginx refuses; `OutputFits` excludes it.

## 7. Plan

Done: the pool with its refinement, the worker, the upstream blocks and the lookup, the
location, the output and the escaping, and the proofs of their properties. What would come
next:

1. The hypothesis about the event module weakened: which of the properties of
   `KeepaliveProofs` survive a connection it refuses, `ChosenServed` first.
2. The composition of `Location` and `Worker`: the result that `Location` takes from a set
   would be the one that `Worker` got, with the outcomes of `process_response` computed.
