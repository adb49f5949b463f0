------------------------------ MODULE Upstream ------------------------------
(***************************************************************************)
(* The upstream blocks of the configuration, and the way of a request from *)
(* the postgres_pass of its location to the block it names: the directives *)
(* of a block, the peers and pool settings made of them, and the lookup by *)
(* name that ngx_postgres_handler makes while it serves a request.  What   *)
(* a block has in the end are the constants of Keepalive; a request that   *)
(* is "querying" is one of Worker.                                         *)
(***************************************************************************)
EXTENDS Integers, SequencesExt

CONSTANTS
    Requests,       \* requests being served at the same time
    Names,          \* names an upstream block may have
    Resolve,        \* Resolve[h]: the addresses of h, an argument of postgres_server
    Databases,      \* what dbname=, user= and password= of a server say
    KeepaliveArgs,  \* the arguments a postgres_keepalive may have
    MaxDirectives,  \* bound: directives read
    None            \* NULL, and an argument that is not given

ASSUME UpstreamAssumption ==
    /\ MaxDirectives \in Nat
    /\ \A h \in DOMAIN Resolve : Resolve[h] \in Seq(Range(Resolve[h])) \ {<<>>}
    /\ \A a \in KeepaliveArgs :
          /\ a.max \in Nat \cup {None}
          /\ a.single \in BOOLEAN \cup {None} /\ a.reject \in BOOLEAN \cup {None}
    /\ None \notin Names \cup Requests \cup Nat \cup BOOLEAN
    /\ None \notin {"empty", "not_found", "unconfigured", "failed", "not_my_peer",
                    "result", "location", "if"}

(* A location, and an "if" inside it. *)
Levels == {"location", "if"}

VARIABLES
    file,       \* the directives accepted, in order, with the block they are in
    open,       \* the block being read: its index in upstreams, or None
    upstreams,  \* umcf->upstreams, and the ngx_postgres_upstream_srv_conf_t of each
    pglcf,      \* per level: upstream.upstream, upstream_cv and clcf->handler
    stage,      \* "reading", "refused" or "serving"
    running,    \* the request whose content handler is on the stack, or None
    req         \* per request: where it is, and what it has found

vars == <<file, open, upstreams, pglcf, stage, running, req>>

(* ngx_postgres_create_upstream_srv_conf, for an entry that                 *)
(* ngx_http_upstream_add appends: "ours" when init_upstream is              *)
(* ngx_postgres_upstream_init.                                              *)
NewUpstream(host, port) ==
    [host |-> host, port |-> port, create |-> FALSE, ours |-> FALSE,
     foreign |-> FALSE, servers |-> <<>>, peers |-> <<>>,
     max_cached |-> 10, single |-> TRUE, reject |-> FALSE]

NewRequest == [phase |-> "idle", level |-> None, host |-> None, srv |-> None,
               answer |-> None]

Init ==
    /\ file = <<>>
    /\ open = None
    /\ upstreams = <<>>
    /\ pglcf = [l \in Levels |-> [upstream |-> None, cv |-> FALSE,
                                  handler |-> FALSE]]
    /\ stage = "reading"
    /\ running = None
    /\ req = [r \in Requests |-> NewRequest]

-----------------------------------------------------------------------------
(* The directives *)

Reading == stage = "reading" /\ Len(file) < MaxDirectives

(* nginx does not start. *)
Refuse ==
    /\ stage' = "refused"
    /\ UNCHANGED <<file, open, upstreams, pglcf, running, req>>

Accept(block, kind, value) ==
    /\ file' = Append(file, [block |-> block, kind |-> kind, value |-> value])
    /\ UNCHANGED <<stage, running, req>>

(* A value or an option that cannot be parsed, or no memory, in any of the  *)
(* directives or in ngx_postgres_upstream_init.                             *)
Malformed == stage = "reading" /\ Refuse

Entries(host, port) ==
    {k \in DOMAIN upstreams : upstreams[k].host = host /\ upstreams[k].port = port}

(* nginx: ngx_http_upstream_add returns the entry of a name and port, new   *)
(* if there is none.                                                        *)
Added(host, port) ==
    IF Entries(host, port) # {} THEN upstreams
    ELSE Append(upstreams, NewUpstream(host, port))
IndexAdded(host, port) ==
    IF Entries(host, port) # {} THEN CHOOSE k \in Entries(host, port) : TRUE
    ELSE Len(upstreams) + 1

(* nginx: "upstream n {", of which there may be one, and which another      *)
(* directive may have named before.                                         *)
OpenBlock(n) ==
    LET k == IndexAdded(n, 0)
    IN  /\ Reading /\ open = None
        /\ IF \/ \E j \in Entries(n, 0) : upstreams[j].create
              \/ Entries(n, 8080) # {}
           THEN Refuse
           ELSE /\ Accept(n, "upstream", None)
                /\ upstreams' = [Added(n, 0) EXCEPT ![k].create = TRUE]
                /\ open' = k
                /\ UNCHANGED pglcf

(* nginx: "}", with "no servers are inside upstream". *)
CloseBlock ==
    /\ stage = "reading" /\ open # None
    /\ IF upstreams[open].servers = <<>> /\ ~upstreams[open].foreign THEN Refuse
       ELSE open' = None /\ UNCHANGED <<file, upstreams, pglcf, stage, running, req>>

(* nginx: "server", in the block of another module.  A block with servers   *)
(* of both kinds is left out: two modules would then read one array.        *)
ForeignServer ==
    /\ Reading /\ open # None
    /\ upstreams[open].servers = <<>>
    /\ Accept(upstreams[open].host, "foreign", None)
    /\ upstreams' = [upstreams EXCEPT ![open].foreign = TRUE]
    /\ UNCHANGED <<open, pglcf>>

(* nginx: a proxy_pass to n:8080 makes an entry of its own. *)
OtherPass(n) ==
    /\ Reading /\ open = None
    /\ IF \E k \in Entries(n, 0) : upstreams[k].create THEN Refuse
       ELSE /\ Accept(n, "other", None)
            /\ upstreams' = Added(n, 8080)
            /\ UNCHANGED <<open, pglcf>>

ConfServer(host, db) ==
    /\ Reading /\ open # None
    /\ ~upstreams[open].foreign
    /\ Accept(upstreams[open].host, "server", [host |-> host, db |-> db])
    /\ upstreams' = [upstreams EXCEPT
          ![open].servers = Append(@, [addrs |-> Resolve[host], db |-> db]),
          ![open].ours = TRUE]
    /\ UNCHANGED <<open, pglcf>>

(* Line 500: the default stands for a directive that has not been given. *)
KeepaliveGiven_Off(u) == u.max_cached = 0
KeepaliveGiven(u) == u.max_cached # 10

Said(arg, otherwise) == IF arg = None THEN otherwise ELSE arg

(* "off" is max=0. *)
ConfKeepalive(args) ==
    /\ Reading /\ open # None
    /\ IF KeepaliveGiven(upstreams[open]) THEN Refuse
       ELSE /\ Accept(upstreams[open].host, "keepalive", args)
            /\ upstreams' = [upstreams EXCEPT
                  ![open].max_cached = Said(args.max, @),
                  ![open].single = Said(args.single, @),
                  ![open].reject = Said(args.reject, @)]
            /\ UNCHANGED <<open, pglcf>>

(* postgres_pass, with the name of a block, or None for variables. *)
ConfPass(l, n) ==
    /\ Reading /\ open = None
    /\ IF pglcf[l].upstream # None \/ pglcf[l].cv THEN Refuse
       ELSE /\ Accept(l, "pass", n)
            /\ IF n = None
               THEN /\ pglcf' = [pglcf EXCEPT ![l].cv = TRUE, ![l].handler = TRUE]
                    /\ UNCHANGED upstreams
               ELSE /\ pglcf' = [pglcf EXCEPT ![l].upstream = IndexAdded(n, 0),
                                              ![l].handler = TRUE]
                    /\ upstreams' = Added(n, 0)
            /\ UNCHANGED open

(* ngx_postgres_upstream_init: every address of every server, in order.     *)
PeersOf_FirstDatabase(u) ==
    FlattenSeq([i \in DOMAIN u.servers |->
       [j \in DOMAIN u.servers[i].addrs |->
          [sockaddr |-> u.servers[i].addrs[j], db |-> u.servers[1].db]]])
PeersOf(u) ==
    FlattenSeq([i \in DOMAIN u.servers |->
       [j \in DOMAIN u.servers[i].addrs |->
          [sockaddr |-> u.servers[i].addrs[j], db |-> u.servers[i].db]]])
InitUpstream(u) == IF u.ours THEN [u EXCEPT !.peers = PeersOf(u)] ELSE u

(* ngx_postgres_merge_loc_conf: an "if" without postgres_pass has that of   *)
(* the location.                                                            *)
MergedPass_NameOnly(prev, own) ==
    IF own.upstream = None /\ ~own.cv THEN [own EXCEPT !.upstream = prev.upstream]
    ELSE own
MergedPass(prev, own) ==
    IF own.upstream = None /\ ~own.cv
    THEN [own EXCEPT !.upstream = prev.upstream, !.cv = prev.cv] ELSE own

(* The end of the configuration.  nginx: an entry that is only named has no *)
(* servers and no port to connect to.                                       *)
InitUpstreams ==
    /\ stage = "reading" /\ open = None
    /\ IF \E k \in DOMAIN upstreams : ~upstreams[k].create /\ upstreams[k].port = 0
       THEN Refuse
       ELSE /\ upstreams' = [k \in DOMAIN upstreams |-> InitUpstream(upstreams[k])]
            /\ pglcf' = [pglcf EXCEPT !["if"] = MergedPass(pglcf["location"], @)]
            /\ stage' = "serving"
            /\ UNCHANGED <<file, open, running, req>>

-----------------------------------------------------------------------------
(* The requests *)

(* The content handler of a request runs from its first line to the end of  *)
(* get_peer before the worker turns to another request.                     *)
Alone_BodyAwaited == TRUE
Alone == running = None

(* A level is served when a postgres_pass set its handler; nginx: an "if"   *)
(* without one keeps that of its location.                                  *)
Served(l) == pglcf[l].handler \/ (l = "if" /\ pglcf["location"].handler)

(* ngx_postgres_find_upstream, for a name without a port. *)
FindUpstream_PastEnd(n) ==
    LET hits == {k \in DOMAIN upstreams : upstreams[k].host = n
                                          /\ upstreams[k].port = 0}
    IN  IF hits = {} THEN Len(upstreams) + 1
        ELSE CHOOSE k \in hits : \A j \in hits : k <= j
FindUpstream(n) ==
    LET hits == {k \in DOMAIN upstreams : upstreams[k].host = n
                                          /\ upstreams[k].port = 0}
    IN  IF hits = {} THEN None ELSE CHOOSE k \in hits : \A j \in hits : k <= j

Answered(r, l, n, why) ==
    req' = [req EXCEPT ![r] = [NewRequest EXCEPT !.level = l, !.host = n,
                                                 !.answer = why]]

(* Enters ngx_http_upstream_init. *)
Proceed(r, l, n) ==
    /\ req' = [req EXCEPT ![r] = [NewRequest EXCEPT !.phase = "init",
                                                    !.level = l, !.host = n]]
    /\ running' = r

(* No context: the handler returns, whatever it has stored. *)
NoMemory(r, l, n) == Answered(r, l, n, "failed") /\ UNCHANGED running

(* ngx_postgres_handler where postgres_pass has a name. *)
HandleName(r, l) ==
    /\ stage = "serving" /\ Alone
    /\ req[r].phase = "idle"
    /\ Served(l) /\ ~pglcf[l].cv
    /\ Proceed(r, l, None) \/ NoMemory(r, l, None)
    /\ UNCHANGED <<file, open, upstreams, pglcf, stage>>

(* And where it has variables, whose value is n, or which cannot be         *)
(* evaluated or are empty (None).  What is found, NULL included, is stored  *)
(* in the configuration of the location.                                    *)
HandleVariable(r, l, n) ==
    /\ stage = "serving" /\ Alone
    /\ req[r].phase = "idle"
    /\ pglcf[l].cv
    /\ IF n = None
       THEN Answered(r, l, n, "empty") /\ UNCHANGED <<pglcf, running>>
       ELSE /\ pglcf' = [pglcf EXCEPT ![l].upstream = FindUpstream(n)]
            /\ IF FindUpstream(n) = None
               THEN Answered(r, l, n, "not_found") /\ UNCHANGED running
               ELSE Proceed(r, l, n) \/ NoMemory(r, l, n)
    /\ UNCHANGED <<file, open, upstreams, stage>>

(* ngx_http_upstream_init_request reads u->conf->upstream and calls the     *)
(* init_peer of what it finds, ours or another module's.  A peer that       *)
(* cannot be initialized or refuses ends the request (Keepalive).           *)
InitPeer(r) ==
    /\ running = r /\ req[r].phase = "init"
    /\ running' = None
    /\ LET u == pglcf[req[r].level].upstream
       IN  IF u = None THEN Answered(r, req[r].level, req[r].host, "unconfigured")
           ELSE \/ req' = [req EXCEPT ![r].phase = "connecting", ![r].srv = u]
                \/ Answered(r, req[r].level, req[r].host, "failed")
    /\ UNCHANGED <<file, open, upstreams, pglcf, stage>>

(* ngx_postgres_upstream_is_my_peer *)
IsMyPeer_Unchecked(r) == TRUE
IsMyPeer(r) == upstreams[req[r].srv].ours

(* The first event calls ngx_postgres_process_events, which looks whose     *)
(* peer it has before it takes the peer data for its own.                   *)
ProcessEvents(r) ==
    /\ Alone
    /\ req[r].phase = "connecting"
    /\ IF IsMyPeer(r) THEN req' = [req EXCEPT ![r].phase = "querying"]
       ELSE Answered(r, req[r].level, req[r].host, "not_my_peer")
    /\ UNCHANGED <<file, open, upstreams, pglcf, stage, running>>

Finish(r) ==
    /\ Alone
    /\ req[r].phase = "querying"
    /\ Answered(r, req[r].level, req[r].host, "result")
    /\ UNCHANGED <<file, open, upstreams, pglcf, stage, running>>

Next ==
    \/ \E n \in Names : OpenBlock(n) \/ OtherPass(n)
    \/ CloseBlock \/ ForeignServer \/ Malformed
    \/ \E h \in DOMAIN Resolve, db \in Databases : ConfServer(h, db)
    \/ \E args \in KeepaliveArgs : ConfKeepalive(args)
    \/ \E l \in Levels, n \in Names \cup {None} : ConfPass(l, n)
    \/ InitUpstreams
    \/ \E r \in Requests :
          \/ \E l \in Levels : HandleName(r, l)
          \/ \E l \in Levels, n \in Names \cup {None} : HandleVariable(r, l, n)
          \/ InitPeer(r) \/ ProcessEvents(r) \/ Finish(r)
    \/ stage = "refused" /\ UNCHANGED vars
    \/ stage = "serving" /\ ~(\E l \in Levels : Served(l)) /\ UNCHANGED vars

Spec == Init /\ [][Next]_vars
-----------------------------------------------------------------------------
(* Properties.  What the blocks should be is read from the file. *)

UpstreamTypeOK ==
    /\ stage \in {"reading", "refused", "serving"}
    /\ open \in DOMAIN upstreams \cup {None}
    /\ \A k \in DOMAIN upstreams :
          LET u == upstreams[k]
          IN  /\ u.host \in Names /\ u.max_cached \in Nat
              /\ u.single \in BOOLEAN /\ u.reject \in BOOLEAN
              /\ u.ours = (u.servers # <<>>) /\ ~(u.ours /\ u.foreign)
    /\ \A l \in Levels : pglcf[l].upstream \in DOMAIN upstreams \cup {None}
    /\ running \in Requests \cup {None}
    /\ \A r \in Requests :
          /\ req[r].phase \in {"idle", "init", "connecting", "querying"}
          /\ req[r].phase # "idle" => Served(req[r].level)

Lines(block, kind) == {i \in DOMAIN file : file[i].block = block /\ file[i].kind = kind}

(* The name in the postgres_pass of a level, or in that of the location     *)
(* around it; None for variables.                                           *)
NameInFile(l) ==
    LET own == Lines(l, "pass")
        at == IF own # {} THEN own ELSE Lines("location", "pass")
    IN  file[CHOOSE i \in at : TRUE].value

(* The block that a request means: what its postgres_pass says, or what the *)
(* variables were worth in this request, not in another.                    *)
Meant(r) ==
    LET n == NameInFile(req[r].level) IN IF n = None THEN req[r].host ELSE n

(* A request is connected to the block it means, although the block is      *)
(* handed over through the configuration that all requests of the location  *)
(* write (handler.c:142).                                                   *)
OwnUpstream ==
    \A r \in Requests : req[r].phase \in {"connecting", "querying"} =>
       LET u == upstreams[req[r].srv]
       IN  u.host = Meant(r) /\ u.create

(* The state machine of a request runs only on a peer of this module, which *)
(* has at least one address: what it takes for its peer data is that.       *)
OnlyDatabases ==
    \A r \in Requests : req[r].phase = "querying" =>
       /\ Lines(Meant(r), "server") # {}
       /\ upstreams[req[r].srv].peers # <<>>

(* A request is told that its block does not exist, or is no database, only *)
(* when the file has no such block, or one without postgres_server; and     *)
(* never that it has no configuration.                                      *)
RefusedRightly ==
    \A r \in Requests :
       /\ req[r].answer = "not_found" => Lines(req[r].host, "upstream") = {}
       /\ req[r].answer = "not_my_peer" => Lines(Meant(r), "server") = {}
       /\ req[r].answer # "unconfigured"

(* Addresses up to the j-th of the postgres_server in line i, of a block.   *)
UpTo(block, i, j) ==
    {at \in Lines(block, "server") \X UNION {DOMAIN Resolve[h] : h \in DOMAIN Resolve} :
       /\ at[2] \in DOMAIN Resolve[file[at[1]].value.host]
       /\ at[1] < i \/ (at[1] = i /\ at[2] <= j)}

(* The round robin goes over every address of every postgres_server, in the *)
(* order of the file, each with the database of its own line.               *)
PeersMatchServers ==
    stage = "serving" =>
       \A k \in DOMAIN upstreams :
          LET u == upstreams[k]
              lines == Lines(u.host, "server")
          IN  u.ours =>
                /\ \A i \in lines : \A j \in DOMAIN Resolve[file[i].value.host] :
                      u.peers[Cardinality(UpTo(u.host, i, j))] =
                         [sockaddr |-> Resolve[file[i].value.host][j],
                          db |-> file[i].value.db]
                /\ Len(u.peers) = Cardinality(UpTo(u.host, Len(file) + 1, 1))

(* What the postgres_keepalive directives of a block say last about one     *)
(* setting, or its default.                                                 *)
LastSaid(block, setting, default) ==
    LET says == {i \in Lines(block, "keepalive") : file[i].value[setting] # None}
    IN  IF says = {} THEN default
        ELSE file[CHOOSE i \in says : \A j \in says : j <= i].value[setting]

(* The settings of a pool.  A directive is refused as a duplicate unless    *)
(* those before it leave max at 10: so max is that of one directive, and    *)
(* nothing changes after one that sets it (or says "off"); but the mode and *)
(* the overflow may be those of an earlier one.                             *)
KeepaliveAsWritten ==
    \A k \in DOMAIN upstreams :
       LET u == upstreams[k]
           ds == Lines(u.host, "keepalive")
       IN  /\ u.max_cached = LastSaid(u.host, "max", 10)
           /\ u.single = LastSaid(u.host, "single", TRUE)
           /\ u.reject = LastSaid(u.host, "reject", FALSE)
           /\ \A i, j \in ds : i < j => file[i].value.max \in {None, 10}
=============================================================================
