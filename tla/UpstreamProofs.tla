--------------------------- MODULE UpstreamProofs ---------------------------
(***************************************************************************)
(* For every configuration and any number of requests: that a request      *)
(* reaches the block it means, from an invariant of the file and what was  *)
(* made of it (UpInv, PassInv) and one of the requests (ReqInv); and that  *)
(* a block is what its lines say (BlocksInv): its pool settings, its       *)
(* servers and the peers made of them.                                     *)
(***************************************************************************)
EXTENDS Upstream, DataInduction

-----------------------------------------------------------------------------
(* Types *)

Kinds == {"upstream", "foreign", "other", "server", "keepalive", "pass"}
Values == [host : DOMAIN Resolve, db : Databases] \cup KeepaliveArgs \cup Names \cup {None}
FileLines == [block : Names \cup Levels, kind : Kinds, value : Values]

Servers == [addrs : {Resolve[h] : h \in DOMAIN Resolve}, db : Databases]

BlockOK(u) ==
    /\ DOMAIN u = {"host", "port", "create", "ours", "foreign", "servers", "peers",
                   "max_cached", "single", "reject"}
    /\ u.host \in Names /\ u.port \in {0, 8080}
    /\ u.create \in BOOLEAN /\ u.ours \in BOOLEAN /\ u.foreign \in BOOLEAN
    /\ u.servers \in Seq(Servers)
    /\ u.max_cached \in Nat /\ u.single \in BOOLEAN /\ u.reject \in BOOLEAN
BlockSeq(us) == (\E S : us \in Seq(S)) /\ \A k \in DOMAIN us : BlockOK(us[k])

Passes == [upstream : Nat \cup {None}, cv : BOOLEAN, handler : BOOLEAN]

Answers == {None, "empty", "not_found", "unconfigured", "failed", "not_my_peer", "result"}
RecordOK(x) ==
    /\ DOMAIN x = {"phase", "level", "host", "srv", "answer"}
    /\ x.phase \in {"idle", "init", "connecting", "querying"}
    /\ x.level \in Levels \cup {None} /\ x.host \in Names \cup {None}
    /\ x.srv \in Nat \cup {None} /\ x.answer \in Answers

TypeInv ==
    /\ file \in Seq(FileLines)
    /\ BlockSeq(upstreams)
    /\ open \in DOMAIN upstreams \cup {None}
    /\ pglcf \in [Levels -> Passes]
    /\ \A l \in Levels : pglcf[l].upstream \in DOMAIN upstreams \cup {None}
    /\ stage \in {"reading", "refused", "serving"}
    /\ running \in Requests \cup {None}
    /\ DOMAIN req = Requests /\ \A r \in Requests : RecordOK(req[r])

(* What the entries of umcf->upstreams are, against the file. *)
UpInv ==
    /\ \A j, k \in DOMAIN upstreams :
          upstreams[j].host = upstreams[k].host /\ upstreams[j].port = upstreams[k].port
          => j = k
    /\ \A k \in DOMAIN upstreams, n \in Names : upstreams[k].host = n =>
          /\ upstreams[k].create = TRUE <=> upstreams[k].port = 0 /\ Lines(n, "upstream") # {}
          /\ upstreams[k].ours = TRUE <=> upstreams[k].port = 0 /\ Lines(n, "server") # {}
          /\ upstreams[k].ours = TRUE <=> upstreams[k].servers # <<>>
          /\ upstreams[k].ours = TRUE => upstreams[k].foreign = FALSE
    /\ \A n \in Names : Lines(n, "upstream") # {} \/ Lines(n, "server") # {} =>
          \E k \in DOMAIN upstreams : upstreams[k].host = n /\ upstreams[k].port = 0
    /\ open # None => upstreams[open].port = 0

(* The pass of a level is as its line says, and there is one line or none.  *)
NoPass(l) ==
    /\ Lines(l, "pass") = {}
    /\ pglcf[l].upstream = None /\ ~pglcf[l].cv /\ ~pglcf[l].handler
OwnPass(l, i) ==
    /\ Lines(l, "pass") = {i}
    /\ pglcf[l].handler
    /\ IF file[i].value = None THEN pglcf[l].cv
       ELSE /\ ~pglcf[l].cv /\ pglcf[l].upstream # None
            /\ upstreams[pglcf[l].upstream].host = file[i].value

(* And after the merge, the pass of a level that is served is as its line   *)
(* says or that of the location around it.                                  *)
Named(l) ==
    IF NameInFile(l) = None THEN pglcf[l].cv
    ELSE /\ ~pglcf[l].cv /\ pglcf[l].upstream # None
         /\ upstreams[pglcf[l].upstream].host = NameInFile(l)

PassInv ==
    /\ \A l \in Levels : pglcf[l].upstream # None => upstreams[pglcf[l].upstream].port = 0
    /\ stage # "serving" => \A l \in Levels : NoPass(l) \/ \E i \in DOMAIN file : OwnPass(l, i)
    /\ stage = "serving" =>
          /\ \A k \in DOMAIN upstreams : upstreams[k].port = 0 => upstreams[k].create
          /\ \A l \in Levels : Served(l) => Named(l)
          /\ \A l \in Levels : pglcf[l].cv => Served(l)

(* The name of the block that a request at level l means. *)
MeantAt(l, r) == IF NameInFile(l) = None THEN req[r].host ELSE NameInFile(l)

Right(r) ==
    /\ req[r].phase # "idle" \/ req[r].answer # None =>
          req[r].level \in Levels /\ Served(req[r].level)
    /\ req[r].phase = "init" =>
          /\ running = r
          /\ pglcf[req[r].level].cv =>
                /\ pglcf[req[r].level].upstream # None
                /\ upstreams[pglcf[req[r].level].upstream].host = req[r].host
    /\ req[r].phase \in {"connecting", "querying"} =>
          /\ req[r].srv \in DOMAIN upstreams
          /\ upstreams[req[r].srv].port = 0
          /\ \A l \in Levels : req[r].level = l => upstreams[req[r].srv].host = MeantAt(l, r)
    /\ req[r].phase = "querying" => upstreams[req[r].srv].ours
    /\ req[r].answer = "not_found" => \A n : n = req[r].host => Lines(n, "upstream") = {}
    /\ req[r].answer = "not_my_peer" =>
          \A l \in Levels : \A n : req[r].level = l /\ n = MeantAt(l, r) => Lines(n, "server") = {}
    /\ req[r].answer # "unconfigured"

ReqInv ==
    /\ stage # "serving" => running = None /\ \A r \in Requests : req[r] = NewRequest
    /\ \A r \in Requests : Right(r)

UpstreamInv == TypeInv /\ UpInv /\ PassInv /\ ReqInv

-----------------------------------------------------------------------------
(* A line more in the file. *)

LEMMA LinesGrow ==
    ASSUME NEW b \in Names \cup Levels, NEW d \in Kinds, NEW v \in Values,
           file \in Seq(FileLines),
           file' = Append(file, [block |-> b, kind |-> d, value |-> v])
    PROVE  /\ file' \in Seq(FileLines)
           /\ \A c, e : Lines(c, e)' = IF c = b /\ e = d THEN Lines(c, e) \cup {Len(file) + 1}
                                       ELSE Lines(c, e)
           /\ \A i \in DOMAIN file : i \in DOMAIN file' /\ file'[i] = file[i]
           /\ Len(file) + 1 \in DOMAIN file' /\ Len(file) + 1 \notin DOMAIN file
           /\ file'[Len(file) + 1].value = v
    <1> DEFINE x == [block |-> b, kind |-> d, value |-> v]
    <1>1. x \in FileLines /\ x.block = b /\ x.kind = d /\ x.value = v
        BY DEF FileLines
    <1> HIDE DEF x
    <1>2. file' = Append(file, x)
        BY DEF x
    <1>3. /\ file' \in Seq(FileLines) /\ DOMAIN file' = DOMAIN file \cup {Len(file) + 1}
          /\ \A i \in DOMAIN file : i # Len(file) + 1 /\ file'[i] = file[i]
          /\ file'[Len(file) + 1] = x
        BY <1>1, <1>2
    <1> QED BY <1>1, <1>3 DEF Lines

LEMMA LinesSame == ASSUME file' = file PROVE \A c, e : Lines(c, e)' = Lines(c, e)
    BY DEF Lines

(* A line of another kind leaves the names in the passes alone. *)
LEMMA NamesSame ==
    ASSUME file' = file PROVE \A l : NameInFile(l)' = NameInFile(l)
    BY DEF NameInFile, Lines

-----------------------------------------------------------------------------
(* umcf->upstreams *)

LEMMA NewUpstreamType ==
    ASSUME NEW n \in Names, NEW port \in {0, 8080}
    PROVE  /\ BlockOK(NewUpstream(n, port))
           /\ NewUpstream(n, port).host = n /\ NewUpstream(n, port).port = port
    BY DEF NewUpstream, BlockOK

LEMMA BlockAppend ==
    ASSUME NEW us, NEW x, BlockSeq(us), BlockOK(x)
    PROVE  /\ BlockSeq(Append(us, x))
           /\ Len(us) + 1 \in Nat /\ Append(us, x)[Len(us) + 1] = x
           /\ \A j : j \in DOMAIN Append(us, x) <=> j \in DOMAIN us \/ j = Len(us) + 1
           /\ \A j \in DOMAIN us : j \in Nat /\ Append(us, x)[j] = us[j]
    <1>1. PICK S : us \in Seq(S)
        BY DEF BlockSeq
    <1> DEFINE Q == S \cup {x}
               more == Append(us, x)
    <1>2. us \in Seq(Q) /\ x \in Q
        <2>1. S \subseteq Q /\ x \in Q
            OBVIOUS
        <2> HIDE DEF Q
        <2> QED BY <1>1, <2>1
    <1> HIDE DEF Q
    <1>3. /\ more \in Seq(Q)
          /\ DOMAIN more = DOMAIN us \cup {Len(us) + 1} /\ Len(us) + 1 \in Nat
          /\ more[Len(us) + 1] = x
          /\ \A j \in DOMAIN us : j \in Nat /\ more[j] = us[j]
        BY <1>2
    <1> HIDE DEF more
    <1>4. \A j \in DOMAIN more : BlockOK(more[j])
        BY <1>3 DEF BlockSeq
    <1> QED BY <1>3, <1>4 DEF BlockSeq, more

LEMMA BlockSet ==
    ASSUME NEW us, NEW k, NEW x, BlockSeq(us), k \in DOMAIN us, BlockOK(x)
    PROVE  /\ BlockSeq([us EXCEPT ![k] = x])
           /\ DOMAIN [us EXCEPT ![k] = x] = DOMAIN us
           /\ [us EXCEPT ![k] = x][k] = x
           /\ \A j \in DOMAIN us \ {k} : [us EXCEPT ![k] = x][j] = us[j]
    <1>1. PICK S : us \in Seq(S)
        BY DEF BlockSeq
    <1> DEFINE Q == S \cup {x}
               more == [us EXCEPT ![k] = x]
    <1>2. us \in Seq(Q) /\ x \in Q
        <2>1. S \subseteq Q /\ x \in Q
            OBVIOUS
        <2> HIDE DEF Q
        <2> QED BY <1>1, <2>1
    <1> HIDE DEF Q
    <1>3. /\ more \in Seq(Q)
          /\ DOMAIN more = DOMAIN us /\ more[k] = x
          /\ \A j \in DOMAIN us \ {k} : more[j] = us[j]
        BY <1>2
    <1> HIDE DEF more
    <1>4. \A j \in DOMAIN more : BlockOK(more[j])
        BY <1>3 DEF BlockSeq
    <1> QED BY <1>3, <1>4 DEF BlockSeq, more

(* ngx_http_upstream_add: the entry asked for is there, and is new only if   *)
(* there was none.                                                          *)
LEMMA AddedFacts ==
    ASSUME NEW n \in Names, NEW port \in {0, 8080}, TypeInv
    PROVE  /\ BlockSeq(Added(n, port))
           /\ \A j : j \in DOMAIN Added(n, port) <=> j \in DOMAIN upstreams \/ j = IndexAdded(n, port)
           /\ IndexAdded(n, port) \in Nat
           /\ \A j \in DOMAIN upstreams : Added(n, port)[j] = upstreams[j]
           /\ Added(n, port)[IndexAdded(n, port)].host = n
           /\ Added(n, port)[IndexAdded(n, port)].port = port
           /\ IndexAdded(n, port) \notin DOMAIN upstreams =>
                 /\ Added(n, port)[IndexAdded(n, port)] = NewUpstream(n, port)
                 /\ Entries(n, port) = {}
    <1> DEFINE more == Added(n, port)
               k == IndexAdded(n, port)
               x == NewUpstream(n, port)
    <1>1. BlockSeq(upstreams)
        BY DEF TypeInv
    <1>2. CASE Entries(n, port) # {}
        <2>1. k \in Entries(n, port) /\ more = upstreams
            BY <1>2 DEF IndexAdded, Added
        <2>2. DOMAIN upstreams \subseteq Nat
            BY <1>1 DEF BlockSeq
        <2>3. k \in DOMAIN upstreams /\ upstreams[k].host = n /\ upstreams[k].port = port
            BY <2>1 DEF Entries
        <2> HIDE DEF more, k
        <2> QED BY <1>1, <2>1, <2>2, <2>3 DEF more, k
    <1>3. CASE Entries(n, port) = {}
        <2>1. more = Append(upstreams, x) /\ k = Len(upstreams) + 1
            BY <1>3 DEF Added, IndexAdded
        <2>2. BlockOK(x) /\ x.host = n /\ x.port = port
            BY NewUpstreamType
        <2> HIDE DEF more, k, x
        <2>3. /\ BlockSeq(more) /\ k \in Nat /\ more[k] = x
              /\ \A j : j \in DOMAIN more <=> j \in DOMAIN upstreams \/ j = k
              /\ \A j \in DOMAIN upstreams : more[j] = upstreams[j]
            BY <1>1, <2>1, <2>2, BlockAppend
        <2> QED BY <1>3, <2>2, <2>3 DEF more, k, x
    <1> QED BY <1>2, <1>3

-----------------------------------------------------------------------------
(* What the directives leave alone. *)

LEMMA KeepPass ==
    ASSUME TypeInv, PassInv, stage # "serving", stage' # "serving", UNCHANGED pglcf,
           \A l \in Levels : Lines(l, "pass")' = Lines(l, "pass"),
           \A i \in DOMAIN file : i \in DOMAIN file' /\ file'[i].value = file[i].value,
           \A k \in DOMAIN upstreams : /\ upstreams'[k].host = upstreams[k].host
                                       /\ upstreams'[k].port = upstreams[k].port
    PROVE  PassInv'
    <1>1. \A l \in Levels : pglcf[l].upstream # None => pglcf[l].upstream \in DOMAIN upstreams
        BY DEF TypeInv
    <1>2. \A l \in Levels : NoPass(l) => NoPass(l)'
        BY DEF NoPass
    <1>3. \A l \in Levels : \A i \in DOMAIN file : OwnPass(l, i) => OwnPass(l, i)'
        BY <1>1 DEF OwnPass
    <1> QED BY <1>1, <1>2, <1>3 DEF PassInv

LEMMA KeepReq ==
    ASSUME ReqInv, stage # "serving", UNCHANGED <<running, req>> PROVE ReqInv'
    <1>1. \A r \in Requests : req'[r] = NewRequest
        BY DEF ReqInv
    <1>2. \A r \in Requests : req'[r].phase = "idle" /\ req'[r].answer = None
        BY <1>1 DEF NewRequest
    <1>3. \A r \in Requests : Right(r)'
        BY <1>2, UpstreamAssumption DEF Right
    <1> QED BY <1>1, <1>3 DEF ReqInv

(* Another entry of umcf->upstreams, for a name that has none. *)
LEMMA UpAdded ==
    ASSUME NEW n \in Names, NEW port \in {0, 8080}, TypeInv, UpInv,
           upstreams' = Added(n, port), UNCHANGED open,
           \A m : Lines(m, "upstream")' = Lines(m, "upstream"),
           \A m : Lines(m, "server")' = Lines(m, "server")
    PROVE  UpInv'
    <1>t. TypeInv /\ n \in Names /\ port \in {0, 8080}
        OBVIOUS
    <1>a. /\ \A j : j \in DOMAIN Added(n, port) <=> j \in DOMAIN upstreams \/ j = IndexAdded(n, port)
          /\ \A j \in DOMAIN upstreams : Added(n, port)[j] = upstreams[j]
          /\ Added(n, port)[IndexAdded(n, port)].host = n
          /\ Added(n, port)[IndexAdded(n, port)].port = port
        BY <1>t, AddedFacts
    <1>b. IndexAdded(n, port) \notin DOMAIN upstreams =>
             /\ Added(n, port)[IndexAdded(n, port)] = NewUpstream(n, port)
             /\ Entries(n, port) = {}
        BY <1>t, AddedFacts
    <1> DEFINE k == IndexAdded(n, port)
    <1> HIDE DEF k
    <1>1. /\ \A j : j \in DOMAIN upstreams' <=> j \in DOMAIN upstreams \/ j = k
          /\ \A j \in DOMAIN upstreams : upstreams'[j] = upstreams[j]
          /\ upstreams'[k].host = n /\ upstreams'[k].port = port
          /\ k \notin DOMAIN upstreams =>
                upstreams'[k] = NewUpstream(n, port) /\ Entries(n, port) = {}
        BY <1>a, <1>b DEF k
    <1>2. k \notin DOMAIN upstreams =>
             /\ \A j \in DOMAIN upstreams : ~(upstreams[j].host = n /\ upstreams[j].port = port)
             /\ port = 0 => Lines(n, "upstream") = {} /\ Lines(n, "server") = {}
             /\ ~upstreams'[k].create /\ ~upstreams'[k].ours /\ ~upstreams'[k].foreign
             /\ upstreams'[k].servers = <<>>
        <2>1. k \notin DOMAIN upstreams =>
                 \A j \in DOMAIN upstreams : ~(upstreams[j].host = n /\ upstreams[j].port = port)
            BY <1>1 DEF Entries
        <2>2. k \notin DOMAIN upstreams /\ port = 0 =>
                 Lines(n, "upstream") = {} /\ Lines(n, "server") = {}
            BY <2>1 DEF UpInv
        <2> QED BY <1>1, <2>1, <2>2 DEF NewUpstream
    <1>3. \A i, j \in DOMAIN upstreams' :
             upstreams'[i].host = upstreams'[j].host /\ upstreams'[i].port = upstreams'[j].port
             => i = j
        BY <1>1, <1>2 DEF UpInv
    <1> DEFINE Line(u, m) ==
                   /\ u.create = TRUE <=> u.port = 0 /\ Lines(m, "upstream")' # {}
                   /\ u.ours = TRUE <=> u.port = 0 /\ Lines(m, "server")' # {}
                   /\ u.ours = TRUE <=> u.servers # <<>>
                   /\ u.ours = TRUE => u.foreign = FALSE
    <1>4. \A i \in DOMAIN upstreams', m \in Names : upstreams'[i].host = m => Line(upstreams'[i], m)
        <2>1. ASSUME NEW i \in DOMAIN upstreams, NEW m \in Names, upstreams[i].host = m
              PROVE  Line(upstreams[i], m)
            <3>1. /\ Lines(m, "upstream")' = Lines(m, "upstream")
                  /\ Lines(m, "server")' = Lines(m, "server")
                OBVIOUS
            <3> QED BY <2>1, <3>1 DEF UpInv
        <2>2. k \notin DOMAIN upstreams => Line(upstreams'[k], n)
            BY <1>1, <1>2
        <2> HIDE DEF Line
        <2> QED BY <1>1, <2>1, <2>2
    <1>5. \A m \in Names : Lines(m, "upstream")' # {} \/ Lines(m, "server")' # {} =>
             \E i \in DOMAIN upstreams' : upstreams'[i].host = m /\ upstreams'[i].port = 0
        BY <1>1 DEF UpInv
    <1>6. open' # None => upstreams'[open'].port = 0
        BY <1>1 DEF UpInv, TypeInv
    <1> QED BY SMTT(40), <1>3, <1>4, <1>5, <1>6 DEF UpInv

LEMMA UpSame ==
    ASSUME UpInv, UNCHANGED <<upstreams, open>>,
           \A m : Lines(m, "upstream")' = Lines(m, "upstream"),
           \A m : Lines(m, "server")' = Lines(m, "server")
    PROVE  UpInv'
    <1>1. \A i, j \in DOMAIN upstreams' :
             upstreams'[i].host = upstreams'[j].host /\ upstreams'[i].port = upstreams'[j].port
             => i = j
        BY DEF UpInv
    <1>2. \A k \in DOMAIN upstreams', n \in Names : upstreams'[k].host = n =>
             /\ upstreams'[k].create = TRUE <=> upstreams'[k].port = 0 /\ Lines(n, "upstream")' # {}
             /\ upstreams'[k].ours = TRUE <=> upstreams'[k].port = 0 /\ Lines(n, "server")' # {}
             /\ upstreams'[k].ours = TRUE <=> upstreams'[k].servers # <<>>
             /\ upstreams'[k].ours = TRUE => upstreams'[k].foreign = FALSE
        BY DEF UpInv
    <1>3. \A m \in Names : Lines(m, "upstream")' # {} \/ Lines(m, "server")' # {} =>
             \E i \in DOMAIN upstreams' : upstreams'[i].host = m /\ upstreams'[i].port = 0
        BY DEF UpInv
    <1>4. open' # None => upstreams'[open'].port = 0
        BY DEF UpInv
    <1> QED BY <1>1, <1>2, <1>3, <1>4 DEF UpInv

(* Entries that change, but not what they are called. *)
LEMMA UpChanged ==
    ASSUME UpInv, UNCHANGED open,
           \A j : j \in DOMAIN upstreams' <=> j \in DOMAIN upstreams,
           \A k \in DOMAIN upstreams : /\ upstreams'[k].host = upstreams[k].host
                                       /\ upstreams'[k].port = upstreams[k].port
                                       /\ upstreams'[k].create = upstreams[k].create,
           \A k \in DOMAIN upstreams, n \in Names : upstreams[k].host = n =>
              /\ upstreams'[k].ours = TRUE <=> upstreams[k].port = 0 /\ Lines(n, "server")' # {}
              /\ upstreams'[k].ours = TRUE <=> upstreams'[k].servers # <<>>
              /\ upstreams'[k].ours = TRUE => upstreams'[k].foreign = FALSE,
           \A m \in Names : Lines(m, "upstream")' = Lines(m, "upstream"),
           \A m \in Names : Lines(m, "server")' # {} =>
              \/ Lines(m, "server") # {}
              \/ \E k \in DOMAIN upstreams : upstreams[k].host = m /\ upstreams[k].port = 0,
           open # None => open \in DOMAIN upstreams
    PROVE  UpInv'
    <1>1. \A i, j \in DOMAIN upstreams' :
             upstreams'[i].host = upstreams'[j].host /\ upstreams'[i].port = upstreams'[j].port
             => i = j
        BY DEF UpInv
    <1>2. \A k \in DOMAIN upstreams', n \in Names : upstreams'[k].host = n =>
             upstreams'[k].create = TRUE <=> upstreams'[k].port = 0 /\ Lines(n, "upstream")' # {}
        BY DEF UpInv
    <1>3. \A m \in Names : Lines(m, "upstream")' # {} \/ Lines(m, "server")' # {} =>
             \E i \in DOMAIN upstreams' : upstreams'[i].host = m /\ upstreams'[i].port = 0
        BY DEF UpInv
    <1>4. open' # None => upstreams'[open'].port = 0
        BY DEF UpInv
    <1> QED BY <1>1, <1>2, <1>3, <1>4 DEF UpInv

-----------------------------------------------------------------------------
(* The steps that read the configuration *)

LEMMA RefuseStep == ASSUME UpstreamInv, stage = "reading", Refuse PROVE UpstreamInv'
    <1> USE DEF UpstreamInv
    <1>1. \A c, e : Lines(c, e)' = Lines(c, e)
        BY LinesSame DEF Refuse
    <1>2. TypeInv'
        BY DEF TypeInv, Refuse, BlockSeq
    <1>3. UpInv'
        BY <1>1 DEF UpInv, Refuse
    <1>4. PassInv'
        BY <1>1, KeepPass DEF Refuse
    <1>5. ReqInv'
        BY KeepReq DEF Refuse
    <1> QED BY <1>2, <1>3, <1>4, <1>5

(* A directive inside a block, or one that adds a line of kind d for b.     *)
LEMMA AcceptFacts ==
    ASSUME NEW b \in Names \cup Levels, NEW d \in Kinds, NEW v \in Values,
           UpstreamInv, Accept(b, d, v), stage = "reading"
    PROVE  /\ file' \in Seq(FileLines)
           /\ \A c, e : ~(c = b /\ e = d) => Lines(c, e)' = Lines(c, e)
           /\ \A i : i \in Lines(b, d)' <=> i \in Lines(b, d) \/ i = Len(file) + 1
           /\ \A i \in DOMAIN file : i \in DOMAIN file' /\ file'[i].value = file[i].value
           /\ Len(file) + 1 \in DOMAIN file' /\ file'[Len(file) + 1].value = v
           /\ stage' = "reading" /\ ReqInv'
    <1>1. file \in Seq(FileLines) /\ ReqInv
        BY DEF UpstreamInv, TypeInv
    <1>2. file' = Append(file, [block |-> b, kind |-> d, value |-> v])
        BY DEF Accept
    <1>3. stage' = "reading" /\ ReqInv'
        BY <1>1, KeepReq DEF Accept
    <1>4. /\ file' \in Seq(FileLines)
          /\ \A c, e : Lines(c, e)' = IF c = b /\ e = d THEN Lines(c, e) \cup {Len(file) + 1}
                                      ELSE Lines(c, e)
          /\ \A i \in DOMAIN file : i \in DOMAIN file' /\ file'[i] = file[i]
          /\ Len(file) + 1 \in DOMAIN file'
          /\ file'[Len(file) + 1].value = v
        BY <1>1, <1>2, LinesGrow
    <1> QED BY <1>3, <1>4

LEMMA CloseStep == ASSUME UpstreamInv, CloseBlock PROVE UpstreamInv'
    <1>1. CASE Refuse
        BY <1>1, RefuseStep DEF CloseBlock
    <1>2. CASE open' = None /\ UNCHANGED <<file, upstreams, pglcf, stage, running, req>>
        <2> USE DEF UpstreamInv
        <2>1. \A c, e : Lines(c, e)' = Lines(c, e)
            BY <1>2, LinesSame
        <2>2. TypeInv'
            BY <1>2 DEF TypeInv, BlockSeq
        <2>3. UpInv'
            BY <1>2, <2>1 DEF UpInv
        <2>4. PassInv'
            BY <1>2, <2>1, KeepPass DEF CloseBlock
        <2>5. ReqInv'
            BY <1>2, KeepReq DEF CloseBlock
        <2> QED BY <2>2, <2>3, <2>4, <2>5
    <1> QED BY <1>1, <1>2 DEF CloseBlock

LEMMA OtherStep == ASSUME NEW n \in Names, UpstreamInv, OtherPass(n) PROVE UpstreamInv'
    <1>1. CASE Refuse
        BY <1>1, RefuseStep DEF OtherPass, Reading
    <1>2. CASE /\ Accept(n, "other", None)
               /\ upstreams' = Added(n, 8080)
               /\ UNCHANGED <<open, pglcf>>
        <2>t. TypeInv /\ UpInv /\ PassInv /\ stage = "reading"
            BY DEF UpstreamInv, OtherPass, Reading
        <2>1. /\ file' \in Seq(FileLines)
              /\ \A c, e : e # "other" => Lines(c, e)' = Lines(c, e)
              /\ \A i \in DOMAIN file : i \in DOMAIN file' /\ file'[i].value = file[i].value
              /\ stage' = "reading" /\ ReqInv'
            <3>1. "other" \in Kinds /\ None \in Values /\ n \in Names \cup Levels
                BY DEF Kinds, Values
            <3> QED BY <1>2, <2>t, <3>1, AcceptFacts
        <2>2. /\ BlockSeq(upstreams')
              /\ \A j \in DOMAIN upstreams : j \in DOMAIN upstreams' /\ upstreams'[j] = upstreams[j]
            BY <1>2, <2>t, AddedFacts
        <2>3. TypeInv'
            BY <1>2, <2>t, <2>1, <2>2 DEF TypeInv, Accept
        <2>4. UpInv'
            <3>1. /\ \A m : Lines(m, "upstream")' = Lines(m, "upstream")
                  /\ \A m : Lines(m, "server")' = Lines(m, "server")
                BY <2>1
            <3> QED BY <1>2, <2>t, <3>1, UpAdded
        <2>5. PassInv'
            <3>1. \A l \in Levels : Lines(l, "pass")' = Lines(l, "pass")
                BY <2>1
            <3> QED BY <1>2, <2>t, <2>1, <2>2, <3>1, KeepPass
        <2> QED BY <2>1, <2>3, <2>4, <2>5 DEF UpstreamInv
    <1> QED BY <1>1, <1>2 DEF OtherPass

LEMMA OpenStep == ASSUME NEW n \in Names, UpstreamInv, OpenBlock(n) PROVE UpstreamInv'
    <1> DEFINE k == IndexAdded(n, 0)
               more == Added(n, 0)
    <1>1. CASE Refuse
        BY <1>1, RefuseStep DEF OpenBlock, Reading
    <1>2. CASE /\ ~(\E j \in Entries(n, 0) : upstreams[j].create) /\ Entries(n, 8080) = {}
               /\ Accept(n, "upstream", None)
               /\ upstreams' = [more EXCEPT ![k].create = TRUE]
               /\ open' = k
               /\ UNCHANGED pglcf
        <2>t. TypeInv /\ UpInv /\ PassInv /\ stage = "reading"
            BY DEF UpstreamInv, OpenBlock, Reading
        <2>1. /\ file' \in Seq(FileLines)
              /\ \A c, e : ~(c = n /\ e = "upstream") => Lines(c, e)' = Lines(c, e)
              /\ Len(file) + 1 \in Lines(n, "upstream")'
              /\ \A i \in DOMAIN file : i \in DOMAIN file' /\ file'[i].value = file[i].value
              /\ stage' = "reading" /\ ReqInv'
            <3>1. "upstream" \in Kinds /\ None \in Values /\ n \in Names \cup Levels
                BY DEF Kinds, Values
            <3> QED BY <1>2, <2>t, <3>1, AcceptFacts
        <2>2. /\ BlockSeq(more)
              /\ \A j : j \in DOMAIN more <=> j \in DOMAIN upstreams \/ j = k
              /\ \A j \in DOMAIN upstreams : more[j] = upstreams[j]
              /\ more[k].host = n /\ more[k].port = 0
              /\ k \notin DOMAIN upstreams => more[k] = NewUpstream(n, 0) /\ Entries(n, 0) = {}
            BY <2>t, AddedFacts
        <2> HIDE DEF k, more
        <2>3. /\ BlockSeq(upstreams')
              /\ \A j : j \in DOMAIN upstreams' <=> j \in DOMAIN upstreams \/ j = k
              /\ upstreams'[k] = [more[k] EXCEPT !.create = TRUE]
              /\ \A j \in DOMAIN upstreams \ {k} : upstreams'[j] = upstreams[j]
            <3> DEFINE x == [more[k] EXCEPT !.create = TRUE]
            <3>1. k \in DOMAIN more /\ BlockOK(more[k])
                BY <2>2 DEF BlockSeq
            <3>2. BlockOK(x)
                BY <3>1 DEF BlockOK
            <3>3. upstreams' = [more EXCEPT ![k] = x]
                BY <1>2
            <3> HIDE DEF x
            <3>4. /\ BlockSeq([more EXCEPT ![k] = x])
                  /\ DOMAIN [more EXCEPT ![k] = x] = DOMAIN more
                  /\ [more EXCEPT ![k] = x][k] = x
                  /\ \A j \in DOMAIN more \ {k} : [more EXCEPT ![k] = x][j] = more[j]
                BY <2>2, <3>1, <3>2, BlockSet
            <3> QED BY <2>2, <3>3, <3>4 DEF x
        <2>4. /\ upstreams'[k].host = n /\ upstreams'[k].port = 0 /\ upstreams'[k].create = TRUE
              /\ upstreams'[k].ours = more[k].ours /\ upstreams'[k].foreign = more[k].foreign
              /\ upstreams'[k].servers = more[k].servers
            <3>1. BlockOK(more[k])
                BY <2>2 DEF BlockSeq
            <3> QED BY <2>2, <2>3, <3>1 DEF BlockOK
        <2>5. TypeInv'
            BY <1>2, <2>t, <2>1, <2>3 DEF TypeInv, Accept
        <2>6. \A j \in DOMAIN upstreams' : j # k =>
                 j \in DOMAIN upstreams /\ upstreams'[j] = upstreams[j] /\ upstreams[j].host # n
            <3>2. ASSUME NEW j \in DOMAIN upstreams, j # k PROVE upstreams[j].host # n
                <4>1. upstreams[j].port \in {0, 8080}
                    BY <2>t, <3>2 DEF TypeInv, BlockSeq, BlockOK
                <4>2. upstreams[j].host = n => upstreams[j].port # 8080
                    BY <1>2, <3>2 DEF Entries
                <4>3. upstreams[j].host = n => upstreams[j].port # 0
                    <5>1. CASE k \in DOMAIN upstreams
                        BY <2>t, <2>2, <3>2, <5>1 DEF UpInv
                    <5>2. CASE k \notin DOMAIN upstreams
                        BY <2>2, <3>2, <5>2 DEF Entries
                    <5> QED BY <5>1, <5>2
                <4> QED BY <4>1, <4>2, <4>3
            <3> QED BY <2>3, <3>2
        <2>7. /\ more[k].ours = TRUE <=> Lines(n, "server") # {}
              /\ more[k].ours = TRUE <=> more[k].servers # <<>>
              /\ more[k].ours = TRUE => more[k].foreign = FALSE
            <3>1. CASE k \in DOMAIN upstreams
                BY <2>t, <2>2, <3>1 DEF UpInv
            <3>2. CASE k \notin DOMAIN upstreams
                <4>1. Lines(n, "server") = {}
                    BY <2>t, <2>2, <3>2 DEF UpInv, Entries
                <4>2. more[k].ours = FALSE /\ more[k].servers = <<>>
                    BY <2>2, <3>2 DEF NewUpstream
                <4> QED BY <4>1, <4>2
            <3> QED BY <3>1, <3>2
        <2>8. UpInv'
            <3>1. \A i, j \in DOMAIN upstreams' :
                     upstreams'[i].host = upstreams'[j].host /\ upstreams'[i].port = upstreams'[j].port
                     => i = j
                BY <2>t, <2>4, <2>6 DEF UpInv
            <3>2. \A i \in DOMAIN upstreams', m \in Names : upstreams'[i].host = m =>
                     /\ upstreams'[i].create = TRUE
                           <=> upstreams'[i].port = 0 /\ Lines(m, "upstream")' # {}
                     /\ upstreams'[i].ours = TRUE
                           <=> upstreams'[i].port = 0 /\ Lines(m, "server")' # {}
                     /\ upstreams'[i].ours = TRUE <=> upstreams'[i].servers # <<>>
                     /\ upstreams'[i].ours = TRUE => upstreams'[i].foreign = FALSE
                <4>1. ASSUME NEW i \in DOMAIN upstreams', NEW m \in Names, upstreams'[i].host = m, i # k
                      PROVE  /\ upstreams'[i] = upstreams[i] /\ i \in DOMAIN upstreams
                             /\ Lines(m, "upstream")' = Lines(m, "upstream")
                             /\ Lines(m, "server")' = Lines(m, "server")
                    BY <2>1, <2>6, <4>1
                <4>2. Lines(n, "server")' = Lines(n, "server")
                    BY <2>1
                <4>3. \A i \in DOMAIN upstreams, m \in Names : upstreams[i].host = m =>
                         /\ upstreams[i].create = TRUE
                               <=> upstreams[i].port = 0 /\ Lines(m, "upstream") # {}
                         /\ upstreams[i].ours = TRUE
                               <=> upstreams[i].port = 0 /\ Lines(m, "server") # {}
                         /\ upstreams[i].ours = TRUE <=> upstreams[i].servers # <<>>
                         /\ upstreams[i].ours = TRUE => upstreams[i].foreign = FALSE
                    BY <2>t DEF UpInv
                <4>4. ASSUME NEW i \in DOMAIN upstreams', NEW m \in Names, upstreams'[i].host = m
                      PROVE  /\ upstreams'[i].create = TRUE
                                   <=> upstreams'[i].port = 0 /\ Lines(m, "upstream")' # {}
                             /\ upstreams'[i].ours = TRUE
                                   <=> upstreams'[i].port = 0 /\ Lines(m, "server")' # {}
                             /\ upstreams'[i].ours = TRUE <=> upstreams'[i].servers # <<>>
                             /\ upstreams'[i].ours = TRUE => upstreams'[i].foreign = FALSE
                    <5>1. CASE i = k
                        BY <2>1, <2>4, <2>7, <4>2, <4>4, <5>1
                    <5>2. CASE i # k
                        BY <4>1, <4>3, <4>4, <5>2
                    <5> QED BY <5>1, <5>2
                <4> QED BY <4>4
            <3>3. \A m \in Names : Lines(m, "upstream")' # {} \/ Lines(m, "server")' # {} =>
                     \E i \in DOMAIN upstreams' : upstreams'[i].host = m /\ upstreams'[i].port = 0
                <4>1. k \in DOMAIN upstreams'
                    BY <2>3
                <4>2. ASSUME NEW m \in Names, m # n,
                             Lines(m, "upstream")' # {} \/ Lines(m, "server")' # {}
                      PROVE  \E i \in DOMAIN upstreams' : upstreams'[i].host = m /\ upstreams'[i].port = 0
                    <5>1. Lines(m, "upstream") # {} \/ Lines(m, "server") # {}
                        BY <2>1, <4>2
                    <5>2. PICK i \in DOMAIN upstreams : upstreams[i].host = m /\ upstreams[i].port = 0
                        BY <2>t, <5>1 DEF UpInv
                    <5>3. i # k
                        BY <2>2, <4>2, <5>2
                    <5> QED BY <2>3, <5>2, <5>3
                <4> QED BY <2>4, <4>1, <4>2
            <3>4. open' # None => upstreams'[open'].port = 0
                BY <1>2, <2>4
            <3> QED BY <3>1, <3>2, <3>3, <3>4 DEF UpInv
        <2>9. PassInv'
            <3>1. \A l \in Levels : Lines(l, "pass")' = Lines(l, "pass")
                BY <2>1
            <3>2. \A j \in DOMAIN upstreams : /\ upstreams'[j].host = upstreams[j].host
                                              /\ upstreams'[j].port = upstreams[j].port
                BY <2>2, <2>3, <2>4
            <3> QED BY <1>2, <2>t, <2>1, <3>1, <3>2, KeepPass
        <2> QED BY <2>1, <2>5, <2>8, <2>9 DEF UpstreamInv
    <1> QED BY <1>1, <1>2 DEF OpenBlock

(* The block that is being read gets x for its entry, with the same name.   *)
LEMMA InBlock ==
    ASSUME NEW n \in Names, NEW x, NEW v \in Values, NEW d \in {"foreign", "server", "keepalive"},
           UpstreamInv, stage = "reading", open # None,
           n = upstreams[open].host, Accept(n, d, v),
           upstreams' = [upstreams EXCEPT ![open] = x], UNCHANGED <<open, pglcf>>,
           BlockOK(x), x.host = n, x.port = upstreams[open].port,
           x.create = upstreams[open].create,
           d # "server" => x.ours = upstreams[open].ours /\ x.servers = upstreams[open].servers,
           d = "server" => x.ours = TRUE /\ x.servers # <<>>,
           x.ours = TRUE => x.foreign = FALSE
    PROVE  UpstreamInv'
    <1>t. TypeInv /\ UpInv /\ PassInv
        BY DEF UpstreamInv
    <1>b. /\ open \in DOMAIN upstreams /\ BlockSeq(upstreams) /\ n \in Names
          /\ upstreams[open].port = 0
        BY <1>t DEF TypeInv, UpInv, BlockSeq, BlockOK
    <1>1. /\ file' \in Seq(FileLines)
          /\ \A c, e : ~(c = n /\ e = d) => Lines(c, e)' = Lines(c, e)
          /\ Len(file) + 1 \in Lines(n, d)'
          /\ \A i \in DOMAIN file : i \in DOMAIN file' /\ file'[i].value = file[i].value
          /\ stage' = "reading" /\ ReqInv'
        <2>1. d \in Kinds /\ n \in Names \cup Levels
            BY <1>b DEF Kinds
        <2> QED BY <2>1, AcceptFacts
    <1>2. /\ BlockSeq(upstreams')
          /\ \A j : j \in DOMAIN upstreams' <=> j \in DOMAIN upstreams
          /\ upstreams'[open] = x
          /\ \A j \in DOMAIN upstreams : j # open => upstreams'[j] = upstreams[j]
        BY <1>b, BlockSet
    <1>3. TypeInv'
        BY <1>t, <1>1, <1>2 DEF TypeInv, Accept
    <1>4. \A k \in DOMAIN upstreams : /\ upstreams'[k].host = upstreams[k].host
                                      /\ upstreams'[k].port = upstreams[k].port
                                      /\ upstreams'[k].create = upstreams[k].create
        BY <1>2
    <1>5. \A l \in Levels : Lines(l, "pass")' = Lines(l, "pass")
        BY <1>1
    <1>6. PassInv'
        BY <1>t, <1>1, <1>4, <1>5, KeepPass
    <1>7. ASSUME NEW k \in DOMAIN upstreams, NEW m \in Names, upstreams[k].host = m
          PROVE  /\ upstreams'[k].ours = TRUE <=> upstreams[k].port = 0 /\ Lines(m, "server")' # {}
                 /\ upstreams'[k].ours = TRUE <=> upstreams'[k].servers # <<>>
                 /\ upstreams'[k].ours = TRUE => upstreams'[k].foreign = FALSE
        <2>1. /\ upstreams[k].ours = TRUE <=> upstreams[k].port = 0 /\ Lines(m, "server") # {}
              /\ upstreams[k].ours = TRUE <=> upstreams[k].servers # <<>>
              /\ upstreams[k].ours = TRUE => upstreams[k].foreign = FALSE
            BY <1>t, <1>7 DEF UpInv
        <2>2. CASE k = open
            <3>1. d # "server" => Lines(m, "server")' = Lines(m, "server")
                BY <1>1
            <3>2. d = "server" => Lines(m, "server")' # {}
                BY <1>1, <1>7, <2>2
            <3> QED BY <1>b, <1>2, <2>1, <2>2, <3>1, <3>2
        <2>3. CASE k # open
            <3>1. upstreams[k].port = 0 => m # n
                BY <1>t, <1>b, <1>7, <2>3 DEF UpInv
            <3>2. m # n => Lines(m, "server")' = Lines(m, "server")
                BY <1>1
            <3> QED BY <1>2, <2>1, <2>3, <3>1, <3>2
        <2> QED BY <2>2, <2>3
    <1>8. /\ \A m \in Names : Lines(m, "upstream")' = Lines(m, "upstream")
          /\ \A m \in Names : Lines(m, "server")' # {} =>
                \/ Lines(m, "server") # {}
                \/ \E k \in DOMAIN upstreams : upstreams[k].host = m /\ upstreams[k].port = 0
        BY <1>b, <1>1
    <1>9. UpInv'
        BY <1>t, <1>b, <1>2, <1>4, <1>7, <1>8, UpChanged
    <1> QED BY <1>1, <1>3, <1>6, <1>9 DEF UpstreamInv

LEMMA OpenBlockOK ==
    ASSUME UpstreamInv, open # None
    PROVE  /\ open \in DOMAIN upstreams /\ BlockOK(upstreams[open])
           /\ upstreams[open].ours = TRUE <=> upstreams[open].servers # <<>>
           /\ upstreams[open].ours = TRUE => upstreams[open].foreign = FALSE
    <1>1. open \in DOMAIN upstreams /\ BlockOK(upstreams[open])
        BY DEF UpstreamInv, TypeInv, BlockSeq
    <1>2. upstreams[open].host \in Names
        BY <1>1 DEF BlockOK
    <1> QED BY <1>1, <1>2 DEF UpstreamInv, UpInv

LEMMA ForeignStep == ASSUME UpstreamInv, ForeignServer PROVE UpstreamInv'
    <1> DEFINE u == upstreams[open]
               x == [u EXCEPT !.foreign = TRUE]
    <1>1. BlockOK(u) /\ u.ours # TRUE
        BY OpenBlockOK DEF ForeignServer
    <1>n. PICK n \in Names : n = u.host
        BY <1>1 DEF BlockOK
    <1>2. /\ BlockOK(x) /\ x.host = u.host /\ x.port = u.port /\ x.create = u.create
          /\ x.ours = u.ours /\ x.servers = u.servers
        BY <1>1 DEF BlockOK
    <1>3. upstreams' = [upstreams EXCEPT ![open] = x]
        BY DEF ForeignServer
    <1>4. None \in Values /\ "foreign" \in {"foreign", "server", "keepalive"} /\ "foreign" # "server"
        BY DEF Values
    <1>5. /\ stage = "reading" /\ open # None /\ Accept(n, "foreign", None)
          /\ UNCHANGED <<open, pglcf>>
        BY <1>n DEF ForeignServer, Reading
    <1> HIDE DEF x
    <1> QED BY <1>n, <1>1, <1>2, <1>3, <1>4, <1>5, InBlock

LEMMA ServerStep ==
    ASSUME NEW h \in DOMAIN Resolve, NEW db \in Databases, UpstreamInv, ConfServer(h, db)
    PROVE  UpstreamInv'
    <1> DEFINE u == upstreams[open]
               v == [host |-> h, db |-> db]
               more == Append(u.servers, [addrs |-> Resolve[h], db |-> db])
               x == [u EXCEPT !.servers = more, !.ours = TRUE]
    <1>b. BlockOK(u) /\ ~u.foreign
        BY OpenBlockOK DEF ConfServer
    <1>1. BlockOK(u) /\ u.foreign = FALSE
        BY <1>b DEF BlockOK
    <1>n. PICK n \in Names : n = u.host
        BY <1>1 DEF BlockOK
    <1>2. more \in Seq(Servers) /\ more # <<>>
        <2>1. [addrs |-> Resolve[h], db |-> db] \in Servers
            BY DEF Servers
        <2>2. u.servers \in Seq(Servers)
            BY <1>1 DEF BlockOK
        <2> QED BY <2>1, <2>2
    <1>3. upstreams' = [upstreams EXCEPT ![open] = x]
        BY DEF ConfServer
    <1> HIDE DEF more
    <1>4. /\ BlockOK(x) /\ x.host = u.host /\ x.port = u.port /\ x.create = u.create
          /\ x.ours = TRUE /\ x.servers # <<>> /\ x.foreign = FALSE
        BY <1>1, <1>2 DEF BlockOK
    <1>5. v \in Values /\ "server" \in {"foreign", "server", "keepalive"}
        BY DEF Values
    <1>6. /\ stage = "reading" /\ open # None /\ Accept(n, "server", v)
          /\ UNCHANGED <<open, pglcf>>
        BY <1>n DEF ConfServer, Reading
    <1> HIDE DEF x, v
    <1> QED BY <1>n, <1>3, <1>4, <1>5, <1>6, InBlock

LEMMA KeepaliveStep ==
    ASSUME NEW args \in KeepaliveArgs, UpstreamInv, ConfKeepalive(args)
    PROVE  UpstreamInv'
    <1> DEFINE u == upstreams[open]
               x == [u EXCEPT !.max_cached = Said(args.max, @),
                              !.single = Said(args.single, @),
                              !.reject = Said(args.reject, @)]
    <1>1. CASE Refuse
        BY <1>1, RefuseStep DEF ConfKeepalive, Reading
    <1>2. CASE /\ Accept(upstreams[open].host, "keepalive", args)
               /\ upstreams' = [upstreams EXCEPT
                     ![open].max_cached = Said(args.max, @),
                     ![open].single = Said(args.single, @),
                     ![open].reject = Said(args.reject, @)]
               /\ UNCHANGED <<open, pglcf>>
        <2>1. BlockOK(u) /\ (u.ours = TRUE => u.foreign = FALSE)
            BY OpenBlockOK DEF ConfKeepalive
        <2>n. PICK n \in Names : n = u.host
            BY <2>1 DEF BlockOK
        <2>2. upstreams' = [upstreams EXCEPT ![open] = x] /\ Accept(n, "keepalive", args)
            BY <1>2, <2>n
        <2>3. /\ Said(args.max, u.max_cached) \in Nat
              /\ Said(args.single, u.single) \in BOOLEAN
              /\ Said(args.reject, u.reject) \in BOOLEAN
            BY <2>1, UpstreamAssumption DEF Said, BlockOK
        <2>4. /\ BlockOK(x) /\ x.host = u.host /\ x.port = u.port /\ x.create = u.create
              /\ x.ours = u.ours /\ x.servers = u.servers /\ x.foreign = u.foreign
            BY <2>1, <2>3 DEF BlockOK
        <2>5. /\ args \in Values /\ "keepalive" \in {"foreign", "server", "keepalive"}
              /\ "keepalive" # "server"
            BY DEF Values
        <2>6. stage = "reading" /\ open # None
            BY DEF ConfKeepalive, Reading
        <2> HIDE DEF x
        <2> QED BY <1>2, <2>n, <2>1, <2>2, <2>4, <2>5, <2>6, InBlock
    <1> QED BY <1>1, <1>2 DEF ConfKeepalive

(* The pass of level l gets its line; that of the other level is as it was. *)
LEMMA PassGiven ==
    ASSUME NEW i, NEW l \in Levels, NEW n \in Names \cup {None},
           UpstreamInv, stage = "reading", stage' = "reading",
           pglcf[l].upstream = None, ~pglcf[l].cv,
           \A c, e : ~(c = l /\ e = "pass") => Lines(c, e)' = Lines(c, e),
           \A j : j \in Lines(l, "pass")' <=> j \in Lines(l, "pass") \/ j = i,
           \A j \in DOMAIN file : j \in DOMAIN file' /\ file'[j].value = file[j].value,
           i \in DOMAIN file' /\ file'[i].value = n,
           \A m \in Levels \ {l} : pglcf'[m] = pglcf[m],
           pglcf'[l].handler,
           n = None => pglcf'[l].cv /\ pglcf'[l].upstream = None,
           n # None => /\ ~pglcf'[l].cv /\ pglcf'[l].upstream # None
                       /\ upstreams'[pglcf'[l].upstream].host = n
                       /\ upstreams'[pglcf'[l].upstream].port = 0,
           \A k \in DOMAIN upstreams : upstreams'[k] = upstreams[k]
    PROVE  PassInv'
    <1>t. /\ PassInv /\ \A m \in Levels : pglcf[m].upstream \in DOMAIN upstreams \cup {None}
        BY DEF UpstreamInv, TypeInv
    <1>1. NoPass(l)
        BY <1>t DEF PassInv, OwnPass
    <1>2. Lines(l, "pass")' = {i}
        BY <1>1 DEF NoPass
    <1>3. OwnPass(l, i)'
        BY <1>2 DEF OwnPass
    <1>4. ASSUME NEW m \in Levels, m # l PROVE NoPass(m)' \/ \E j \in DOMAIN file' : OwnPass(m, j)'
        <2>1. Lines(m, "pass")' = Lines(m, "pass") /\ pglcf'[m] = pglcf[m]
            BY <1>4
        <2>2. NoPass(m) => NoPass(m)'
            BY <2>1 DEF NoPass
        <2>3. \A j \in DOMAIN file : OwnPass(m, j) => OwnPass(m, j)'
            BY <1>t, <2>1 DEF OwnPass
        <2> QED BY <1>t, <2>2, <2>3 DEF PassInv
    <1>5. \A m \in Levels : pglcf'[m].upstream # None => upstreams'[pglcf'[m].upstream].port = 0
        BY <1>t DEF PassInv
    <1>6. \A m \in Levels : NoPass(m)' \/ \E j \in DOMAIN file' : OwnPass(m, j)'
        BY <1>3, <1>4
    <1>7. stage' # "serving" /\ stage' = "reading"
        OBVIOUS
    <1> QED BY <1>5, <1>6, <1>7 DEF PassInv

LEMMA PassStep ==
    ASSUME NEW l \in Levels, NEW n \in Names \cup {None}, UpstreamInv, ConfPass(l, n)
    PROVE  UpstreamInv'
    <1>1. CASE Refuse
        BY <1>1, RefuseStep DEF ConfPass, Reading
    <1>2. CASE ~(pglcf[l].upstream # None \/ pglcf[l].cv) /\ ~Refuse
        <2>t. TypeInv /\ UpInv /\ stage = "reading" /\ pglcf \in [Levels -> Passes]
            BY DEF UpstreamInv, ConfPass, Reading, TypeInv
        <2>a. Accept(l, "pass", n) /\ UNCHANGED open
            BY <1>2 DEF ConfPass
        <2>1. /\ file' \in Seq(FileLines)
              /\ \A c, e : ~(c = l /\ e = "pass") => Lines(c, e)' = Lines(c, e)
              /\ \A i : i \in Lines(l, "pass")' <=> i \in Lines(l, "pass") \/ i = Len(file) + 1
              /\ \A i \in DOMAIN file : i \in DOMAIN file' /\ file'[i].value = file[i].value
              /\ Len(file) + 1 \in DOMAIN file' /\ file'[Len(file) + 1].value = n
              /\ stage' = "reading" /\ ReqInv'
            <3>1. "pass" \in Kinds /\ n \in Values /\ l \in Names \cup Levels
                BY DEF Kinds, Values
            <3> QED BY <2>a, <2>t, <3>1, AcceptFacts
        <2>i. PICK i : i = Len(file) + 1
            OBVIOUS
        <2>3. CASE n = None
            <3>1. /\ pglcf' = [pglcf EXCEPT ![l].cv = TRUE, ![l].handler = TRUE]
                  /\ UNCHANGED upstreams
                BY <1>2, <2>3 DEF ConfPass
            <3>2. /\ pglcf' \in [Levels -> Passes] /\ pglcf'[l].cv /\ pglcf'[l].handler
                  /\ pglcf'[l].upstream = None
                  /\ \A m \in Levels \ {l} : pglcf'[m] = pglcf[m]
                BY <1>2, <2>t, <3>1 DEF Passes
            <3>3. TypeInv'
                BY <2>t, <2>a, <2>1, <3>1, <3>2 DEF TypeInv, Accept, BlockSeq
            <3>4. UpInv'
                <4>1. /\ \A m : Lines(m, "upstream")' = Lines(m, "upstream")
                      /\ \A m : Lines(m, "server")' = Lines(m, "server")
                    BY <2>1
                <4> QED BY <2>t, <2>a, <3>1, <4>1, UpSame
            <3>5. PassInv'
                BY <1>2, <2>t, <2>1, <2>i, <2>3, <3>1, <3>2, PassGiven
            <3> QED BY <2>1, <3>3, <3>4, <3>5 DEF UpstreamInv
        <2>4. CASE n # None
            <3> DEFINE k == IndexAdded(n, 0)
            <3>n. n \in Names
                BY <2>4
            <3>1. /\ pglcf' = [pglcf EXCEPT ![l].upstream = k, ![l].handler = TRUE]
                  /\ upstreams' = Added(n, 0)
                BY <1>2, <2>4 DEF ConfPass
            <3>2. /\ BlockSeq(upstreams')
                  /\ \A j : j \in DOMAIN upstreams' <=> j \in DOMAIN upstreams \/ j = k
                  /\ \A j \in DOMAIN upstreams : upstreams'[j] = upstreams[j]
                  /\ k \in Nat /\ upstreams'[k].host = n /\ upstreams'[k].port = 0
                BY <2>t, <3>n, <3>1, AddedFacts
            <3> HIDE DEF k
            <3>3. /\ pglcf' \in [Levels -> Passes] /\ pglcf'[l].handler
                  /\ pglcf'[l].upstream = k /\ ~pglcf'[l].cv
                  /\ \A m \in Levels \ {l} : pglcf'[m] = pglcf[m]
                BY <1>2, <2>t, <3>1, <3>2 DEF Passes
            <3>4. TypeInv'
                BY <2>t, <2>a, <2>1, <3>2, <3>3 DEF TypeInv, Accept
            <3>5. UpInv'
                <4>1. /\ \A m : Lines(m, "upstream")' = Lines(m, "upstream")
                      /\ \A m : Lines(m, "server")' = Lines(m, "server")
                    BY <2>1
                <4> QED BY <2>t, <2>a, <3>n, <3>1, <4>1, UpAdded
            <3>6. PassInv'
                <4>1. k # None
                    BY <3>2, UpstreamAssumption
                <4> QED BY <1>2, <2>t, <2>1, <2>i, <2>4, <3>2, <3>3, <4>1, PassGiven
            <3> QED BY <2>1, <3>4, <3>5, <3>6 DEF UpstreamInv
        <2> QED BY <2>3, <2>4
    <1>3. pglcf[l].upstream # None \/ pglcf[l].cv => Refuse
        BY DEF ConfPass
    <1> QED BY <1>1, <1>2, <1>3

-----------------------------------------------------------------------------
(* The end of the configuration *)

LEMMA InitStep == ASSUME UpstreamInv, InitUpstreams PROVE UpstreamInv'
    <1>1. CASE Refuse
        BY <1>1, RefuseStep DEF InitUpstreams
    <1>2. CASE ~Refuse
        <2>1. /\ \A k \in DOMAIN upstreams : upstreams[k].create \/ upstreams[k].port # 0
              /\ upstreams' = [k \in DOMAIN upstreams |-> InitUpstream(upstreams[k])]
              /\ pglcf' = [pglcf EXCEPT !["if"] = MergedPass(pglcf["location"], @)]
              /\ stage = "reading" /\ stage' = "serving" /\ open = None
              /\ UNCHANGED <<file, open, running, req>>
            BY <1>2 DEF InitUpstreams
        <2>t. /\ TypeInv /\ UpInv /\ PassInv /\ ReqInv
              /\ BlockSeq(upstreams) /\ pglcf \in [Levels -> Passes]
            BY DEF UpstreamInv, TypeInv
        <2>2. \A c, e : Lines(c, e)' = Lines(c, e)
            BY <2>1, LinesSame
        <2>3. /\ \A j : j \in DOMAIN upstreams' <=> j \in DOMAIN upstreams
              /\ \A k \in DOMAIN upstreams : upstreams'[k] = InitUpstream(upstreams[k])
            BY <2>1
        <2>4. \A k \in DOMAIN upstreams :
                 LET u == upstreams[k] v == InitUpstream(upstreams[k])
                 IN  /\ BlockOK(v) /\ v.host = u.host /\ v.port = u.port /\ v.create = u.create
                     /\ v.ours = u.ours /\ v.servers = u.servers /\ v.foreign = u.foreign
            <3>1. ASSUME NEW u, BlockOK(u)
                  PROVE  LET v == InitUpstream(u)
                         IN  /\ BlockOK(v) /\ v.host = u.host /\ v.port = u.port /\ v.create = u.create
                             /\ v.ours = u.ours /\ v.servers = u.servers /\ v.foreign = u.foreign
                <4>1. CASE InitUpstream(u) = u
                    BY <3>1, <4>1
                <4>2. CASE InitUpstream(u) = [u EXCEPT !.peers = PeersOf(u)]
                    BY <3>1, <4>2 DEF BlockOK
                <4> QED BY <4>1, <4>2 DEF InitUpstream
            <3> QED BY <2>t, <3>1 DEF BlockSeq
        <2>5. BlockSeq(upstreams')
            <3>1. PICK S : upstreams \in Seq(S)
                BY <2>t DEF BlockSeq
            <3> DEFINE Q == {InitUpstream(upstreams[k]) : k \in DOMAIN upstreams}
            <3>2. \A k \in DOMAIN upstreams : InitUpstream(upstreams[k]) \in Q
                OBVIOUS
            <3> HIDE DEF Q
            <3>3. upstreams' \in Seq(Q)
                <4>1. Len(upstreams) \in Nat /\ DOMAIN upstreams = 1..Len(upstreams)
                    BY <3>1
                <4>2. upstreams' = [k \in 1..Len(upstreams) |-> InitUpstream(upstreams[k])]
                    BY <2>1, <4>1
                <4> QED BY <3>2, <4>1, <4>2
            <3>4. \A k \in DOMAIN upstreams' : BlockOK(upstreams'[k])
                BY <2>3, <2>4
            <3> QED BY <3>3, <3>4 DEF BlockSeq
        <2>6. /\ pglcf' \in [Levels -> Passes]
              /\ pglcf'["location"] = pglcf["location"]
              /\ pglcf'["if"].handler = pglcf["if"].handler
              /\ pglcf["if"].upstream = None /\ ~pglcf["if"].cv =>
                    /\ pglcf'["if"].upstream = pglcf["location"].upstream
                    /\ pglcf'["if"].cv = pglcf["location"].cv
              /\ pglcf["if"].upstream # None \/ pglcf["if"].cv => pglcf'["if"] = pglcf["if"]
            BY <2>1, <2>t DEF Levels, Passes, MergedPass
        <2>7. TypeInv'
            <3>1. \A l \in Levels : pglcf'[l].upstream \in DOMAIN upstreams \cup {None}
                BY <2>t, <2>6 DEF TypeInv, Levels
            <3> QED BY <2>1, <2>t, <2>3, <2>5, <2>6, <3>1 DEF TypeInv
        <2>8. UpInv'
            <3>1. \A k \in DOMAIN upstreams : /\ upstreams'[k].host = upstreams[k].host
                                              /\ upstreams'[k].port = upstreams[k].port
                                              /\ upstreams'[k].create = upstreams[k].create
                                              /\ upstreams'[k].ours = upstreams[k].ours
                                              /\ upstreams'[k].servers = upstreams[k].servers
                                              /\ upstreams'[k].foreign = upstreams[k].foreign
                BY <2>3, <2>4
            <3>2. \A k \in DOMAIN upstreams, n \in Names : upstreams[k].host = n =>
                     /\ upstreams[k].ours = TRUE <=> upstreams[k].port = 0 /\ Lines(n, "server") # {}
                     /\ upstreams[k].ours = TRUE <=> upstreams[k].servers # <<>>
                     /\ upstreams[k].ours = TRUE => upstreams[k].foreign = FALSE
                BY <2>t DEF UpInv
            <3> QED BY ZenonT(60), <2>1, <2>t, <2>2, <2>3, <3>1, <3>2, UpChanged
        <2>9. PassInv'
            <3>1. \A l \in Levels : NoPass(l) \/ \E i \in DOMAIN file : OwnPass(l, i)
                BY <2>1, <2>t DEF PassInv
            <3>2. \A l \in Levels : NameInFile(l)' = NameInFile(l)
                BY <2>1, NamesSame
            <3>3. ASSUME NEW l \in Levels, NEW i \in DOMAIN file, OwnPass(l, i)
                  PROVE  NameInFile(l) = file[i].value
                <4>1. Lines(l, "pass") = {i}
                    BY <3>3 DEF OwnPass
                <4>2. (CHOOSE j \in {i} : TRUE) = i
                    OBVIOUS
                <4> QED BY <4>1, <4>2 DEF NameInFile
            <3>4. ASSUME NEW i \in DOMAIN file, NoPass("if"), OwnPass("location", i)
                  PROVE  NameInFile("if") = file[i].value
                <4>1. Lines("if", "pass") = {} /\ Lines("location", "pass") = {i}
                    BY <3>4 DEF OwnPass, NoPass
                <4>2. (CHOOSE j \in {i} : TRUE) = i
                    OBVIOUS
                <4> QED BY <4>1, <4>2 DEF NameInFile
            <3>5. \A l \in Levels : pglcf[l].upstream # None =>
                     /\ pglcf[l].upstream \in DOMAIN upstreams
                     /\ upstreams'[pglcf[l].upstream].host = upstreams[pglcf[l].upstream].host
                     /\ upstreams'[pglcf[l].upstream].port = 0
                BY <2>t, <2>3, <2>4 DEF TypeInv, PassInv
            <3>6. /\ \A l \in Levels : NoPass(l) => ~pglcf[l].cv /\ pglcf[l].upstream = None /\ ~pglcf[l].handler
                  /\ \A l \in Levels : \A i \in DOMAIN file : OwnPass(l, i) =>
                        /\ pglcf[l].handler
                        /\ IF file[i].value = None THEN pglcf[l].cv
                           ELSE /\ ~pglcf[l].cv /\ pglcf[l].upstream # None
                                /\ upstreams[pglcf[l].upstream].host = file[i].value
                BY DEF NoPass, OwnPass
            <3> DEFINE Merged(l) == /\ pglcf'[l].handler \/ (l = "if" /\ pglcf'["location"].handler)
                                       => IF NameInFile(l) = None THEN pglcf'[l].cv
                                          ELSE /\ ~pglcf'[l].cv /\ pglcf'[l].upstream # None
                                               /\ upstreams'[pglcf'[l].upstream].host = NameInFile(l)
                                    /\ pglcf'[l].cv => pglcf'[l].handler
                                                       \/ (l = "if" /\ pglcf'["location"].handler)
                                    /\ pglcf'[l].upstream # None => upstreams'[pglcf'[l].upstream].port = 0
            <3>l. "location" \in Levels /\ "if" \in Levels /\ "if" # "location"
                BY DEF Levels
            <3>7. Merged("location")
                <4>1. CASE NoPass("location")
                    BY <2>6, <3>5, <3>6, <3>l, <4>1
                <4>2. CASE \E i \in DOMAIN file : OwnPass("location", i)
                    BY <2>6, <3>3, <3>5, <3>6, <3>l, <4>2
                <4> QED BY <3>1, <3>l, <4>1, <4>2
            <3>8. Merged("if")
                <4>1. CASE \E i \in DOMAIN file : OwnPass("if", i)
                    BY <2>6, <3>3, <3>5, <3>6, <3>l, <4>1
                <4>2. CASE NoPass("if") /\ NoPass("location")
                    BY <2>6, <3>5, <3>6, <3>l, <4>2
                <4>3. CASE NoPass("if") /\ \E i \in DOMAIN file : OwnPass("location", i)
                    BY <2>6, <3>4, <3>5, <3>6, <3>l, <4>3
                <4> QED BY <3>1, <3>l, <4>1, <4>2, <4>3
            <3>9. \A l \in Levels : Merged(l)
                BY <3>7, <3>8 DEF Levels
            <3>10. \A k \in DOMAIN upstreams' : upstreams'[k].port = 0 => upstreams'[k].create
                BY <2>1, <2>3, <2>4
            <3>11. /\ \A l \in Levels : Served(l)' => Named(l)'
                   /\ \A l \in Levels : pglcf'[l].cv => Served(l)'
                BY <3>2, <3>9 DEF Served, Named
            <3> QED BY <2>1, <3>9, <3>10, <3>11 DEF PassInv
        <2>10. ReqInv'
            BY <2>1, <2>t, KeepReq
        <2> QED BY <2>7, <2>8, <2>9, <2>10 DEF UpstreamInv
    <1> QED BY <1>1, <1>2

-----------------------------------------------------------------------------
(* The steps of a request *)

(* Nothing of the file, of the blocks or of who is served changes, and only *)
(* the request r moves.                                                     *)
LEMMA Serving ==
    ASSUME NEW r \in Requests, NEW x, UpstreamInv, stage = "serving", RecordOK(x),
           UNCHANGED <<file, open, upstreams, stage>>,
           pglcf' \in [Levels -> Passes],
           \A l \in Levels : /\ pglcf'[l].handler = pglcf[l].handler
                             /\ pglcf'[l].cv = pglcf[l].cv
                             /\ pglcf'[l].upstream # pglcf[l].upstream => pglcf[l].cv,
           \A l \in Levels : pglcf'[l].upstream # None =>
              pglcf'[l].upstream \in DOMAIN upstreams /\ upstreams[pglcf'[l].upstream].port = 0,
           req' = [req EXCEPT ![r] = x],
           \A q \in Requests \ {r} : req[q].phase # "init",
           running' \in {None, r},
           Right(r)'
    PROVE  UpstreamInv'
    <1>t. TypeInv /\ UpInv /\ PassInv /\ ReqInv
        BY DEF UpstreamInv
    <1>1. TypeInv'
        BY <1>t DEF TypeInv, BlockSeq
    <1>2. \A c, e : Lines(c, e)' = Lines(c, e)
        BY LinesSame
    <1>3. UpInv'
        BY <1>t, <1>2, UpSame
    <1>4. \A l \in Levels : NameInFile(l)' = NameInFile(l)
        BY NamesSame
    <1>l. "location" \in Levels
        BY DEF Levels
    <1>5. \A l \in Levels : Served(l)' <=> Served(l)
        BY <1>l DEF Served
    <1>6. ASSUME NEW l \in Levels, Served(l) PROVE Named(l)'
        <2>1. Named(l)
            BY <1>t, <1>6 DEF PassInv
        <2>2. CASE NameInFile(l) = None
            BY <1>4, <2>1, <2>2 DEF Named
        <2>3. CASE NameInFile(l) # None
            BY <1>4, <2>1, <2>3 DEF Named
        <2> QED BY <2>2, <2>3
    <1>7. PassInv'
        BY <1>t, <1>5, <1>6 DEF PassInv
    <1>8. ASSUME NEW q \in Requests, q # r PROVE Right(q)'
        <2>1. req'[q] = req[q] /\ Right(q) /\ req[q].phase # "init"
            BY <1>t, <1>8 DEF TypeInv, ReqInv
        <2>2. req[q].level \in Levels => (Served(req[q].level)' <=> Served(req[q].level))
            BY <1>l, <2>1 DEF Served
        <2>3. \A l \in Levels : MeantAt(l, q)' = MeantAt(l, q)
            BY <1>4, <2>1 DEF MeantAt
        <2>4. /\ req'[q].phase # "idle" \/ req'[q].answer # None =>
                    req'[q].level \in Levels /\ Served(req[q].level)'
              /\ req'[q].phase # "init" /\ req'[q].answer # "unconfigured"
              /\ req'[q].phase = "querying" => upstreams'[req'[q].srv].ours
            BY <2>1, <2>2 DEF Right
        <2>5. req'[q].phase \in {"connecting", "querying"} =>
                 /\ req'[q].srv \in DOMAIN upstreams'
                 /\ upstreams'[req'[q].srv].port = 0
                 /\ \A l \in Levels : req'[q].level = l => upstreams'[req'[q].srv].host = MeantAt(l, q)'
            BY <2>1, <2>3 DEF Right
        <2>6. req'[q].answer = "not_found" => \A n : n = req'[q].host => Lines(n, "upstream")' = {}
            BY <1>2, <2>1 DEF Right
        <2>7. req'[q].answer = "not_my_peer" =>
                 \A l \in Levels : \A n :
                    req'[q].level = l /\ n = MeantAt(l, q)' => Lines(n, "server")' = {}
            BY <1>2, <2>1, <2>3 DEF Right
        <2> QED BY <2>4, <2>5, <2>6, <2>7 DEF Right
    <1>9. ReqInv'
        BY <1>8 DEF ReqInv
    <1> QED BY <1>1, <1>3, <1>7, <1>9 DEF UpstreamInv

(* What NewRequest becomes when a handler has answered or goes on. *)
LEMMA AnsweredIs ==
    ASSUME NEW r \in Requests, NEW l \in Levels, NEW n \in Names \cup {None},
           NEW why \in Answers, Answered(r, l, n, why)
    PROVE  \E x : /\ req' = [req EXCEPT ![r] = x] /\ RecordOK(x)
                  /\ x.phase = "idle" /\ x.level = l /\ x.host = n /\ x.answer = why
    <1> DEFINE x == [NewRequest EXCEPT !.level = l, !.host = n, !.answer = why]
    <1>1. /\ DOMAIN x = {"phase", "level", "host", "srv", "answer"}
          /\ x.phase = "idle" /\ x.level = l /\ x.host = n /\ x.srv = None /\ x.answer = why
        BY DEF NewRequest
    <1>2. RecordOK(x)
        BY <1>1 DEF RecordOK
    <1>3. req' = [req EXCEPT ![r] = x]
        BY DEF Answered
    <1> HIDE DEF x
    <1> QED BY <1>1, <1>2, <1>3

LEMMA ProceedIs ==
    ASSUME NEW r \in Requests, NEW l \in Levels, NEW n \in Names \cup {None},
           Proceed(r, l, n)
    PROVE  /\ \E x : /\ req' = [req EXCEPT ![r] = x] /\ RecordOK(x)
                     /\ x.phase = "init" /\ x.level = l /\ x.host = n /\ x.answer = None
           /\ running' = r
    <1> DEFINE x == [NewRequest EXCEPT !.phase = "init", !.level = l, !.host = n]
    <1>1. /\ DOMAIN x = {"phase", "level", "host", "srv", "answer"}
          /\ x.phase = "init" /\ x.level = l /\ x.host = n /\ x.srv = None /\ x.answer = None
        BY DEF NewRequest
    <1>2. RecordOK(x)
        BY <1>1 DEF RecordOK, Answers
    <1>3. req' = [req EXCEPT ![r] = x] /\ running' = r
        BY DEF Proceed
    <1> HIDE DEF x
    <1> QED BY <1>1, <1>2, <1>3

(* A request that is answered without having got further. *)
LEMMA Answering ==
    ASSUME NEW r \in Requests, NEW l \in Levels, NEW n \in Names \cup {None},
           NEW why \in Answers \ {"unconfigured"},
           UpstreamInv, stage = "serving", Answered(r, l, n, why),
           UNCHANGED <<file, open, upstreams, stage>>,
           pglcf' \in [Levels -> Passes],
           \A m \in Levels : /\ pglcf'[m].handler = pglcf[m].handler
                             /\ pglcf'[m].cv = pglcf[m].cv
                             /\ pglcf'[m].upstream # pglcf[m].upstream => pglcf[m].cv,
           \A m \in Levels : pglcf'[m].upstream # None =>
              pglcf'[m].upstream \in DOMAIN upstreams /\ upstreams[pglcf'[m].upstream].port = 0,
           \A q \in Requests \ {r} : req[q].phase # "init",
           running' \in {None, r},
           Served(l),
           why = "not_found" => Lines(n, "upstream") = {},
           why = "not_my_peer" =>
              Lines(IF NameInFile(l) = None THEN n ELSE NameInFile(l), "server") = {}
    PROVE  UpstreamInv'
    <1>1. PICK x : /\ req' = [req EXCEPT ![r] = x] /\ RecordOK(x)
                   /\ x.phase = "idle" /\ x.level = l /\ x.host = n /\ x.answer = why
        BY AnsweredIs
    <1>2. req'[r] = x
        BY <1>1 DEF UpstreamInv, TypeInv
    <1>3. \A c, e : Lines(c, e)' = Lines(c, e)
        BY LinesSame
    <1>4. \A m \in Levels : MeantAt(m, r)' = IF NameInFile(m) = None THEN n ELSE NameInFile(m)
        <2>1. \A m \in Levels : NameInFile(m)' = NameInFile(m)
            BY NamesSame
        <2> QED BY <1>1, <1>2, <2>1 DEF MeantAt
    <1>5. Right(r)'
        <2>1. Served(req[r].level)'
            BY <1>1, <1>2 DEF Served, Levels
        <2>2. req'[r].answer = "not_found" => \A m : m = req'[r].host => Lines(m, "upstream")' = {}
            BY <1>1, <1>2, <1>3
        <2>3. req'[r].answer = "not_my_peer" =>
                 \A k \in Levels : \A m : req'[r].level = k /\ m = MeantAt(k, r)' => Lines(m, "server")' = {}
            BY ZenonT(60), <1>1, <1>2, <1>3, <1>4
        <2> QED BY <1>1, <1>2, <2>1, <2>2, <2>3 DEF Right
    <1> QED BY <1>1, <1>5, Serving

LEMMA HandleNameStep ==
    ASSUME NEW r \in Requests, NEW l \in Levels, UpstreamInv, HandleName(r, l)
    PROVE  UpstreamInv'
    <1>t. /\ TypeInv /\ PassInv /\ ReqInv /\ stage = "serving" /\ running = None
          /\ Served(l) /\ ~pglcf[l].cv
          /\ UNCHANGED <<file, open, upstreams, pglcf, stage>>
        BY DEF UpstreamInv, HandleName, Alone
    <1>1. \A m \in Levels : pglcf[m].upstream # None =>
             pglcf[m].upstream \in DOMAIN upstreams /\ upstreams[pglcf[m].upstream].port = 0
        BY <1>t DEF TypeInv, PassInv
    <1>2. \A q \in Requests : req[q].phase # "init"
        BY <1>t, UpstreamAssumption DEF ReqInv, Right
    <1>3. pglcf' \in [Levels -> Passes]
        BY <1>t DEF TypeInv
    <1>4. CASE Proceed(r, l, None)
        <2>1. PICK x : /\ req' = [req EXCEPT ![r] = x] /\ RecordOK(x)
                       /\ x.phase = "init" /\ x.level = l /\ x.host = None /\ x.answer = None
            BY <1>4, ProceedIs
        <2>2. req'[r] = x /\ running' = r
            BY <1>4, <1>t, <2>1, ProceedIs DEF TypeInv
        <2>3. Served(req[r].level)'
            BY <1>t, <2>1, <2>2 DEF Served
        <2>4. Right(r)'
            BY <1>t, <2>1, <2>2, <2>3, UpstreamAssumption DEF Right
        <2> QED BY <1>t, <1>1, <1>2, <1>3, <2>1, <2>2, <2>4, Serving
    <1>5. CASE NoMemory(r, l, None)
        <2>1. "failed" \in Answers \ {"unconfigured"} /\ "failed" # "not_found" /\ "failed" # "not_my_peer"
            BY DEF Answers
        <2> QED BY <1>t, <1>1, <1>2, <1>3, <1>5, <2>1, Answering DEF NoMemory
    <1> QED BY <1>4, <1>5 DEF HandleName

LEMMA FindFacts ==
    ASSUME NEW n \in Names, UpstreamInv
    PROVE  /\ FindUpstream(n) # None => /\ FindUpstream(n) \in DOMAIN upstreams
                                        /\ upstreams[FindUpstream(n)].host = n
                                        /\ upstreams[FindUpstream(n)].port = 0
           /\ FindUpstream(n) = None => Lines(n, "upstream") = {}
    <1>t. BlockSeq(upstreams) /\ UpInv
        BY DEF UpstreamInv, TypeInv
    <1> DEFINE hits == {k \in DOMAIN upstreams : upstreams[k].host = n /\ upstreams[k].port = 0}
    <1>1. hits \subseteq Nat /\ \A j, k \in hits : j = k
        BY <1>t DEF BlockSeq, UpInv
    <1>2. CASE hits = {}
        <2>1. FindUpstream(n) = None
            BY <1>2 DEF FindUpstream
        <2>2. Lines(n, "upstream") = {}
            BY <1>2, <1>t DEF UpInv
        <2> QED BY <2>1, <2>2
    <1>3. CASE hits # {}
        <2>1. \E k \in hits : \A j \in hits : k <= j
            BY <1>1, <1>3
        <2>2. FindUpstream(n) = CHOOSE k \in hits : \A j \in hits : k <= j
            BY <1>3 DEF FindUpstream
        <2>3. FindUpstream(n) \in hits
            BY <2>1, <2>2
        <2>4. FindUpstream(n) # None
            BY <1>1, <2>3, UpstreamAssumption
        <2> QED BY <2>3, <2>4
    <1> QED BY <1>2, <1>3

LEMMA HandleVariableStep ==
    ASSUME NEW r \in Requests, NEW l \in Levels, NEW n \in Names \cup {None},
           UpstreamInv, HandleVariable(r, l, n)
    PROVE  UpstreamInv'
    <1>t. /\ TypeInv /\ PassInv /\ ReqInv /\ stage = "serving" /\ running = None
          /\ pglcf[l].cv /\ pglcf \in [Levels -> Passes]
          /\ UNCHANGED <<file, open, upstreams, stage>>
        BY DEF UpstreamInv, HandleVariable, Alone, TypeInv
    <1>s. Served(l)
        BY <1>t DEF PassInv
    <1>1. \A m \in Levels : pglcf[m].upstream # None =>
             pglcf[m].upstream \in DOMAIN upstreams /\ upstreams[pglcf[m].upstream].port = 0
        BY <1>t DEF TypeInv, PassInv
    <1>2. \A q \in Requests : req[q].phase # "init"
        BY <1>t, UpstreamAssumption DEF ReqInv, Right
    <1>a. /\ {"empty", "not_found", "failed"} \subseteq Answers \ {"unconfigured"}
          /\ "failed" # "not_found" /\ "failed" # "not_my_peer"
          /\ "empty" # "not_found" /\ "empty" # "not_my_peer" /\ "not_found" # "not_my_peer"
        BY DEF Answers
    <1>3. CASE n = None
        <2>1. Answered(r, l, n, "empty") /\ UNCHANGED <<pglcf, running>>
            BY <1>3 DEF HandleVariable
        <2> QED BY <1>t, <1>s, <1>1, <1>2, <1>a, <2>1, Answering
    <1>4. CASE n # None
        <2>n. n \in Names
            BY <1>4
        <2> DEFINE f == FindUpstream(n)
        <2>1. /\ pglcf' = [pglcf EXCEPT ![l].upstream = f]
              /\ IF f = None THEN Answered(r, l, n, "not_found") /\ UNCHANGED running
                 ELSE Proceed(r, l, n) \/ NoMemory(r, l, n)
            BY <1>4 DEF HandleVariable
        <2>2. /\ f # None => f \in DOMAIN upstreams /\ upstreams[f].host = n /\ upstreams[f].port = 0
              /\ f = None => Lines(n, "upstream") = {}
            BY <2>n, FindFacts
        <2> HIDE DEF f
        <2>3. f \in Nat \cup {None}
            BY <1>t, <2>2 DEF TypeInv, BlockSeq
        <2>4. /\ pglcf' \in [Levels -> Passes]
              /\ pglcf'[l].upstream = f /\ pglcf'[l].cv /\ pglcf'[l].handler = pglcf[l].handler
              /\ \A m \in Levels \ {l} : pglcf'[m] = pglcf[m]
            BY <1>t, <2>1, <2>3 DEF Passes
        <2>5. /\ \A m \in Levels : /\ pglcf'[m].handler = pglcf[m].handler
                                   /\ pglcf'[m].cv <=> pglcf[m].cv
                                   /\ pglcf'[m].upstream # pglcf[m].upstream => pglcf[m].cv
              /\ \A m \in Levels : pglcf'[m].upstream # None =>
                    pglcf'[m].upstream \in DOMAIN upstreams /\ upstreams[pglcf'[m].upstream].port = 0
            BY <1>t, <1>1, <2>2, <2>4
        <2>b. \A m \in Levels : pglcf'[m].cv = pglcf[m].cv
            BY <1>t, <2>4, <2>5 DEF Passes
        <2>6. CASE f = None
            BY <1>t, <1>s, <1>2, <1>a, <2>1, <2>2, <2>4, <2>5, <2>b, <2>6, Answering
        <2>7. CASE f # None /\ NoMemory(r, l, n)
            BY <1>t, <1>s, <1>2, <1>a, <2>4, <2>5, <2>b, <2>7, Answering DEF NoMemory
        <2>8. CASE f # None /\ Proceed(r, l, n)
            <3>1. PICK x : /\ req' = [req EXCEPT ![r] = x] /\ RecordOK(x)
                           /\ x.phase = "init" /\ x.level = l /\ x.host = n /\ x.answer = None
                BY <2>8, ProceedIs
            <3>2. req'[r] = x /\ running' = r
                BY <1>t, <2>8, <3>1, ProceedIs DEF TypeInv
            <3>3. Served(req[r].level)'
                <4>1. "location" \in Levels
                    BY DEF Levels
                <4> QED BY <1>s, <2>5, <3>1, <3>2, <4>1 DEF Served
            <3>4. Right(r)'
                BY <1>t, <2>2, <2>4, <2>8, <3>1, <3>2, <3>3, UpstreamAssumption DEF Right
            <3> QED BY <1>t, <1>2, <2>4, <2>5, <2>b, <3>1, <3>2, <3>4, Serving
        <2> QED BY <2>1, <2>6, <2>7, <2>8
    <1> QED BY <1>3, <1>4

LEMMA InitPeerStep ==
    ASSUME NEW r \in Requests, UpstreamInv, InitPeer(r)
    PROVE  UpstreamInv'
    <1>t. /\ TypeInv /\ PassInv /\ ReqInv /\ running = r /\ running' = None
          /\ req[r].phase = "init" /\ pglcf \in [Levels -> Passes] /\ RecordOK(req[r])
          /\ UNCHANGED <<file, open, upstreams, pglcf, stage>>
        BY DEF UpstreamInv, InitPeer, TypeInv
    <1>s. stage = "serving"
        BY <1>t, UpstreamAssumption DEF ReqInv
    <1>1. \A m \in Levels : pglcf[m].upstream # None =>
             pglcf[m].upstream \in DOMAIN upstreams /\ upstreams[pglcf[m].upstream].port = 0
        BY <1>t DEF TypeInv, PassInv
    <1>2. \A q \in Requests \ {r} : req[q].phase # "init"
        BY <1>t DEF ReqInv, Right
    <1>3. PICK l \in Levels : l = req[r].level
        BY <1>t DEF ReqInv, Right
    <1> DEFINE u == pglcf[l].upstream
    <1>4. Served(l) /\ Named(l)
        <2>1. Served(l)
            BY <1>t, <1>3 DEF ReqInv, Right
        <2> QED BY <1>t, <1>s, <2>1 DEF PassInv
    <1>5. u # None /\ upstreams[u].host = MeantAt(l, r)
        <2>1. pglcf[l].cv => u # None /\ upstreams[u].host = req[r].host
            BY <1>t, <1>3 DEF ReqInv, Right
        <2> QED BY <1>4, <2>1 DEF Named, MeantAt
    <1>c. pglcf[l].cv => NameInFile(l) = None
        BY <1>4 DEF Named
    <1>6. CASE Answered(r, req[r].level, req[r].host, "failed")
        <2>1. PICK n \in Names \cup {None} : n = req[r].host
            BY <1>t DEF RecordOK
        <2>2. /\ "failed" \in Answers \ {"unconfigured"}
              /\ "failed" # "not_found" /\ "failed" # "not_my_peer"
            BY DEF Answers
        <2>3. Answered(r, l, n, "failed")
            BY <1>3, <1>6, <2>1
        <2> QED BY <1>t, <1>s, <1>1, <1>2, <1>4, <2>2, <2>3, Answering
    <1>7. CASE req' = [req EXCEPT ![r].phase = "connecting", ![r].srv = u]
        <2> DEFINE x == [req[r] EXCEPT !.phase = "connecting", !.srv = u]
        <2>1. u \in Nat /\ u \in DOMAIN upstreams /\ upstreams[u].port = 0
            BY <1>t, <1>1, <1>5 DEF TypeInv, BlockSeq
        <2>2. /\ RecordOK(x) /\ x.phase = "connecting" /\ x.srv = u /\ x.level = l
              /\ x.host = req[r].host /\ x.answer = req[r].answer
            BY <1>t, <1>3, <2>1 DEF RecordOK
        <2>3. req' = [req EXCEPT ![r] = x]
            BY <1>7, <1>t DEF TypeInv
        <2> HIDE DEF x
        <2>4. req'[r] = x
            BY <1>t, <2>3 DEF TypeInv
        <2>5. Right(r)'
            <3>1. \A m \in Levels : MeantAt(m, r)' = MeantAt(m, r)
                <4>1. \A m \in Levels : NameInFile(m)' = NameInFile(m)
                    BY <1>t, NamesSame
                <4> QED BY <2>2, <2>4, <4>1 DEF MeantAt
            <3>2. Served(req[r].level)'
                BY <1>t, <1>4, <2>2, <2>4 DEF Served
            <3>3. \A c, e : Lines(c, e)' = Lines(c, e)
                BY <1>t, LinesSame
            <3>4. Right(r)
                BY <1>t DEF ReqInv
            <3>5. req'[r].answer = "not_found" => \A n : n = req'[r].host => Lines(n, "upstream")' = {}
                BY <2>2, <2>4, <3>3, <3>4 DEF Right
            <3>6. req'[r].answer = "not_my_peer" =>
                     \A m \in Levels : \A n :
                        req'[r].level = m /\ n = MeantAt(m, r)' => Lines(n, "server")' = {}
                BY <1>3, <2>2, <2>4, <3>1, <3>3, <3>4 DEF Right
            <3>7. req'[r].answer # "unconfigured"
                BY <2>2, <2>4, <3>4 DEF Right
            <3> QED BY <1>t, <1>5, <2>1, <2>2, <2>4, <3>1, <3>2, <3>5, <3>6, <3>7 DEF Right
        <2> QED BY <1>t, <1>s, <1>1, <1>2, <2>2, <2>3, <2>5, Serving
    <1> QED BY <1>3, <1>5, <1>6, <1>7 DEF InitPeer

LEMMA ProcessStep ==
    ASSUME NEW r \in Requests, UpstreamInv, ProcessEvents(r)
    PROVE  UpstreamInv'
    <1>t. /\ TypeInv /\ UpInv /\ PassInv /\ ReqInv /\ running = None /\ running' = None
          /\ req[r].phase = "connecting" /\ pglcf \in [Levels -> Passes] /\ RecordOK(req[r])
          /\ UNCHANGED <<file, open, upstreams, pglcf, stage>>
        BY DEF UpstreamInv, ProcessEvents, Alone, TypeInv
    <1>s. stage = "serving"
        BY <1>t DEF ReqInv, NewRequest
    <1>1. \A m \in Levels : pglcf[m].upstream # None =>
             pglcf[m].upstream \in DOMAIN upstreams /\ upstreams[pglcf[m].upstream].port = 0
        BY <1>t DEF TypeInv, PassInv
    <1>2. \A q \in Requests : req[q].phase # "init"
        BY <1>t, UpstreamAssumption DEF ReqInv, Right
    <1>r. Right(r)
        BY <1>t DEF ReqInv
    <1>3. PICK l \in Levels : l = req[r].level
        BY <1>t, <1>r DEF Right
    <1>4. /\ Served(l) /\ req[r].srv \in DOMAIN upstreams
          /\ upstreams[req[r].srv].port = 0 /\ upstreams[req[r].srv].host = MeantAt(l, r)
        BY <1>t, <1>r, <1>3 DEF Right
    <1>5. CASE ~upstreams[req[r].srv].ours /\ Answered(r, req[r].level, req[r].host, "not_my_peer")
        <2>1. PICK n \in Names \cup {None} : n = req[r].host
            BY <1>t DEF RecordOK
        <2>2. PICK m : m = MeantAt(l, r)
            OBVIOUS
        <2>3. m \in Names /\ Lines(m, "server") = {}
            <3>1. m \in Names
                BY <1>t, <1>4, <2>2 DEF TypeInv, BlockSeq, BlockOK
            <3> QED BY <1>t, <1>4, <1>5, <2>2, <3>1 DEF UpInv
        <2>4. m = IF NameInFile(l) = None THEN n ELSE NameInFile(l)
            BY <2>1, <2>2 DEF MeantAt
        <2>5. Answered(r, l, n, "not_my_peer")
            BY <1>3, <1>5, <2>1
        <2>6. "not_my_peer" \in Answers \ {"unconfigured"} /\ "not_my_peer" # "not_found"
            BY DEF Answers
        <2> QED BY <1>t, <1>s, <1>1, <1>2, <1>4, <2>3, <2>4, <2>5, <2>6, Answering
    <1>6. CASE upstreams[req[r].srv].ours /\ req' = [req EXCEPT ![r].phase = "querying"]
        <2> DEFINE x == [req[r] EXCEPT !.phase = "querying"]
        <2>1. /\ RecordOK(x) /\ x.phase = "querying" /\ x.srv = req[r].srv /\ x.level = l
              /\ x.host = req[r].host /\ x.answer = req[r].answer
            BY <1>t, <1>3 DEF RecordOK
        <2>2. req' = [req EXCEPT ![r] = x]
            BY <1>6
        <2> HIDE DEF x
        <2>3. req'[r] = x
            BY <1>t, <2>2 DEF TypeInv
        <2>4. Right(r)'
            <3>1. \A m \in Levels : MeantAt(m, r)' = MeantAt(m, r)
                <4>1. \A m \in Levels : NameInFile(m)' = NameInFile(m)
                    BY <1>t, NamesSame
                <4> QED BY <2>1, <2>3, <4>1 DEF MeantAt
            <3>2. Served(req[r].level)'
                BY <1>t, <1>4, <2>1, <2>3 DEF Served
            <3>3. \A c, e : Lines(c, e)' = Lines(c, e)
                BY <1>t, LinesSame
            <3>4. req'[r].answer = "not_found" => \A n : n = req'[r].host => Lines(n, "upstream")' = {}
                BY <1>r, <2>1, <2>3, <3>3 DEF Right
            <3>5. req'[r].answer = "not_my_peer" =>
                     \A m \in Levels : \A n :
                        req'[r].level = m /\ n = MeantAt(m, r)' => Lines(n, "server")' = {}
                BY <1>r, <1>3, <2>1, <2>3, <3>1, <3>3 DEF Right
            <3>6. req'[r].answer # "unconfigured"
                BY <1>r, <2>1, <2>3 DEF Right
            <3> QED BY <1>t, <1>4, <1>6, <2>1, <2>3, <3>1, <3>2, <3>4, <3>5, <3>6 DEF Right
        <2> QED BY <1>t, <1>s, <1>1, <1>2, <2>1, <2>2, <2>4, Serving
    <1> QED BY <1>5, <1>6 DEF ProcessEvents, IsMyPeer

LEMMA FinishStep ==
    ASSUME NEW r \in Requests, UpstreamInv, Finish(r)
    PROVE  UpstreamInv'
    <1>t. /\ TypeInv /\ PassInv /\ ReqInv /\ running = None /\ running' = None
          /\ req[r].phase = "querying" /\ pglcf \in [Levels -> Passes] /\ RecordOK(req[r])
          /\ UNCHANGED <<file, open, upstreams, pglcf, stage>>
        BY DEF UpstreamInv, Finish, Alone, TypeInv
    <1>s. stage = "serving"
        BY <1>t DEF ReqInv, NewRequest
    <1>1. \A m \in Levels : pglcf[m].upstream # None =>
             pglcf[m].upstream \in DOMAIN upstreams /\ upstreams[pglcf[m].upstream].port = 0
        BY <1>t DEF TypeInv, PassInv
    <1>2. \A q \in Requests : req[q].phase # "init"
        BY <1>t, UpstreamAssumption DEF ReqInv, Right
    <1>3. PICK l \in Levels : l = req[r].level /\ Served(l)
        BY <1>t DEF ReqInv, Right
    <1>4. PICK n \in Names \cup {None} : n = req[r].host
        BY <1>t DEF RecordOK
    <1>5. /\ "result" \in Answers \ {"unconfigured"}
          /\ "result" # "not_found" /\ "result" # "not_my_peer"
        BY DEF Answers
    <1>6. Answered(r, l, n, "result")
        BY <1>3, <1>4 DEF Finish
    <1> QED BY <1>t, <1>s, <1>1, <1>2, <1>3, <1>5, <1>6, Answering

-----------------------------------------------------------------------------
LEMMA UpstreamInit == Init => UpstreamInv
    <1> SUFFICES ASSUME Init PROVE UpstreamInv
        OBVIOUS
    <1>1. \A c, e : Lines(c, e) = {}
        BY DEF Init, Lines
    <1>2. BlockSeq(upstreams)
        <2>1. upstreams \in Seq({})
            BY DEF Init
        <2> QED BY <2>1 DEF BlockSeq, Init
    <1>3. TypeInv
        <2>1. pglcf \in [Levels -> Passes] /\ \A l \in Levels : pglcf[l].upstream = None
            BY DEF Init, Passes
        <2>2. DOMAIN req = Requests /\ \A r \in Requests : RecordOK(req[r])
            BY DEF Init, NewRequest, RecordOK, Answers
        <2>3. file \in Seq(FileLines)
            BY DEF Init
        <2> QED BY <1>2, <2>1, <2>2, <2>3 DEF Init, TypeInv
    <1>4. UpInv
        BY <1>1 DEF Init, UpInv
    <1>5. PassInv
        BY <1>1 DEF Init, PassInv, NoPass
    <1>6. ReqInv
        <2>1. \A r \in Requests : Right(r)
            <3>1. \A r \in Requests : req[r].phase = "idle" /\ req[r].answer = None
                BY DEF Init, NewRequest
            <3> QED BY <3>1, UpstreamAssumption DEF Right
        <2> QED BY <2>1 DEF ReqInv, Init
    <1> QED BY <1>3, <1>4, <1>5, <1>6 DEF UpstreamInv

LEMMA UpstreamStep == UpstreamInv /\ [Next]_vars => UpstreamInv'
    <1> SUFFICES ASSUME UpstreamInv, [Next]_vars PROVE UpstreamInv'
        OBVIOUS
    <1>1. ASSUME NEW n \in Names, OpenBlock(n) \/ OtherPass(n) PROVE UpstreamInv'
        BY <1>1, OpenStep, OtherStep
    <1>2. CASE CloseBlock
        BY <1>2, CloseStep
    <1>3. CASE ForeignServer
        BY <1>3, ForeignStep
    <1>4. CASE Malformed
        BY <1>4, RefuseStep DEF Malformed
    <1>5. ASSUME NEW h \in DOMAIN Resolve, NEW db \in Databases, ConfServer(h, db)
          PROVE  UpstreamInv'
        BY <1>5, ServerStep
    <1>6. ASSUME NEW args \in KeepaliveArgs, ConfKeepalive(args) PROVE UpstreamInv'
        BY <1>6, KeepaliveStep
    <1>7. ASSUME NEW l \in Levels, NEW n \in Names \cup {None}, ConfPass(l, n) PROVE UpstreamInv'
        BY <1>7, PassStep
    <1>8. CASE InitUpstreams
        BY <1>8, InitStep
    <1>9. ASSUME NEW r \in Requests, NEW l \in Levels, HandleName(r, l) PROVE UpstreamInv'
        BY <1>9, HandleNameStep
    <1>10. ASSUME NEW r \in Requests, NEW l \in Levels, NEW n \in Names \cup {None},
                  HandleVariable(r, l, n)
           PROVE  UpstreamInv'
        BY <1>10, HandleVariableStep
    <1>11. ASSUME NEW r \in Requests, InitPeer(r) PROVE UpstreamInv'
        BY <1>11, InitPeerStep
    <1>12. ASSUME NEW r \in Requests, ProcessEvents(r) PROVE UpstreamInv'
        BY <1>12, ProcessStep
    <1>13. ASSUME NEW r \in Requests, Finish(r) PROVE UpstreamInv'
        BY <1>13, FinishStep
    <1>14. CASE UNCHANGED vars
        <2>v. UNCHANGED <<file, open, upstreams, pglcf, stage, running, req>>
            BY <1>14 DEF vars
        <2>1. \A c, e : Lines(c, e)' = Lines(c, e)
            BY <2>v, LinesSame
        <2>2. TypeInv' /\ UpInv'
            BY <2>v, <2>1, UpSame DEF UpstreamInv, TypeInv, BlockSeq
        <2>3. \A l : NameInFile(l)' = NameInFile(l)
            BY <2>v, NamesSame
        <2>4. /\ \A l \in Levels : NoPass(l)' <=> NoPass(l)
              /\ \A l \in Levels : \A i : OwnPass(l, i)' <=> OwnPass(l, i)
              /\ \A l \in Levels : Named(l)' <=> Named(l)
              /\ \A l \in Levels : Served(l)' <=> Served(l)
            <3>1. \A l \in Levels : NoPass(l)' <=> NoPass(l)
                BY <2>v, <2>1 DEF NoPass
            <3>2. \A l \in Levels : \A i : OwnPass(l, i)' <=> OwnPass(l, i)
                BY <2>v, <2>1 DEF OwnPass
            <3>3. \A l \in Levels : Named(l)' <=> Named(l)
                BY <2>v, <2>3 DEF Named
            <3>4. \A l \in Levels : Served(l)' <=> Served(l)
                BY <2>v DEF Served
            <3> QED BY <3>1, <3>2, <3>3, <3>4
        <2>5. PassInv'
            BY <2>v, <2>4 DEF UpstreamInv, PassInv
        <2>6. \A r \in Requests : Right(r)'
            <3> TAKE r \in Requests
            <3>1. Right(r)
                BY DEF UpstreamInv, ReqInv
            <3>2. \A l : MeantAt(l, r)' = MeantAt(l, r)
                BY <2>v, <2>3 DEF MeantAt
            <3> QED BY <2>v, <2>1, <3>1, <3>2 DEF Right, Served
        <2>7. ReqInv'
            BY <2>v, <2>6 DEF UpstreamInv, ReqInv
        <2> QED BY <2>2, <2>5, <2>7 DEF UpstreamInv
    <1> QED BY <1>1, <1>2, <1>3, <1>4, <1>5, <1>6, <1>7, <1>8, <1>9, <1>10, <1>11, <1>12,
               <1>13, <1>14 DEF Next

(* For every configuration and any number of requests, the file, what is    *)
(* made of it and the requests hang together as UpstreamInv says.           *)
THEOREM UpstreamInvariant == Spec => []UpstreamInv
    <1> QED BY UpstreamInit, UpstreamStep, PTL DEF Spec

(* A request is connected to the block it means, although all requests of   *)
(* the location write the configuration through which it is handed over     *)
(* (ngx_postgres_handler.c:142), however many requests and blocks there are.*)
THEOREM OwnUpstreamAlways == Spec => []OwnUpstream
    <1>1. UpstreamInv => OwnUpstream
        <2> SUFFICES ASSUME UpstreamInv, NEW r \in Requests,
                            req[r].phase \in {"connecting", "querying"}
                     PROVE  /\ upstreams[req[r].srv].host = Meant(r)
                            /\ upstreams[req[r].srv].create
            BY DEF OwnUpstream
        <2>1. Right(r) /\ PassInv /\ ReqInv
            BY DEF UpstreamInv, ReqInv
        <2>2. stage = "serving"
            BY <2>1 DEF ReqInv, NewRequest
        <2>3. /\ req[r].srv \in DOMAIN upstreams /\ upstreams[req[r].srv].port = 0
              /\ upstreams[req[r].srv].host = MeantAt(req[r].level, r)
            BY <2>1 DEF Right
        <2>4. Meant(r) = MeantAt(req[r].level, r)
            BY DEF Meant, MeantAt
        <2> QED BY <2>1, <2>2, <2>3, <2>4 DEF PassInv
    <1> QED BY <1>1, UpstreamInvariant, PTL

(* A request is told that its block does not exist, or is no database, only *)
(* when the file says so, and never that there is no configuration, however *)
(* many requests share the one of the location.                             *)
THEOREM RefusedRightlyAlways == Spec => []RefusedRightly
    <1>1. UpstreamInv => RefusedRightly
        <2> SUFFICES ASSUME UpstreamInv, NEW r \in Requests
                     PROVE  /\ req[r].answer = "not_found" => Lines(req[r].host, "upstream") = {}
                            /\ req[r].answer = "not_my_peer" => Lines(Meant(r), "server") = {}
                            /\ req[r].answer # "unconfigured"
            BY DEF RefusedRightly
        <2>1. Right(r)
            BY DEF UpstreamInv, ReqInv
        <2>2. Meant(r) = MeantAt(req[r].level, r)
            BY DEF Meant, MeantAt
        <2>3. req[r].answer = "not_my_peer" => req[r].level \in Levels
            BY <2>1, UpstreamAssumption DEF Right
        <2> QED BY <2>1, <2>2, <2>3 DEF Right
    <1> QED BY <1>1, UpstreamInvariant, PTL

-----------------------------------------------------------------------------
(* Blocks against the file *)

(* A block has pool settings and servers only after its "upstream" line,    *)
(* and then there is no entry with a port for the same name.                *)
NamesInv ==
    /\ \A n \in Names : Lines(n, "keepalive") # {} => Lines(n, "upstream") # {}
    /\ \A k \in DOMAIN upstreams, n \in Names :
          upstreams[k].host = n /\ Lines(n, "upstream") # {} => upstreams[k].port = 0
    /\ \A n \in Names : open # None /\ n = upstreams[open].host => Lines(n, "upstream") # {}

(* p[m] is the line of the m-th server of u.                                *)
ServerLines(u, p) ==
    /\ \A m \in DOMAIN u.servers :
          /\ file[p[m]].value.host \in DOMAIN Resolve
          /\ u.servers[m] = [addrs |-> Resolve[file[p[m]].value.host],
                             db |-> file[p[m]].value.db]
    /\ \A m, q \in DOMAIN u.servers : m < q => p[m] < p[q]
    /\ \A i \in Lines(u.host, "server") : \E m \in DOMAIN u.servers : p[m] = i
ServersInv ==
    \A k \in DOMAIN upstreams : upstreams[k].ours =>
       \E p \in [DOMAIN upstreams[k].servers -> Lines(upstreams[k].host, "server")] :
          ServerLines(upstreams[k], p)

(* The peers are made of the servers when the whole file was read.          *)
PeersInv ==
    stage = "serving" =>
       \A k \in DOMAIN upstreams :
          upstreams[k].ours => upstreams[k].peers = PeersOf(upstreams[k])

BlocksInv == NamesInv /\ ServersInv /\ PeersInv /\ KeepaliveAsWritten

(* The line of a directive, and what was in the file before it.             *)
LEMMA LineMore ==
    ASSUME NEW b \in Names \cup Levels, NEW d \in Kinds, NEW v \in Values,
           UpstreamInv, Accept(b, d, v)
    PROVE  /\ \A c, e : ~(c = b /\ e = d) => Lines(c, e)' = Lines(c, e)
           /\ Lines(b, d)' = Lines(b, d) \cup {Len(file) + 1}
           /\ Len(file) \in Nat /\ file'[Len(file) + 1].value = v
           /\ \A c, e : \A i \in Lines(c, e) : i \in 1..Len(file) /\ file'[i] = file[i]
    <1>1. file \in Seq(FileLines)
        BY DEF UpstreamInv, TypeInv
    <1>2. file' = Append(file, [block |-> b, kind |-> d, value |-> v])
        BY DEF Accept
    <1>3. /\ \A c, e : Lines(c, e)' = IF c = b /\ e = d THEN Lines(c, e) \cup {Len(file) + 1}
                                      ELSE Lines(c, e)
          /\ \A i \in DOMAIN file : i \in DOMAIN file' /\ file'[i] = file[i]
          /\ file'[Len(file) + 1].value = v
        BY <1>1, <1>2, LinesGrow
    <1>4. Len(file) \in Nat /\ DOMAIN file = 1..Len(file)
        BY <1>1
    <1>5. \A c, e : Lines(c, e) \subseteq DOMAIN file
        BY DEF Lines
    <1> QED BY <1>3, <1>4, <1>5

-----------------------------------------------------------------------------
(* What is said last *)

(* The last line of a set of lines.                                         *)
LEMMA ChosenGreatest ==
    ASSUME NEW T \in SUBSET Nat, NEW i \in T, \A j \in T : j <= i
    PROVE  (CHOOSE k \in T : \A j \in T : j <= k) = i
    <1>1. \E k \in T : \A j \in T : j <= k
        OBVIOUS
    <1> DEFINE c == CHOOSE k \in T : \A j \in T : j <= k
    <1>2. c \in T /\ \A j \in T : j <= c
        BY <1>1
    <1> HIDE DEF c
    <1>3. c \in Nat /\ i \in Nat /\ c <= i /\ i <= c
        BY <1>2
    <1> QED BY <1>3 DEF c

(* Without a line more, what is said last is the same.                      *)
LEMMA LastSaidSame ==
    ASSUME NEW b, NEW setting, NEW default, UpstreamInv,
           Lines(b, "keepalive")' = Lines(b, "keepalive"),
           \A i \in Lines(b, "keepalive") : file'[i] = file[i]
    PROVE  LastSaid(b, setting, default)' = LastSaid(b, setting, default)
    <1> DEFINE says == {i \in Lines(b, "keepalive") : file[i].value[setting] # None}
    <1>1. says' = says
        OBVIOUS
    <1>2. CASE says = {}
        BY <1>1, <1>2 DEF LastSaid
    <1>3. CASE says # {}
        <2>1. file \in Seq(FileLines)
            BY DEF UpstreamInv, TypeInv
        <2>2. Len(file) \in Nat /\ says \in SUBSET (0..Len(file))
            BY <2>1 DEF Lines
        <2>3. PICK i \in says : \A j \in says : j <= i
            BY <1>3, <2>2, GreatestNat
        <2>4. (CHOOSE k \in says : \A j \in says : j <= k) = i
            BY <2>2, <2>3, ChosenGreatest
        <2>5. file'[i] = file[i]
            BY <2>3
        <2>6. LastSaid(b, setting, default) = file[i].value[setting]
            BY <1>3, <2>4 DEF LastSaid
        <2>7. LastSaid(b, setting, default)' = file'[i].value[setting]
            BY <1>1, <1>3, <2>4 DEF LastSaid
        <2> QED BY <2>5, <2>6, <2>7
    <1> QED BY <1>2, <1>3

(* After one directive more.                                                *)
LEMMA LastSaidGrows ==
    ASSUME NEW b \in Names, NEW setting, NEW default, NEW args \in KeepaliveArgs,
           UpstreamInv, Accept(b, "keepalive", args)
    PROVE  LastSaid(b, setting, default)' = Said(args[setting], LastSaid(b, setting, default))
    <1> DEFINE says == {i \in Lines(b, "keepalive") : file[i].value[setting] # None}
               top == Len(file) + 1
    <1>1. /\ Lines(b, "keepalive")' = Lines(b, "keepalive") \cup {top}
          /\ top \in Nat /\ file'[top].value = args
          /\ \A i \in Lines(b, "keepalive") : i \in 0..top /\ i <= top /\ file'[i] = file[i]
        <2>1. "keepalive" \in Kinds /\ args \in Values /\ b \in Names \cup Levels
            BY DEF Kinds, Values
        <2>2. /\ Lines(b, "keepalive")' = Lines(b, "keepalive") \cup {Len(file) + 1}
              /\ Len(file) \in Nat /\ file'[Len(file) + 1].value = args
              /\ \A i \in Lines(b, "keepalive") : i \in 1..Len(file) /\ file'[i] = file[i]
            BY <2>1, LineMore
        <2> QED BY <2>2
    <1> HIDE DEF top
    <1>2. \A i : i \in says' <=> i \in says \/ (i = top /\ args[setting] # None)
        BY <1>1
    <1>3. CASE args[setting] # None
        <2>1. top \in says' /\ says' \in SUBSET Nat /\ \A j \in says' : j <= top
            BY <1>1, <1>2, <1>3
        <2> DEFINE T == says'
        <2>2. T \in SUBSET Nat /\ top \in T /\ \A j \in T : j <= top
            BY <2>1
        <2> HIDE DEF T
        <2>3. (CHOOSE k \in T : \A j \in T : j <= k) = top
            BY <2>2, ChosenGreatest
        <2>4. (CHOOSE k \in says' : \A j \in says' : j <= k) = top
            BY <2>3 DEF T
        <2>5. says' # {}
            BY <2>1
        <2>6. LastSaid(b, setting, default)' = file'[top].value[setting]
            BY <2>4, <2>5 DEF LastSaid
        <2> QED BY <1>1, <1>3, <2>6 DEF Said
    <1>4. CASE args[setting] = None
        <2>1. says' = says
            BY <1>2, <1>4
        <2>2. CASE says = {}
            BY <1>4, <2>1, <2>2 DEF LastSaid, Said
        <2>3. CASE says # {}
            <3>1. says \in SUBSET (0..top)
                BY <1>1
            <3>2. PICK i \in says : \A j \in says : j <= i
                BY <1>1, <2>3, <3>1, GreatestNat
            <3>3. (CHOOSE k \in says : \A j \in says : j <= k) = i
                BY <3>1, <3>2, ChosenGreatest
            <3>4. file'[i] = file[i]
                BY <1>1, <3>2
            <3>5. LastSaid(b, setting, default) = file[i].value[setting]
                BY <2>3, <3>3 DEF LastSaid
            <3>6. LastSaid(b, setting, default)' = file'[i].value[setting]
                BY <2>1, <2>3, <3>3 DEF LastSaid
            <3> QED BY <1>4, <3>4, <3>5, <3>6 DEF Said
        <2> QED BY <2>2, <2>3
    <1> QED BY <1>3, <1>4

(* The settings of one entry are as the file says for the block n.          *)
Written(u, n) ==
    /\ u.max_cached = LastSaid(n, "max", 10)
    /\ u.single = LastSaid(n, "single", TRUE)
    /\ u.reject = LastSaid(n, "reject", FALSE)
    /\ \A i, j \in Lines(n, "keepalive") : i < j => file[i].value.max \in {None, 10}

(* The settings that lines give: the same without a line more,              *)
LEMMA WrittenSame ==
    ASSUME NEW n, NEW u, NEW v, UpstreamInv, Written(u, n),
           Lines(n, "keepalive")' = Lines(n, "keepalive"),
           \A i \in Lines(n, "keepalive") : file'[i] = file[i],
           v.max_cached = u.max_cached, v.single = u.single, v.reject = u.reject
    PROVE  Written(v, n)'
    <1>1. /\ LastSaid(n, "max", 10)' = LastSaid(n, "max", 10)
          /\ LastSaid(n, "single", TRUE)' = LastSaid(n, "single", TRUE)
          /\ LastSaid(n, "reject", FALSE)' = LastSaid(n, "reject", FALSE)
        <2>1. \A setting, default :
                 LastSaid(n, setting, default)' = LastSaid(n, setting, default)
            BY LastSaidSame
        <2> QED BY <2>1
    <1> QED BY <1>1 DEF Written

(* the defaults without any,                                                *)
LEMMA WrittenNone ==
    ASSUME NEW n, NEW u, Lines(n, "keepalive") = {},
           u.max_cached = 10, u.single = TRUE, u.reject = FALSE
    PROVE  Written(u, n)
    BY DEF Written, LastSaid

(* and with a line more, its settings over those there were.                *)
LEMMA WrittenMore ==
    ASSUME NEW n \in Names, NEW u, NEW v, NEW args \in KeepaliveArgs,
           UpstreamInv, Written(u, n), Accept(n, "keepalive", args),
           ~KeepaliveGiven(u),
           v.max_cached = Said(args.max, u.max_cached),
           v.single = Said(args.single, u.single),
           v.reject = Said(args.reject, u.reject)
    PROVE  Written(v, n)'
    <1>1. /\ LastSaid(n, "max", 10)' = Said(args.max, LastSaid(n, "max", 10))
          /\ LastSaid(n, "single", TRUE)' = Said(args.single, LastSaid(n, "single", TRUE))
          /\ LastSaid(n, "reject", FALSE)' = Said(args.reject, LastSaid(n, "reject", FALSE))
        BY LastSaidGrows
    <1>2. /\ Lines(n, "keepalive")' = Lines(n, "keepalive") \cup {Len(file) + 1}
          /\ Len(file) \in Nat
          /\ \A i \in Lines(n, "keepalive") : i \in 1..Len(file) /\ file'[i] = file[i]
        <2>1. "keepalive" \in Kinds /\ args \in Values /\ n \in Names \cup Levels
            BY DEF Kinds, Values
        <2> QED BY <2>1, LineMore
    <1>3. LastSaid(n, "max", 10) = 10
        BY DEF Written, KeepaliveGiven
    <1>4. ASSUME NEW i \in Lines(n, "keepalive") PROVE file[i].value.max \in {None, 10}
        <2>1. CASE \E j \in Lines(n, "keepalive") : i < j
            BY <2>1 DEF Written
        <2>2. CASE ~\E j \in Lines(n, "keepalive") : i < j
            <3>1. CASE file[i].value.max = None
                BY <3>1
            <3>2. CASE file[i].value.max # None
                <4> DEFINE says == {j \in Lines(n, "keepalive") : file[j].value["max"] # None}
                <4>1. i \in says /\ says \in SUBSET Nat
                    BY <1>2, <3>2
                <4>2. \A j \in says : j <= i
                    BY <1>2, <2>2
                <4>3. (CHOOSE k \in says : \A j \in says : j <= k) = i
                    BY <4>1, <4>2, ChosenGreatest
                <4>4. LastSaid(n, "max", 10) = file[i].value["max"]
                    BY <4>1, <4>3 DEF LastSaid
                <4> QED BY <1>3, <4>4
            <3> QED BY <3>1, <3>2
        <2> QED BY <2>1, <2>2
    <1>5. ASSUME NEW i \in Lines(n, "keepalive")', NEW j \in Lines(n, "keepalive")', i < j
          PROVE  file'[i].value.max \in {None, 10}
        <2>1. i \in Lines(n, "keepalive") /\ file'[i] = file[i]
            BY <1>2, <1>5
        <2> QED BY <1>4, <2>1
    <1> QED BY <1>1, <1>5 DEF Written

(* KeepaliveAsWritten, entry by entry.                                      *)
LEMMA WrittenIs ==
    /\ KeepaliveAsWritten <=>
          \A k \in DOMAIN upstreams : \A n : n = upstreams[k].host => Written(upstreams[k], n)
    BY DEF KeepaliveAsWritten, Written

-----------------------------------------------------------------------------
(* Entries that a step leaves as they are, and new ones *)

SameServers(v, u) == v.host = u.host /\ v.ours = u.ours /\ v.servers = u.servers

SameSettings(v, u) ==
    /\ v.host = u.host
    /\ v.max_cached = u.max_cached /\ v.single = u.single /\ v.reject = u.reject

NewSettings(v) ==
    /\ v.max_cached = 10 /\ v.single = TRUE /\ v.reject = FALSE
    /\ Lines(v.host, "keepalive") = {}

(* The lines of the servers, as long as the block has the same.             *)
LEMMA ServerLinesSame ==
    ASSUME NEW u, NEW v, NEW p, UpstreamInv, u.host \in Names,
           p \in [DOMAIN u.servers -> Lines(u.host, "server")], ServerLines(u, p),
           v.host = u.host, v.servers = u.servers,
           Lines(u.host, "server")' = Lines(u.host, "server"),
           \A i \in Lines(u.host, "server") : file'[i] = file[i]
    PROVE  /\ p \in [DOMAIN v.servers -> Lines(v.host, "server")']
           /\ ServerLines(v, p)'
    <1>1. \A m \in DOMAIN u.servers : file'[p[m]] = file[p[m]]
        OBVIOUS
    <1> QED BY <1>1 DEF ServerLines

(* ServersInv in a step that leaves servers and their lines alone.          *)
LEMMA ServersKept ==
    ASSUME UpstreamInv, ServersInv,
           \A c : Lines(c, "server")' = Lines(c, "server"),
           \A c, e : \A i \in Lines(c, e) : file'[i] = file[i],
           \A k \in DOMAIN upstreams' :
              \/ k \in DOMAIN upstreams /\ SameServers(upstreams'[k], upstreams[k])
              \/ ~upstreams'[k].ours
    PROVE  ServersInv'
    <1> SUFFICES ASSUME NEW k \in DOMAIN upstreams', upstreams'[k].ours
                 PROVE  (\E p \in [DOMAIN upstreams[k].servers -> Lines(upstreams[k].host, "server")] :
                           ServerLines(upstreams[k], p))'
        BY DEF ServersInv
    <1>1. k \in DOMAIN upstreams /\ SameServers(upstreams'[k], upstreams[k])
        OBVIOUS
    <1>2. PICK u, v : u = upstreams[k] /\ v = upstreams'[k]
        OBVIOUS
    <1>3. u.ours /\ v.host = u.host /\ v.servers = u.servers /\ u.host \in Names
        BY <1>1, <1>2 DEF SameServers, UpstreamInv, TypeInv, BlockSeq, BlockOK
    <1>4. PICK p \in [DOMAIN u.servers -> Lines(u.host, "server")] : ServerLines(u, p)
        BY <1>1, <1>2, <1>3 DEF ServersInv
    <1>5. /\ p \in [DOMAIN v.servers -> Lines(v.host, "server")']
          /\ ServerLines(v, p)'
        <2>1. /\ \A c : Lines(c, "server")' = Lines(c, "server")
              /\ \A c : \A i \in Lines(c, "server") : file'[i] = file[i]
            OBVIOUS
        <2> QED BY <1>3, <1>4, <2>1, ServerLinesSame
    <1>6. p \in [DOMAIN upstreams'[k].servers -> Lines(upstreams[k].host, "server")']
        BY <1>2, <1>5
    <1>7. ServerLines(upstreams[k], p)'
        BY <1>2, <1>5
    <1> QED BY <1>6, <1>7

(* KeepaliveAsWritten in one that leaves settings and lines alone.          *)
LEMMA SettingsKept ==
    ASSUME UpstreamInv, KeepaliveAsWritten,
           \A c : Lines(c, "keepalive")' = Lines(c, "keepalive"),
           \A c, e : \A i \in Lines(c, e) : file'[i] = file[i],
           \A k \in DOMAIN upstreams' :
              \/ k \in DOMAIN upstreams /\ SameSettings(upstreams'[k], upstreams[k])
              \/ NewSettings(upstreams'[k])
    PROVE  KeepaliveAsWritten'
    <1> SUFFICES ASSUME NEW k \in DOMAIN upstreams', NEW n, n = upstreams'[k].host
                 PROVE  Written(upstreams[k], n)'
        BY DEF KeepaliveAsWritten, Written
    <1>v. PICK v : v = upstreams'[k]
        OBVIOUS
    <1>1. \E u : /\ Written(u, n) /\ v.max_cached = u.max_cached
                 /\ v.single = u.single /\ v.reject = u.reject
        <2>1. CASE k \in DOMAIN upstreams /\ SameSettings(upstreams'[k], upstreams[k])
            BY <1>v, <2>1, WrittenIs DEF SameSettings
        <2>2. CASE NewSettings(upstreams'[k])
            BY <1>v, <2>2, WrittenNone DEF NewSettings
        <2> QED BY <2>1, <2>2
    <1>2. PICK u : /\ Written(u, n) /\ v.max_cached = u.max_cached
                   /\ v.single = u.single /\ v.reject = u.reject
        BY <1>1
    <1>3. Written(v, n)'
        <2>1. /\ Lines(n, "keepalive")' = Lines(n, "keepalive")
              /\ \A i \in Lines(n, "keepalive") : file'[i] = file[i]
            OBVIOUS
        <2> QED BY <1>2, <2>1, WrittenSame
    <1> QED BY <1>v, <1>3

(* ngx_http_upstream_add: an entry that was there, or one without servers   *)
(* and with the settings of a block that has no directives.                 *)
LEMMA AddedBlocks ==
    ASSUME NEW n \in Names, NEW port \in {0, 8080}, UpstreamInv, NamesInv,
           port = 0 \/ Lines(n, "upstream") = {}
    PROVE  \A j \in DOMAIN Added(n, port) :
              \/ j \in DOMAIN upstreams /\ Added(n, port)[j] = upstreams[j]
              \/ /\ j \notin DOMAIN upstreams /\ j = IndexAdded(n, port)
                 /\ Added(n, port)[j].host = n /\ Added(n, port)[j].port = port
                 /\ ~Added(n, port)[j].ours /\ NewSettings(Added(n, port)[j])
    <1>t. TypeInv /\ UpInv
        BY DEF UpstreamInv
    <1>1. /\ \A j : j \in DOMAIN Added(n, port) <=> j \in DOMAIN upstreams \/ j = IndexAdded(n, port)
          /\ \A j \in DOMAIN upstreams : Added(n, port)[j] = upstreams[j]
          /\ Added(n, port)[IndexAdded(n, port)].host = n
          /\ Added(n, port)[IndexAdded(n, port)].port = port
          /\ IndexAdded(n, port) \notin DOMAIN upstreams =>
                /\ Added(n, port)[IndexAdded(n, port)] = NewUpstream(n, port)
                /\ Entries(n, port) = {}
        BY <1>t, AddedFacts
    <1> DEFINE more == Added(n, port)
               k == IndexAdded(n, port)
    <1>2. \A j \in DOMAIN more :
             \/ j \in DOMAIN upstreams /\ more[j] = upstreams[j]
             \/ /\ j \notin DOMAIN upstreams /\ j = k /\ more[j] = NewUpstream(n, port)
                /\ Entries(n, port) = {}
        BY <1>1
    <1>3. Entries(n, port) = {} => Lines(n, "keepalive") = {}
        <2>1. CASE port = 0
            <3>1. Entries(n, port) = {} => Lines(n, "upstream") = {}
                BY <1>t, <2>1 DEF UpInv, Entries
            <3> QED BY <3>1 DEF NamesInv
        <2>2. CASE Lines(n, "upstream") = {}
            BY <2>2 DEF NamesInv
        <2> QED BY <2>1, <2>2
    <1>4. LET v == NewUpstream(n, port)
          IN  /\ v.host = n /\ v.port = port /\ ~v.ours
              /\ v.max_cached = 10 /\ v.single = TRUE /\ v.reject = FALSE
        BY DEF NewUpstream
    <1> QED BY <1>2, <1>3, <1>4 DEF NewSettings

-----------------------------------------------------------------------------
(* The steps *)

(* A step on requests only.                                                 *)
LEMMA BlocksSame ==
    ASSUME UpstreamInv, BlocksInv, UNCHANGED <<file, upstreams>>, open' \in {open, None},
           stage' = "serving" => stage = "serving"
    PROVE  BlocksInv'
    <1>1. \A c, e : Lines(c, e)' = Lines(c, e)
        BY LinesSame
    <1>2. NamesInv'
        BY <1>1 DEF BlocksInv, NamesInv
    <1>3. ServersInv'
        BY <1>1, ServersKept DEF BlocksInv, SameServers
    <1>4. KeepaliveAsWritten'
        BY <1>1, SettingsKept DEF BlocksInv, SameSettings
    <1>5. PeersInv'
        BY DEF BlocksInv, PeersInv, PeersOf
    <1> QED BY <1>2, <1>3, <1>4, <1>5 DEF BlocksInv

(* postgres_pass: it may add an entry, never servers or settings.           *)
LEMMA PassBlocks ==
    ASSUME NEW l \in Levels, NEW n \in Names \cup {None},
           UpstreamInv, BlocksInv, ConfPass(l, n)
    PROVE  BlocksInv'
    <1>1. CASE Refuse
        BY <1>1, BlocksSame DEF Refuse
    <1>2. CASE ~Refuse
        <2>t. TypeInv /\ stage = "reading" /\ NamesInv
            BY DEF UpstreamInv, BlocksInv, ConfPass, Reading
        <2>a. Accept(l, "pass", n) /\ open = None /\ open' = None
            BY <1>2 DEF ConfPass
        <2>1. /\ \A c, e : e # "pass" => Lines(c, e)' = Lines(c, e)
              /\ \A c, e : \A i \in Lines(c, e) : file'[i] = file[i]
            <3>1. "pass" \in Kinds /\ n \in Values /\ l \in Names \cup Levels
                BY DEF Kinds, Values
            <3> QED BY <2>a, <3>1, LineMore
        <2>2. upstreams' = upstreams \/ (n \in Names /\ upstreams' = Added(n, 0))
            BY <1>2 DEF ConfPass
        <2>3. \A j \in DOMAIN upstreams' :
                 \/ j \in DOMAIN upstreams /\ upstreams'[j] = upstreams[j]
                 \/ upstreams'[j].port = 0 /\ ~upstreams'[j].ours /\ NewSettings(upstreams'[j])
            BY <2>t, <2>2, AddedBlocks
        <2>4. NamesInv'
            BY <2>t, <2>a, <2>1, <2>3 DEF NamesInv
        <2>5. ServersInv'
            BY <2>1, <2>3, ServersKept DEF BlocksInv, SameServers
        <2>6. KeepaliveAsWritten'
            BY <2>1, <2>3, SettingsKept DEF BlocksInv, SameSettings
        <2>7. PeersInv'
            BY <2>t, <2>a DEF PeersInv, Accept
        <2> QED BY <2>4, <2>5, <2>6, <2>7 DEF BlocksInv
    <1> QED BY <1>1, <1>2

(* A directive of another module closes the block.                          *)
LEMMA OtherBlocks ==
    ASSUME NEW n \in Names, UpstreamInv, BlocksInv, OtherPass(n)
    PROVE  BlocksInv'
    <1>1. CASE Refuse
        BY <1>1, BlocksSame DEF Refuse
    <1>2. CASE ~Refuse
        <2>t. TypeInv /\ UpInv /\ stage = "reading" /\ NamesInv
            BY DEF UpstreamInv, BlocksInv, OtherPass, Reading
        <2>a. /\ Accept(n, "other", None) /\ open = None /\ open' = None
              /\ upstreams' = Added(n, 8080)
              /\ \A k \in Entries(n, 0) : ~upstreams[k].create
            BY <1>2 DEF OtherPass
        <2>1. /\ \A c, e : e # "other" => Lines(c, e)' = Lines(c, e)
              /\ \A c, e : \A i \in Lines(c, e) : file'[i] = file[i]
            <3>1. "other" \in Kinds /\ None \in Values /\ n \in Names \cup Levels
                BY DEF Kinds, Values
            <3> QED BY <2>a, <3>1, LineMore
        <2>2. Lines(n, "upstream") = {}
            BY <2>t, <2>a DEF UpInv, Entries
        <2>3. \A j \in DOMAIN upstreams' :
                 \/ j \in DOMAIN upstreams /\ upstreams'[j] = upstreams[j]
                 \/ upstreams'[j].host = n /\ ~upstreams'[j].ours /\ NewSettings(upstreams'[j])
            BY <2>t, <2>a, <2>2, AddedBlocks
        <2>4. NamesInv'
            BY <2>t, <2>a, <2>1, <2>2, <2>3 DEF NamesInv
        <2>5. ServersInv'
            BY <2>1, <2>3, ServersKept DEF BlocksInv, SameServers
        <2>6. KeepaliveAsWritten'
            BY <2>1, <2>3, SettingsKept DEF BlocksInv, SameSettings
        <2>7. PeersInv'
            BY <2>t, <2>a DEF PeersInv, Accept
        <2> QED BY <2>4, <2>5, <2>6, <2>7 DEF BlocksInv
    <1> QED BY <1>1, <1>2

(* upstream { }: the settings and the servers start over.                   *)
LEMMA OpenBlocks ==
    ASSUME NEW n \in Names, UpstreamInv, BlocksInv, OpenBlock(n)
    PROVE  BlocksInv'
    <1>1. CASE Refuse
        BY <1>1, BlocksSame DEF Refuse
    <1>2. CASE ~Refuse
        <2> DEFINE k == IndexAdded(n, 0)
                   more == Added(n, 0)
        <2>t. TypeInv /\ UpInv /\ stage = "reading" /\ NamesInv
            BY DEF UpstreamInv, BlocksInv, OpenBlock, Reading
        <2>a. /\ Accept(n, "upstream", None) /\ open' = k
              /\ upstreams' = [more EXCEPT ![k].create = TRUE]
              /\ Entries(n, 8080) = {}
            BY <1>2 DEF OpenBlock
        <2>1. /\ \A c, e : ~(c = n /\ e = "upstream") => Lines(c, e)' = Lines(c, e)
              /\ Lines(n, "upstream")' # {}
              /\ \A c, e : \A i \in Lines(c, e) : file'[i] = file[i]
            <3>1. "upstream" \in Kinds /\ None \in Values /\ n \in Names \cup Levels
                BY DEF Kinds, Values
            <3> QED BY <2>a, <3>1, LineMore
        <2>2. \A j \in DOMAIN more :
                 \/ j \in DOMAIN upstreams /\ more[j] = upstreams[j]
                 \/ /\ more[j].host = n /\ more[j].port = 0
                    /\ ~more[j].ours /\ NewSettings(more[j])
            BY <2>t, AddedBlocks
        <2>3. /\ k \in DOMAIN more /\ more[k].host = n /\ more[k].port = 0 /\ BlockSeq(more)
            BY <2>t, AddedFacts
        <2> HIDE DEF k, more
        <2>4. \A j \in DOMAIN upstreams' :
                 /\ j \in DOMAIN more
                 /\ upstreams'[j].host = more[j].host /\ upstreams'[j].port = more[j].port
                 /\ upstreams'[j].ours = more[j].ours /\ upstreams'[j].servers = more[j].servers
                 /\ upstreams'[j].max_cached = more[j].max_cached
                 /\ upstreams'[j].single = more[j].single /\ upstreams'[j].reject = more[j].reject
            <3> DEFINE x == [more[k] EXCEPT !.create = TRUE]
            <3>1. BlockOK(more[k])
                BY <2>3 DEF BlockSeq
            <3>2. /\ x.host = more[k].host /\ x.port = more[k].port /\ x.ours = more[k].ours
                  /\ x.servers = more[k].servers /\ x.max_cached = more[k].max_cached
                  /\ x.single = more[k].single /\ x.reject = more[k].reject
                BY <3>1 DEF BlockOK
            <3>3. upstreams' = [more EXCEPT ![k] = x]
                BY <2>a
            <3> HIDE DEF x
            <3> QED BY <2>3, <3>2, <3>3
        <2>5. \A j \in DOMAIN upstreams' : upstreams'[j].host = n => upstreams'[j].port = 0
            <3>1. \A j \in DOMAIN upstreams : upstreams[j].host = n => upstreams[j].port = 0
                BY <2>t, <2>a DEF TypeInv, BlockSeq, BlockOK, Entries
            <3> QED BY <2>2, <2>4, <3>1
        <2>6. NamesInv'
            <3>1. \A m \in Names : Lines(m, "keepalive")' # {} => Lines(m, "upstream")' # {}
                BY <2>t, <2>1 DEF NamesInv
            <3>2. \A j \in DOMAIN upstreams', m \in Names :
                     upstreams'[j].host = m /\ Lines(m, "upstream")' # {} => upstreams'[j].port = 0
                <4> TAKE j \in DOMAIN upstreams', m \in Names
                <4>1. CASE upstreams'[j].host = n
                    BY <2>5, <4>1
                <4>2. CASE upstreams'[j].host # n /\ upstreams'[j].host = m
                    <5>1. j \in DOMAIN upstreams /\ more[j] = upstreams[j]
                        BY <2>2, <2>4, <4>2
                    <5>2. Lines(m, "upstream")' = Lines(m, "upstream")
                        BY <2>1, <4>2
                    <5> QED BY <2>t, <2>4, <4>2, <5>1, <5>2 DEF NamesInv
                <4> QED BY <4>1, <4>2
            <3>3. k \in DOMAIN upstreams'
                BY <2>a, <2>3
            <3>4. upstreams'[k].host = n
                BY <2>3, <2>4, <3>3
            <3>5. \A m \in Names : open' # None /\ m = upstreams'[open'].host => Lines(m, "upstream")' # {}
                BY <2>1, <2>a, <3>4
            <3> QED BY <3>1, <3>2, <3>5 DEF NamesInv
        <2>7. ServersInv'
            BY <2>1, <2>2, <2>4, ServersKept DEF BlocksInv, SameServers
        <2>8. KeepaliveAsWritten'
            <3>1. \A j \in DOMAIN upstreams' :
                     \/ j \in DOMAIN upstreams /\ SameSettings(upstreams'[j], upstreams[j])
                     \/ NewSettings(upstreams'[j])
                BY <2>2, <2>4 DEF SameSettings, NewSettings
            <3>2. \A c : Lines(c, "keepalive")' = Lines(c, "keepalive")
                BY <2>1
            <3> QED BY <2>1, <3>1, <3>2, SettingsKept DEF BlocksInv
        <2>9. PeersInv'
            BY <2>t, <2>a DEF PeersInv, Accept
        <2> QED BY <2>6, <2>7, <2>8, <2>9 DEF BlocksInv
    <1> QED BY <1>1, <1>2

(* A directive inside the block that is being read.                         *)
LEMMA NamesKept ==
    ASSUME NamesInv, open' = open, open \in DOMAIN upstreams,
           DOMAIN upstreams' = DOMAIN upstreams,
           \A j \in DOMAIN upstreams : /\ upstreams'[j].host = upstreams[j].host
                                       /\ upstreams'[j].port = upstreams[j].port,
           \A c : Lines(c, "upstream")' = Lines(c, "upstream"),
           \A c \in Names : Lines(c, "keepalive")' # {} => Lines(c, "upstream") # {}
    PROVE  NamesInv'
    <1>1. \A j \in DOMAIN upstreams', n \in Names :
             upstreams'[j].host = n /\ Lines(n, "upstream")' # {} => upstreams'[j].port = 0
        BY DEF NamesInv
    <1>2. \A n \in Names : open' # None /\ n = upstreams'[open'].host =>
             Lines(n, "upstream")' # {}
        BY DEF NamesInv
    <1>3. \A n \in Names : Lines(n, "keepalive")' # {} => Lines(n, "upstream")' # {}
        OBVIOUS
    <1> QED BY <1>1, <1>2, <1>3 DEF NamesInv

(* server: not a server of this module.                                     *)
LEMMA ForeignBlocks == ASSUME UpstreamInv, BlocksInv, ForeignServer PROVE BlocksInv'
    <1> DEFINE n == upstreams[open].host
    <1>t. TypeInv /\ stage = "reading" /\ NamesInv
        BY DEF UpstreamInv, BlocksInv, ForeignServer, Reading
    <1>n. open \in DOMAIN upstreams /\ n \in Names /\ BlockOK(upstreams[open])
        <2>1. open \in DOMAIN upstreams /\ BlockOK(upstreams[open])
            BY OpenBlockOK DEF ForeignServer
        <2> QED BY <2>1 DEF BlockOK
    <1>a. /\ Accept(n, "foreign", None) /\ open' = open
          /\ upstreams' = [upstreams EXCEPT ![open] = [@ EXCEPT !.foreign = TRUE]]
        BY DEF ForeignServer
    <1>1. /\ \A c, e : e # "foreign" => Lines(c, e)' = Lines(c, e)
          /\ \A c, e : \A i \in Lines(c, e) : file'[i] = file[i]
        <2>1. "foreign" \in Kinds /\ None \in Values /\ n \in Names \cup Levels
            BY <1>n DEF Kinds, Values
        <2> QED BY <1>a, <2>1, LineMore
    <1>2. DOMAIN upstreams' = DOMAIN upstreams
        BY <1>a
    <1>3. \A j \in DOMAIN upstreams : /\ SameServers(upstreams'[j], upstreams[j])
                                      /\ SameSettings(upstreams'[j], upstreams[j])
                                      /\ upstreams'[j].port = upstreams[j].port
        <2> DEFINE x == [upstreams[open] EXCEPT !.foreign = TRUE]
        <2>1. /\ SameServers(x, upstreams[open]) /\ SameSettings(x, upstreams[open])
              /\ x.port = upstreams[open].port
            BY <1>n DEF BlockOK, SameServers, SameSettings
        <2>2. \A j \in DOMAIN upstreams :
                 upstreams'[j] = IF j = open THEN x ELSE upstreams[j]
            BY <1>a
        <2> HIDE DEF x
        <2>3. \A j \in DOMAIN upstreams : /\ SameServers(upstreams[j], upstreams[j])
                                          /\ SameSettings(upstreams[j], upstreams[j])
            BY DEF SameServers, SameSettings
        <2> QED BY <2>1, <2>2, <2>3
    <1>4. NamesInv'
        <2>1. \A j \in DOMAIN upstreams : /\ upstreams'[j].host = upstreams[j].host
                                          /\ upstreams'[j].port = upstreams[j].port
            BY <1>3 DEF SameServers
        <2>2. \A c : /\ Lines(c, "keepalive")' = Lines(c, "keepalive")
                     /\ Lines(c, "upstream")' = Lines(c, "upstream")
            BY <1>1
        <2>3. \A c \in Names : Lines(c, "keepalive")' # {} => Lines(c, "upstream") # {}
            BY <1>t, <2>2 DEF NamesInv
        <2> QED BY <1>t, <1>n, <1>a, <1>2, <2>1, <2>2, <2>3, NamesKept
    <1>5. ServersInv'
        BY <1>1, <1>2, <1>3, ServersKept DEF BlocksInv
    <1>6. KeepaliveAsWritten'
        BY <1>1, <1>2, <1>3, SettingsKept DEF BlocksInv
    <1>7. PeersInv'
        BY <1>t, <1>a DEF PeersInv, Accept
    <1> QED BY <1>4, <1>5, <1>6, <1>7 DEF BlocksInv

(* postgres_keepalive: the settings of the open block, and no other.        *)
LEMMA KeepaliveBlocks ==
    ASSUME NEW args \in KeepaliveArgs, UpstreamInv, BlocksInv, ConfKeepalive(args)
    PROVE  BlocksInv'
    <1>1. CASE Refuse
        BY <1>1, BlocksSame DEF Refuse
    <1>2. CASE ~Refuse
        <2> DEFINE u == upstreams[open]
                   x == [u EXCEPT !.max_cached = Said(args.max, @),
                                  !.single = Said(args.single, @),
                                  !.reject = Said(args.reject, @)]
        <2>t. TypeInv /\ UpInv /\ stage = "reading" /\ NamesInv /\ KeepaliveAsWritten
            BY DEF UpstreamInv, BlocksInv, ConfKeepalive, Reading
        <2>b. open \in DOMAIN upstreams /\ BlockOK(u) /\ open # None
            BY OpenBlockOK DEF ConfKeepalive
        <2>n. PICK n \in Names : n = u.host
            BY <2>b DEF BlockOK
        <2>a. /\ Accept(n, "keepalive", args) /\ open' = open /\ ~KeepaliveGiven(u)
              /\ upstreams' = [upstreams EXCEPT ![open] = x]
            BY <1>2, <2>n DEF ConfKeepalive
        <2>1. /\ \A c, e : ~(c = n /\ e = "keepalive") => Lines(c, e)' = Lines(c, e)
              /\ \A c, e : \A i \in Lines(c, e) : file'[i] = file[i]
            <3>1. "keepalive" \in Kinds /\ args \in Values /\ n \in Names \cup Levels
                BY DEF Kinds, Values
            <3> QED BY <2>a, <3>1, LineMore
        <2>x. /\ SameServers(x, u) /\ x.port = u.port
              /\ x.max_cached = Said(args.max, u.max_cached)
              /\ x.single = Said(args.single, u.single)
              /\ x.reject = Said(args.reject, u.reject)
            BY <2>b DEF BlockOK, SameServers
        <2> HIDE DEF x
        <2>2. /\ DOMAIN upstreams' = DOMAIN upstreams
              /\ \A j \in DOMAIN upstreams :
                    upstreams'[j] = IF j = open THEN x ELSE upstreams[j]
            BY <2>a
        <2>3. \A j \in DOMAIN upstreams : /\ SameServers(upstreams'[j], upstreams[j])
                                          /\ upstreams'[j].port = upstreams[j].port
            BY <2>2, <2>x DEF SameServers
        <2>4. NamesInv'
            <3>1. \A j \in DOMAIN upstreams : /\ upstreams'[j].host = upstreams[j].host
                                              /\ upstreams'[j].port = upstreams[j].port
                BY <2>3 DEF SameServers
            <3>2. /\ \A c : c # n => Lines(c, "keepalive")' = Lines(c, "keepalive")
                  /\ \A c : Lines(c, "upstream")' = Lines(c, "upstream")
                BY <2>1
            <3>3. Lines(n, "upstream") # {}
                BY <2>t, <2>b, <2>n DEF NamesInv
            <3>4. \A c \in Names : Lines(c, "keepalive")' # {} => Lines(c, "upstream") # {}
                BY <2>t, <3>2, <3>3 DEF NamesInv
            <3> QED BY <2>t, <2>b, <2>a, <2>2, <3>1, <3>2, <3>4, NamesKept
        <2>5. ServersInv'
            BY <2>1, <2>2, <2>3, ServersKept DEF BlocksInv
        <2>6. KeepaliveAsWritten'
            <3> SUFFICES ASSUME NEW k \in DOMAIN upstreams', NEW m, m = upstreams'[k].host
                         PROVE  Written(upstreams[k], m)'
                BY DEF KeepaliveAsWritten, Written
            <3>v. PICK v : v = upstreams'[k]
                OBVIOUS
            <3>1. k \in DOMAIN upstreams /\ m = upstreams[k].host /\ Written(upstreams[k], m)
                BY <2>t, <2>2, <2>3, WrittenIs DEF SameServers
            <3>2. CASE k = open
                <4>1. m = n /\ v = x
                    BY <2>2, <2>n, <3>v, <3>1, <3>2
                <4>2. Written(u, n)
                    BY <3>1, <3>2, <4>1
                <4>3. PICK w : w = u
                    OBVIOUS
                <4>4. Written(v, n)'
                    BY <2>a, <2>x, <4>1, <4>2, <4>3, WrittenMore
                <4>5. Written(v, m)'
                    BY <4>1, <4>4
                <4> QED BY <3>v, <4>5
            <3>3. CASE k # open
                <4>1. m # n
                    <5>1. Lines(n, "upstream") # {} /\ upstreams[open].port = 0
                        BY <2>t, <2>b, <2>n DEF NamesInv
                    <5>2. upstreams[k].host = n => upstreams[k].port = 0
                        BY <2>t, <3>1, <5>1 DEF NamesInv
                    <5> QED BY <2>t, <2>b, <2>n, <3>1, <3>3, <5>1, <5>2 DEF UpInv
                <4>2. Lines(m, "keepalive")' = Lines(m, "keepalive")
                    BY <2>1, <4>1
                <4>3. v = upstreams[k]
                    BY <2>2, <3>v, <3>1, <3>3
                <4>4. Written(v, m)
                    BY <3>1, <4>3
                <4>5. \A i \in Lines(m, "keepalive") : file'[i] = file[i]
                    BY <2>1
                <4>6. Written(v, m)'
                    BY <4>2, <4>4, <4>5, WrittenSame
                <4> QED BY <3>v, <4>6
            <3> QED BY <3>2, <3>3
        <2>7. PeersInv'
            BY <2>t, <2>a DEF PeersInv, Accept
        <2> QED BY <2>4, <2>5, <2>6, <2>7 DEF BlocksInv
    <1> QED BY <1>1, <1>2

(* Servers u.servers of the block n, with one more.                         *)
LEMMA ServerAdded ==
    ASSUME NEW n \in Names, NEW u, NEW v, NEW p, NEW h \in DOMAIN Resolve, NEW db \in Databases,
           UpstreamInv, u.host = n, u.servers \in Seq(Servers),
           p \in [DOMAIN u.servers -> Lines(n, "server")], ServerLines(u, p),
           Accept(n, "server", [host |-> h, db |-> db]),
           v.host = n, v.servers = Append(u.servers, [addrs |-> Resolve[h], db |-> db])
    PROVE  \E q : q \in [DOMAIN v.servers -> Lines(n, "server")'] /\ ServerLines(v, q)'
    <1>0. PICK top : top = Len(file) + 1
        OBVIOUS
    <1> DEFINE k == Len(u.servers) + 1
               x == [addrs |-> Resolve[h], db |-> db]
               q == [m \in DOMAIN v.servers |-> IF m = k THEN top ELSE p[m]]
               w == [host |-> h, db |-> db]
    <1>1. /\ Lines(n, "server")' = Lines(n, "server") \cup {top}
          /\ top \in Nat /\ file'[top].value = w
          /\ \A i \in Lines(n, "server") : i \in Nat /\ i < top /\ file'[i] = file[i]
        <2>1. "server" \in Kinds /\ w \in Values /\ n \in Names \cup Levels
            BY DEF Kinds, Values
        <2> HIDE DEF w
        <2>2. /\ Lines(n, "server")' = Lines(n, "server") \cup {Len(file) + 1}
              /\ Len(file) \in Nat /\ file'[Len(file) + 1].value = w
              /\ \A i \in Lines(n, "server") : i \in 1..Len(file) /\ file'[i] = file[i]
            <3>1. Accept(n, "server", w)
                BY DEF w
            <3> QED BY <2>1, <3>1, LineMore
        <2> QED BY <1>0, <2>2
    <1>w. w.host = h /\ w.db = db
        OBVIOUS
    <1>2. /\ DOMAIN v.servers = DOMAIN u.servers \cup {k} /\ DOMAIN u.servers = 1..(k - 1)
          /\ k \in Nat /\ v.servers[k] = x
          /\ \A m \in DOMAIN u.servers : v.servers[m] = u.servers[m] /\ m # k
        <2>1. x \in Servers
            BY DEF Servers
        <2>2. v.servers = Append(u.servers, x)
            OBVIOUS
        <2> HIDE DEF x
        <2>3. PICK s \in Seq(Servers) : s = u.servers
            OBVIOUS
        <2>4. PICK t : t = v.servers
            OBVIOUS
        <2>5. t = Append(s, x)
            BY <2>2, <2>3, <2>4
        <2>6. /\ DOMAIN t = DOMAIN s \cup {Len(s) + 1} /\ DOMAIN s = 1..Len(s)
              /\ Len(s) \in Nat /\ t[Len(s) + 1] = x
              /\ \A m \in DOMAIN s : t[m] = s[m] /\ m # Len(s) + 1
            BY <2>1, <2>5
        <2> QED BY <2>3, <2>4, <2>6
    <1> HIDE DEF k, w
    <1>3. \A m \in DOMAIN u.servers : q[m] = p[m] /\ p[m] \in Lines(n, "server")
        BY <1>2
    <1>4. q[k] = top
        BY <1>2
    <1>5. q \in [DOMAIN v.servers -> Lines(n, "server")']
        BY <1>1, <1>2, <1>3
    <1> HIDE DEF q
    <1>6. ASSUME NEW m \in DOMAIN v.servers
          PROVE  /\ file'[q[m]].value.host \in DOMAIN Resolve
                 /\ v.servers[m] = [addrs |-> Resolve[file'[q[m]].value.host],
                                    db |-> file'[q[m]].value.db]
        <2>1. CASE m = k
            BY <1>1, <1>2, <1>4, <1>w, <2>1
        <2>2. CASE m \in DOMAIN u.servers
            <3>1. file'[q[m]] = file[p[m]]
                BY <1>1, <1>3, <2>2
            <3>2. v.servers[m] = u.servers[m]
                BY <1>2, <2>2
            <3> QED BY <2>2, <3>1, <3>2 DEF ServerLines
        <2> QED BY <1>2, <2>1, <2>2
    <1>7. ASSUME NEW m \in DOMAIN v.servers, NEW l \in DOMAIN v.servers, m < l
          PROVE  q[m] < q[l]
        <2>1. m \in DOMAIN u.servers
            BY <1>2, <1>7
        <2>2. CASE l = k
            BY <1>1, <1>3, <1>4, <2>1, <2>2
        <2>3. CASE l \in DOMAIN u.servers
            BY <1>3, <1>7, <2>1, <2>3 DEF ServerLines
        <2> QED BY <1>2, <2>2, <2>3
    <1>8. ASSUME NEW i \in Lines(n, "server")' PROVE \E m \in DOMAIN v.servers : q[m] = i
        <2>1. CASE i = top
            BY <1>2, <1>4, <2>1
        <2>2. CASE i \in Lines(n, "server")
            BY <1>2, <1>3, <2>2 DEF ServerLines
        <2> QED BY <1>1, <2>1, <2>2
    <1>9. ServerLines(v, q)'
        BY <1>6, <1>7, <1>8 DEF ServerLines
    <1> QED BY <1>5, <1>9

(* postgres_server: a server more in the open block, and in no other.       *)
LEMMA ServerBlocks ==
    ASSUME NEW h \in DOMAIN Resolve, NEW db \in Databases, UpstreamInv, BlocksInv,
           ConfServer(h, db)
    PROVE  BlocksInv'
    <1> DEFINE u == upstreams[open]
               more == Append(u.servers, [addrs |-> Resolve[h], db |-> db])
               x == [u EXCEPT !.servers = more, !.ours = TRUE]
    <1>t. TypeInv /\ UpInv /\ stage = "reading" /\ NamesInv /\ ServersInv
        BY DEF UpstreamInv, BlocksInv, ConfServer, Reading
    <1>b. open \in DOMAIN upstreams /\ BlockOK(u) /\ open # None
        BY OpenBlockOK DEF ConfServer
    <1>n. PICK n \in Names : n = u.host
        BY <1>b DEF BlockOK
    <1>a. /\ Accept(n, "server", [host |-> h, db |-> db]) /\ open' = open
          /\ upstreams' = [upstreams EXCEPT ![open] = x]
        BY <1>n DEF ConfServer
    <1>1. /\ \A c, e : ~(c = n /\ e = "server") => Lines(c, e)' = Lines(c, e)
          /\ \A c, e : \A i \in Lines(c, e) : file'[i] = file[i]
        <2> DEFINE w == [host |-> h, db |-> db]
        <2>1. "server" \in Kinds /\ w \in Values /\ n \in Names \cup Levels
            BY DEF Kinds, Values
        <2>2. Accept(n, "server", w)
            BY <1>a
        <2> HIDE DEF w
        <2> QED BY <2>1, <2>2, LineMore
    <1>x. /\ SameSettings(x, u) /\ x.host = n /\ x.port = u.port
          /\ x.servers = more
        <2> HIDE DEF more
        <2> QED BY <1>b, <1>n DEF BlockOK, SameSettings
    <1> HIDE DEF x
    <1>2. /\ DOMAIN upstreams' = DOMAIN upstreams
          /\ \A j \in DOMAIN upstreams : upstreams'[j] = IF j = open THEN x ELSE upstreams[j]
        BY <1>a
    <1>3. \A j \in DOMAIN upstreams : /\ SameSettings(upstreams'[j], upstreams[j])
                                      /\ upstreams'[j].port = upstreams[j].port
        BY <1>2, <1>x DEF SameSettings
    <1>4. NamesInv'
        <2>1. \A j \in DOMAIN upstreams : /\ upstreams'[j].host = upstreams[j].host
                                          /\ upstreams'[j].port = upstreams[j].port
            BY <1>3 DEF SameSettings
        <2>2. \A c : /\ Lines(c, "keepalive")' = Lines(c, "keepalive")
                     /\ Lines(c, "upstream")' = Lines(c, "upstream")
            BY <1>1
        <2>3. \A c \in Names : Lines(c, "keepalive")' # {} => Lines(c, "upstream") # {}
            BY <1>t, <2>2 DEF NamesInv
        <2> QED BY <1>t, <1>b, <1>a, <1>2, <2>1, <2>2, <2>3, NamesKept
    <1>5. ServersInv'
        <2> SUFFICES ASSUME NEW k \in DOMAIN upstreams', upstreams'[k].ours
                     PROVE  (\E p \in [DOMAIN upstreams[k].servers -> Lines(upstreams[k].host, "server")] :
                               ServerLines(upstreams[k], p))'
            BY DEF ServersInv
        <2>v. PICK v : v = upstreams'[k]
            OBVIOUS
        <2>1. CASE k = open
            <3>1. PICK w : w = u
                OBVIOUS
            <3>2. \E p : p \in [DOMAIN w.servers -> Lines(n, "server")] /\ ServerLines(w, p)
                <4>1. CASE u.ours = TRUE
                    BY <1>t, <1>b, <1>n, <3>1, <4>1 DEF ServersInv
                <4>2. CASE u.ours # TRUE
                    <5>1. w.servers = <<>> /\ w.host = n /\ Lines(n, "server") = {}
                        BY <1>t, <1>b, <1>n, <3>1, <4>2 DEF UpInv
                    <5>2. PICK p : p = [m \in {} |-> 0]
                        OBVIOUS
                    <5>3. DOMAIN w.servers = {} /\ p \in [{} -> Lines(n, "server")]
                        BY <5>1, <5>2
                    <5>4. ServerLines(w, p)
                        BY <5>1, <5>3 DEF ServerLines
                    <5> QED BY <5>3, <5>4
                <4> QED BY <4>1, <4>2
            <3>3. PICK p : p \in [DOMAIN w.servers -> Lines(n, "server")] /\ ServerLines(w, p)
                BY <3>2
            <3>4. w.host = n /\ w.servers \in Seq(Servers)
                BY <1>b, <1>n, <3>1 DEF BlockOK
            <3>5. v.host = n /\ v.servers = Append(w.servers, [addrs |-> Resolve[h], db |-> db])
                BY <1>2, <1>x, <2>1, <2>v, <3>1
            <3>6. PICK q : q \in [DOMAIN v.servers -> Lines(n, "server")'] /\ ServerLines(v, q)'
                BY <1>a, <3>3, <3>4, <3>5, ServerAdded
            <3>7. q \in [DOMAIN v.servers -> Lines(v.host, "server")']
                BY <3>5, <3>6
            <3> QED BY <2>v, <3>6, <3>7
        <2>2. CASE k # open
            <3>1. k \in DOMAIN upstreams /\ v = upstreams[k] /\ v.ours /\ v.host \in Names
                BY <1>t, <1>2, <2>2, <2>v DEF TypeInv, BlockSeq, BlockOK
            <3>2. v.host # n
                <4>1. v.port = 0 /\ upstreams[open].port = 0
                    BY <1>t, <1>b, <3>1 DEF UpInv, TypeInv, BlockSeq, BlockOK
                <4> QED BY <1>t, <1>b, <1>n, <2>2, <3>1, <4>1 DEF UpInv
            <3>3. Lines(v.host, "server")' = Lines(v.host, "server")
                BY <1>1, <3>2
            <3>4. PICK p \in [DOMAIN v.servers -> Lines(v.host, "server")] : ServerLines(v, p)
                BY <1>t, <3>1 DEF ServersInv
            <3>5. \A i \in Lines(v.host, "server") : file'[i] = file[i]
                BY <1>1
            <3>6. p \in [DOMAIN v.servers -> Lines(v.host, "server")'] /\ ServerLines(v, p)'
                BY <3>1, <3>3, <3>4, <3>5, ServerLinesSame
            <3> QED BY <2>v, <3>6
        <2> QED BY <2>1, <2>2
    <1>6. KeepaliveAsWritten'
        BY <1>1, <1>2, <1>3, SettingsKept DEF BlocksInv
    <1>7. PeersInv'
        BY <1>t, <1>a DEF PeersInv, Accept
    <1> QED BY <1>4, <1>5, <1>6, <1>7 DEF BlocksInv

(* The peers are made once, when the whole file was read.                   *)
LEMMA InitBlocks == ASSUME UpstreamInv, BlocksInv, InitUpstreams PROVE BlocksInv'
    <1>1. CASE Refuse
        BY <1>1, BlocksSame DEF Refuse, InitUpstreams
    <1>2. CASE ~Refuse
        <2>1. /\ upstreams' = [k \in DOMAIN upstreams |-> InitUpstream(upstreams[k])]
              /\ open = None /\ UNCHANGED <<file, open>>
            BY <1>2 DEF InitUpstreams
        <2>2. \A c, e : Lines(c, e)' = Lines(c, e)
            BY <2>1, LinesSame
        <2>3. ASSUME NEW u, BlockOK(u)
              PROVE  /\ SameServers(InitUpstream(u), u) /\ SameSettings(InitUpstream(u), u)
                     /\ InitUpstream(u).port = u.port
                     /\ u.ours => InitUpstream(u).peers = PeersOf(u)
            <3>1. CASE u.ours
                <4>1. InitUpstream(u) = [u EXCEPT !.peers = PeersOf(u)]
                    BY <3>1 DEF InitUpstream
                <4> QED BY <2>3, <4>1 DEF BlockOK, SameServers, SameSettings
            <3>2. CASE ~u.ours
                BY <3>2 DEF InitUpstream, SameServers, SameSettings
            <3> QED BY <3>1, <3>2
        <2>4. /\ DOMAIN upstreams' = DOMAIN upstreams
              /\ \A k \in DOMAIN upstreams :
                    /\ SameServers(upstreams'[k], upstreams[k])
                    /\ SameSettings(upstreams'[k], upstreams[k])
                    /\ upstreams'[k].port = upstreams[k].port
                    /\ upstreams[k].ours => upstreams'[k].peers = PeersOf(upstreams[k])
            BY <2>1, <2>3 DEF UpstreamInv, TypeInv, BlockSeq
        <2>5. NamesInv'
            <3>1. \A k \in DOMAIN upstreams : upstreams'[k].host = upstreams[k].host
                BY <2>4 DEF SameServers
            <3> QED BY <2>1, <2>2, <2>4, <3>1 DEF BlocksInv, NamesInv
        <2>6. ServersInv'
            BY <2>1, <2>2, <2>4, ServersKept DEF BlocksInv
        <2>7. KeepaliveAsWritten'
            BY <2>1, <2>2, <2>4, SettingsKept DEF BlocksInv
        <2>8. PeersInv'
            <3>1. \A k \in DOMAIN upstreams : PeersOf(upstreams[k])' = PeersOf(upstreams[k])
                BY <2>4 DEF PeersOf, SameServers
            <3> QED BY <2>4, <3>1 DEF PeersInv, SameServers
        <2> QED BY <2>5, <2>6, <2>7, <2>8 DEF BlocksInv
    <1> QED BY <1>1, <1>2

-----------------------------------------------------------------------------
(* The invariant holds when nothing was read,                               *)
LEMMA BlocksInit == Init => BlocksInv
    <1> SUFFICES ASSUME Init PROVE BlocksInv
        OBVIOUS
    <1>1. (\A c, e : Lines(c, e) = {}) /\ DOMAIN upstreams = {} /\ open = None
          /\ stage = "reading"
        BY DEF Init, Lines
    <1>2. NamesInv /\ ServersInv /\ KeepaliveAsWritten /\ PeersInv
        BY <1>1 DEF NamesInv, ServersInv, KeepaliveAsWritten, PeersInv
    <1> QED BY <1>2 DEF BlocksInv

(* and every step keeps it.                                                 *)
LEMMA BlocksStep == UpstreamInv /\ BlocksInv /\ [Next]_vars => BlocksInv'
    <1> SUFFICES ASSUME UpstreamInv, BlocksInv, [Next]_vars PROVE BlocksInv'
        OBVIOUS
    <1>1. ASSUME NEW n \in Names, OpenBlock(n) \/ OtherPass(n) PROVE BlocksInv'
        BY <1>1, OpenBlocks, OtherBlocks
    <1>2. CASE CloseBlock
        BY <1>2, BlocksSame DEF CloseBlock, Refuse
    <1>3. CASE ForeignServer
        BY <1>3, ForeignBlocks
    <1>4. CASE Malformed
        BY <1>4, BlocksSame DEF Malformed, Refuse
    <1>5. ASSUME NEW h \in DOMAIN Resolve, NEW db \in Databases, ConfServer(h, db)
          PROVE  BlocksInv'
        BY <1>5, ServerBlocks
    <1>6. ASSUME NEW args \in KeepaliveArgs, ConfKeepalive(args) PROVE BlocksInv'
        BY <1>6, KeepaliveBlocks
    <1>7. ASSUME NEW l \in Levels, NEW n \in Names \cup {None}, ConfPass(l, n) PROVE BlocksInv'
        BY <1>7, PassBlocks
    <1>8. CASE InitUpstreams
        BY <1>8, InitBlocks
    <1>9. ASSUME NEW r \in Requests, NEW l \in Levels, HandleName(r, l) PROVE BlocksInv'
        BY <1>9, BlocksSame DEF HandleName
    <1>10. ASSUME NEW r \in Requests, NEW l \in Levels, NEW n \in Names \cup {None},
                  HandleVariable(r, l, n)
           PROVE  BlocksInv'
        BY <1>10, BlocksSame DEF HandleVariable
    <1>11. ASSUME NEW r \in Requests, InitPeer(r) \/ ProcessEvents(r) \/ Finish(r)
           PROVE  BlocksInv'
        BY <1>11, BlocksSame DEF InitPeer, ProcessEvents, Finish
    <1>12. CASE UNCHANGED vars
        BY <1>12, BlocksSame DEF vars
    <1> QED BY <1>1, <1>2, <1>3, <1>4, <1>5, <1>6, <1>7, <1>8, <1>9, <1>10, <1>11, <1>12 DEF Next

(* For every configuration, what is made of the blocks is as the file says: *)
(* their settings, their servers line by line, and their peers.             *)
THEOREM BlocksInvariant == Spec => [](UpstreamInv /\ BlocksInv)
    <1>1. Init => UpstreamInv /\ BlocksInv
        BY UpstreamInit, BlocksInit
    <1>2. UpstreamInv /\ BlocksInv /\ [Next]_vars => (UpstreamInv /\ BlocksInv)'
        BY UpstreamStep, BlocksStep
    <1> QED BY <1>1, <1>2, PTL DEF Spec

(* The type invariant, for every number of requests, names and directives.  *)
THEOREM UpstreamTypes == Spec => []UpstreamTypeOK
    <1>1. UpstreamInv => UpstreamTypeOK
        <2> SUFFICES ASSUME UpstreamInv PROVE UpstreamTypeOK
            OBVIOUS
        <2>t. TypeInv /\ UpInv /\ ReqInv
            BY DEF UpstreamInv
        <2>1. ASSUME NEW k \in DOMAIN upstreams
              PROVE  LET u == upstreams[k]
                     IN  /\ u.host \in Names /\ u.max_cached \in Nat
                         /\ u.single \in BOOLEAN /\ u.reject \in BOOLEAN
                         /\ u.ours = (u.servers # <<>>) /\ ~(u.ours /\ u.foreign)
            <3>1. BlockOK(upstreams[k])
                BY <2>t DEF TypeInv, BlockSeq
            <3>2. /\ upstreams[k].ours = TRUE <=> upstreams[k].servers # <<>>
                  /\ upstreams[k].ours = TRUE => upstreams[k].foreign = FALSE
                BY <2>t, <3>1 DEF UpInv, BlockOK
            <3> QED BY <3>1, <3>2 DEF BlockOK
        <2>2. \A r \in Requests :
                 /\ req[r].phase \in {"idle", "init", "connecting", "querying"}
                 /\ req[r].phase # "idle" => Served(req[r].level)
            BY <2>t DEF TypeInv, RecordOK, ReqInv, Right
        <2> QED BY <2>t, <2>1, <2>2 DEF UpstreamTypeOK, TypeInv
    <1> QED BY <1>1, UpstreamInvariant, PTL

(* The settings of every pool are what the postgres_keepalive directives of *)
(* its block say last, however many ngx_postgres_conf_keepalive accepts.    *)
THEOREM KeepaliveSettings == Spec => []KeepaliveAsWritten
    <1> QED BY BlocksInvariant, PTL DEF BlocksInv

-----------------------------------------------------------------------------
(* The peers of a block *)

(* g[m] is the number of addresses of the first m servers of u.             *)
Counts(u, g) ==
    /\ g \in [0..Len(u.servers) -> Nat] /\ g[0] = 0
    /\ \A m \in 1..Len(u.servers) : g[m] = g[m - 1] + Len(u.servers[m].addrs)

(* The servers of a block and their addresses, which are never none.        *)
LEMMA ServerTypes ==
    ASSUME NEW u, BlockOK(u)
    PROVE  /\ Len(u.servers) \in Nat /\ DOMAIN u.servers = 1..Len(u.servers)
           /\ \A m \in 1..Len(u.servers) :
                 LET a == u.servers[m].addrs
                 IN  Len(a) \in Nat /\ Len(a) # 0 /\ DOMAIN a = 1..Len(a)
    <1>1. u.servers \in Seq(Servers)
        BY DEF BlockOK
    <1>2. Len(u.servers) \in Nat /\ DOMAIN u.servers = 1..Len(u.servers)
          /\ \A m \in 1..Len(u.servers) : u.servers[m] \in Servers
        BY <1>1
    <1>3. \A h \in DOMAIN Resolve : /\ Len(Resolve[h]) \in Nat /\ Len(Resolve[h]) # 0
                                    /\ DOMAIN Resolve[h] = 1..Len(Resolve[h])
        BY UpstreamAssumption
    <1>4. \A x \in Servers : \E h \in DOMAIN Resolve : x.addrs = Resolve[h]
        BY DEF Servers
    <1>5. \A m \in 1..Len(u.servers) : \E h \in DOMAIN Resolve : u.servers[m].addrs = Resolve[h]
        BY <1>2, <1>4
    <1>6. \A m \in 1..Len(u.servers) :
             LET a == u.servers[m].addrs
             IN  Len(a) \in Nat /\ Len(a) # 0 /\ DOMAIN a = 1..Len(a)
        BY <1>3, <1>5
    <1> QED BY <1>2, <1>6

(* Where the peers of each server are: g counts those before them.          *)
LEMMA PeersPlaces ==
    ASSUME NEW u, BlockOK(u), u.servers # <<>>
    PROVE  \E g : /\ Counts(u, g) /\ g[Len(u.servers)] = Len(PeersOf(u))
                  /\ \A m \in 1..Len(u.servers) : \A j \in 1..Len(u.servers[m].addrs) :
                        PeersOf(u)[g[m - 1] + j] = [sockaddr |-> u.servers[m].addrs[j],
                                                    db |-> u.servers[m].db]
    <1> DEFINE n == Len(u.servers)
               a(m) == Len(u.servers[m].addrs)
               peer(m, j) == [sockaddr |-> u.servers[m].addrs[j], db |-> u.servers[m].db]
               S == {peer(m, j) : m \in 1..n, j \in Nat}
               each(m) == [j \in 1..a(m) |-> peer(m, j)]
               s == [m \in 1..n |-> each(m)]
    <1>1. /\ n \in Nat /\ n # 0 /\ DOMAIN u.servers = 1..n
          /\ \A m \in 1..n : a(m) \in Nat /\ DOMAIN u.servers[m].addrs = 1..a(m)
        <2>1. n # 0
            BY DEF BlockOK
        <2> QED BY <2>1, ServerTypes
    <1>2. PeersOf(u) = FlattenSeq(s)
        <2>1. [i \in DOMAIN u.servers |-> [j \in DOMAIN u.servers[i].addrs |->
                 [sockaddr |-> u.servers[i].addrs[j], db |-> u.servers[i].db]]] = s
            BY <1>1
        <2> QED BY <2>1 DEF PeersOf
    <1>3. \A m \in 1..n : \A j \in Nat : peer(m, j) \in S
        OBVIOUS
    <1> HIDE DEF n, a, S, peer
    <1>4. \A m \in 1..n : /\ each(m) \in Seq(S) /\ Len(each(m)) = a(m)
                          /\ \A j \in 1..a(m) : each(m)[j] = peer(m, j)
        BY <1>1, <1>3
    <1> HIDE DEF each
    <1>5. s \in Seq(Seq(S)) /\ Len(s) = n /\ s # <<>>
        <2> DEFINE Q == Seq(S)
        <2>1. \A m \in 1..n : each(m) \in Q
            BY <1>4
        <2> HIDE DEF Q
        <2>2. s \in Seq(Q)
            BY <1>1, <2>1
        <2>3. Len(s) = n
            BY <1>1
        <2> QED BY <1>1, <2>2, <2>3 DEF Q
    <1>6. \A m \in 1..n : Len(s[m]) = a(m) /\ \A j \in 1..a(m) : s[m][j] = peer(m, j)
        BY <1>4
    <1> HIDE DEF s
    <1>7. PICK g \in [0..Len(s) -> Nat] :
             /\ g[0] = 0 /\ g[Len(s)] = Len(FlattenSeq(s))
             /\ \A m \in 1..Len(s) :
                   /\ g[m] = g[m - 1] + Len(s[m])
                   /\ \A j \in 1..Len(s[m]) : FlattenSeq(s)[g[m - 1] + j] = s[m][j]
        BY ZenonT(60), <1>5, FlattenPlaces
    <1>8. /\ g \in [0..n -> Nat] /\ g[0] = 0 /\ g[n] = Len(PeersOf(u))
          /\ \A m \in 1..n :
                /\ g[m] = g[m - 1] + a(m)
                /\ \A j \in 1..a(m) : PeersOf(u)[g[m - 1] + j] = peer(m, j)
        <2>1. Len(s) = n
            BY <1>5
        <2>2. /\ g \in [0..n -> Nat] /\ g[0] = 0 /\ g[n] = Len(PeersOf(u))
              /\ \A m \in 1..n :
                    /\ g[m] = g[m - 1] + Len(s[m])
                    /\ \A j \in 1..Len(s[m]) : PeersOf(u)[g[m - 1] + j] = s[m][j]
            BY <1>2, <1>7, <2>1, Zenon
        <2> QED BY <1>6, <2>2
    <1> QED BY <1>8 DEF Counts, n, a, peer

(* A row of addresses.                                                      *)
LEMMA RowSize ==
    ASSUME NEW x, NEW j \in Nat
    PROVE  IsFiniteSet({x} \X (1..j)) /\ Cardinality({x} \X (1..j)) = j
    <1>1. IsFiniteSet(1..j) /\ Cardinality(1..j) = j
        BY FS_Interval
    <1>2. IsFiniteSet({x}) /\ Cardinality({x}) = 1
        BY FS_Singleton
    <1>3. IsFiniteSet({x} \X (1..j)) /\ Cardinality({x} \X (1..j)) = 1 * j
        BY ZenonT(60), <1>1, <1>2, FS_Product
    <1> QED BY <1>3

(* And this is how many addresses there are in the file up to one of them.  *)
LEMMA UpToPlaces ==
    ASSUME NEW n, NEW u, NEW p, NEW g, UpstreamInv, BlockOK(u), u.host = n,
           p \in [DOMAIN u.servers -> Lines(n, "server")], ServerLines(u, p),
           Counts(u, g)
    PROVE  /\ \A m \in 1..Len(u.servers) : \A j \in 1..Len(u.servers[m].addrs) :
                 Cardinality(UpTo(n, p[m], j)) = g[m - 1] + j
           /\ Cardinality(UpTo(n, Len(file) + 1, 1)) = g[Len(u.servers)]
    <1> DEFINE all == Lines(n, "server") \X UNION {DOMAIN Resolve[h] : h \in DOMAIN Resolve}
               top == Len(u.servers)
               a(m) == Len(u.servers[m].addrs)
               rows(m) == {at \in all : \E q \in 1..m : at[1] = p[q] /\ at[2] \in 1..a(q)}
               row(m, j) == {p[m]} \X (1..j)
    <1>1. /\ top \in Nat /\ DOMAIN u.servers = 1..top
          /\ \A m \in 1..top : a(m) \in Nat
        BY ServerTypes
    <1>2. \A m \in 1..top : /\ p[m] \in Lines(n, "server")
                            /\ file[p[m]].value.host \in DOMAIN Resolve
                            /\ DOMAIN Resolve[file[p[m]].value.host] = 1..a(m)
        <2> TAKE m \in 1..top
        <2>1. /\ file[p[m]].value.host \in DOMAIN Resolve
              /\ u.servers[m].addrs = Resolve[file[p[m]].value.host]
            <3>1. /\ file[p[m]].value.host \in DOMAIN Resolve
                  /\ u.servers[m] = [addrs |-> Resolve[file[p[m]].value.host],
                                     db |-> file[p[m]].value.db]
                BY <1>1 DEF ServerLines
            <3> QED BY <3>1
        <2>2. DOMAIN u.servers[m].addrs = 1..a(m)
            BY ServerTypes
        <2> QED BY <1>1, <2>1, <2>2
    <1>3. /\ \A m, q \in 1..top : m < q => p[m] < p[q]
          /\ \A i \in Lines(n, "server") : \E m \in 1..top : p[m] = i
        BY <1>1 DEF ServerLines
    <1>l. /\ \A i \in Lines(n, "server") : i \in Nat /\ i < Len(file) + 1
        <2>1. file \in Seq(FileLines)
            BY DEF UpstreamInv, TypeInv
        <2> QED BY <2>1 DEF Lines
    <1>4. \A m, q \in 1..top : (p[m] < p[q] <=> m < q) /\ (p[m] = p[q] <=> m = q)
        <2>1. \A m \in 1..top : p[m] \in Nat
            BY <1>2, <1>l
        <2> QED BY <1>3, <2>1
    <1>5. \A m \in 1..top : \A j \in 1..a(m) : <<p[m], j>> \in all
        BY <1>2
    <1>g. /\ g[0] = 0 /\ \A m \in 0..top : g[m] \in Nat
          /\ \A m \in 1..top : g[m] = g[m - 1] + a(m)
        BY DEF Counts
    <1> HIDE DEF top, a
    <1>6. \A x \in all : x = <<x[1], x[2]>> /\ x[1] \in Lines(n, "server")
        OBVIOUS
    <1>7. ASSUME NEW m \in 1..top, NEW j \in 0..a(m)
          PROVE  /\ row(m, j) \subseteq all /\ rows(m - 1) \cap row(m, j) = {}
                 /\ IsFiniteSet(row(m, j)) /\ Cardinality(row(m, j)) = j
        <2>0. a(m) \in Nat /\ j \in Nat
            BY <1>1
        <2>1. IsFiniteSet(row(m, j)) /\ Cardinality(row(m, j)) = j
            BY <2>0, RowSize
        <2>2. \A x \in row(m, j) : x = <<x[1], x[2]>> /\ x[1] = p[m] /\ x[2] \in 1..a(m)
            BY <2>0
        <2> HIDE DEF all
        <2>3. row(m, j) \subseteq all
            BY <1>5, <2>2
        <2>4. ASSUME NEW x \in rows(m - 1), x \in row(m, j) PROVE FALSE
            <3>1. PICK q \in 1..(m - 1) : x[1] = p[q]
                OBVIOUS
            <3>2. q \in 1..top /\ q # m
                BY <1>1
            <3> QED BY <1>4, <2>2, <2>4, <3>1, <3>2
        <2> QED BY <2>1, <2>3, <2>4
    <1> DEFINE P == {m \in Nat : m \in 0..top =>
                        IsFiniteSet(rows(m)) /\ Cardinality(rows(m)) = g[m]}
    <1>8. ASSUME NEW m \in 1..top, NEW j \in 0..a(m),
                 IsFiniteSet(rows(m - 1)), Cardinality(rows(m - 1)) = g[m - 1]
          PROVE  /\ IsFiniteSet(rows(m - 1) \cup row(m, j))
                 /\ Cardinality(rows(m - 1) \cup row(m, j)) = g[m - 1] + j
        <2>1. /\ rows(m - 1) \cap row(m, j) = {} /\ IsFiniteSet(row(m, j))
              /\ Cardinality(row(m, j)) = j /\ j \in Nat /\ g[m - 1] \in Nat
            <3>1. m - 1 \in 0..top /\ j \in Nat
                BY <1>1
            <3>2. /\ rows(m - 1) \cap row(m, j) = {} /\ IsFiniteSet(row(m, j))
                  /\ Cardinality(row(m, j)) = j
                BY <1>7
            <3> QED BY <1>g, <3>1, <3>2
        <2> HIDE DEF rows, row
        <2>2. /\ IsFiniteSet(rows(m - 1) \cup row(m, j))
              /\ Cardinality(rows(m - 1) \cup row(m, j)) =
                    Cardinality(rows(m - 1)) + Cardinality(row(m, j))
                    - Cardinality(rows(m - 1) \cap row(m, j))
            BY <1>8, <2>1, FS_Union
        <2>3. Cardinality(rows(m - 1) \cap row(m, j)) = 0
            BY <2>1, FS_EmptySet
        <2> QED BY <1>8, <2>1, <2>2, <2>3
    <1>9. \A m \in 1..top : rows(m) = rows(m - 1) \cup row(m, a(m))
        <2> TAKE m \in 1..top
        <2>1. ASSUME NEW x \in rows(m) PROVE x \in rows(m - 1) \cup row(m, a(m))
            <3> HIDE DEF all
            <3>1. PICK q \in 1..m : x \in all /\ x[1] = p[q] /\ x[2] \in 1..a(q)
                BY <2>1
            <3>2. CASE q = m
                BY <1>6, <3>1, <3>2
            <3>3. CASE q # m
                <4>1. q \in 1..(m - 1)
                    BY <1>1, <3>3
                <4> QED BY <3>1, <4>1
            <3> QED BY <3>2, <3>3
        <2>2. ASSUME NEW x \in rows(m - 1) PROVE x \in rows(m)
            <3> HIDE DEF all
            <3>1. PICK q \in 1..(m - 1) : x \in all /\ x[1] = p[q] /\ x[2] \in 1..a(q)
                BY <2>2
            <3>2. q \in 1..m
                BY <1>1
            <3> QED BY <3>1, <3>2
        <2>3. ASSUME NEW x \in row(m, a(m)) PROVE x \in rows(m)
            <3>1. a(m) \in 0..a(m) /\ m \in 1..m
                BY <1>1
            <3>2. row(m, a(m)) \subseteq all
                BY <1>7, <3>1
            <3>3. x[1] = p[m] /\ x[2] \in 1..a(m)
                OBVIOUS
            <3> HIDE DEF all, row
            <3> QED BY <2>3, <3>1, <3>2, <3>3
        <2> HIDE DEF rows, row
        <2> QED BY <2>1, <2>2, <2>3
    <1>10. \A m \in 0..top : IsFiniteSet(rows(m)) /\ Cardinality(rows(m)) = g[m]
        <2>1. 0 \in P
            <3>1. rows(0) = {}
                OBVIOUS
            <3> QED BY <1>g, <3>1, FS_EmptySet
        <2>2. ASSUME NEW m \in P PROVE m + 1 \in P
            <3> HIDE DEF rows, row
            <3>m. m \in Nat
                OBVIOUS
            <3>1. CASE m + 1 \in 0..top
                <4>1. m + 1 \in 1..top /\ m \in 0..top /\ (m + 1) - 1 = m
                    BY <1>1, <3>m, <3>1
                <4>2. a(m + 1) \in 0..a(m + 1) /\ g[m + 1] = g[m] + a(m + 1)
                    BY <1>1, <1>g, <4>1
                <4>3. IsFiniteSet(rows((m + 1) - 1)) /\ Cardinality(rows((m + 1) - 1)) = g[(m + 1) - 1]
                    BY <4>1
                <4>4. rows(m + 1) = rows((m + 1) - 1) \cup row(m + 1, a(m + 1))
                    BY <1>9, <4>1
                <4>5. /\ IsFiniteSet(rows(m + 1))
                      /\ Cardinality(rows(m + 1)) = g[(m + 1) - 1] + a(m + 1)
                    BY <1>8, <4>1, <4>2, <4>3, <4>4
                <4> QED BY <3>m, <4>1, <4>2, <4>5
            <3>2. CASE ~(m + 1 \in 0..top)
                BY <3>m, <3>2
            <3> QED BY <3>1, <3>2
        <2> HIDE DEF P
        <2>3. P = Nat
            BY <2>1, <2>2, NatSetInduction DEF P
        <2>4. \A m \in 0..top : m \in P
            BY <1>1, <2>3
        <2> HIDE DEF rows
        <2> QED BY <2>4 DEF P
    <1>11. ASSUME NEW m \in 1..top, NEW j \in 1..a(m)
           PROVE  Cardinality(UpTo(n, p[m], j)) = g[m - 1] + j
        <2>0. a(m) \in Nat /\ j \in Nat /\ j \in 0..a(m) /\ m - 1 \in 0..top
            BY <1>1
        <2>1. ASSUME NEW x \in UpTo(n, p[m], j) PROVE x \in rows(m - 1) \cup row(m, j)
            <3>1. /\ x \in all /\ x[2] \in DOMAIN Resolve[file[x[1]].value.host]
                  /\ x[1] < p[m] \/ (x[1] = p[m] /\ x[2] <= j)
                BY <2>1 DEF UpTo
            <3> HIDE DEF all
            <3>2. PICK q \in 1..top : x[1] = p[q]
                BY <1>3, <1>6, <3>1
            <3>3. x[2] \in 1..a(q)
                BY <1>2, <3>1, <3>2
            <3>4. CASE q < m
                <4>1. q \in 1..(m - 1)
                    BY <3>4, <1>1
                <4> QED BY <3>1, <3>2, <3>3, <4>1
            <3>5. CASE ~(q < m)
                <4>1. x[1] = p[m] /\ x[2] <= j
                    BY <1>4, <3>1, <3>2, <3>5
                <4>2. x[2] \in 1..j
                    BY <1>1, <2>0, <3>3, <4>1
                <4> QED BY <1>6, <3>1, <4>1, <4>2
            <3> QED BY <3>4, <3>5
        <2>2. ASSUME NEW x \in rows(m - 1) PROVE x \in UpTo(n, p[m], j)
            <3>1. PICK q \in 1..(m - 1) : x \in all /\ x[1] = p[q] /\ x[2] \in 1..a(q)
                BY <2>2
            <3>2. q \in 1..top /\ q < m
                BY <1>1
            <3>3. p[q] < p[m] /\ x[2] \in DOMAIN Resolve[file[x[1]].value.host]
                <4>1. p[q] < p[m]
                    BY <1>4, <3>2
                <4>2. DOMAIN Resolve[file[p[q]].value.host] = 1..a(q)
                    BY <1>2, <3>2
                <4> HIDE DEF all
                <4> QED BY <3>1, <4>1, <4>2
            <3> QED BY <3>1, <3>3 DEF UpTo
        <2>3. ASSUME NEW x \in row(m, j) PROVE x \in UpTo(n, p[m], j)
            <3>1. x[1] = p[m] /\ x[2] \in 1..j
                OBVIOUS
            <3>2. x \in all
                BY <1>7, <2>0
            <3>3. x[2] \in 1..a(m) /\ x[2] <= j
                BY <2>0, <3>1
            <3>4. x[2] \in DOMAIN Resolve[file[x[1]].value.host]
                BY <1>2, <3>1, <3>3
            <3> QED BY <3>1, <3>2, <3>3, <3>4 DEF UpTo
        <2> HIDE DEF rows, row
        <2>4. UpTo(n, p[m], j) = rows(m - 1) \cup row(m, j)
            BY <2>1, <2>2, <2>3
        <2>5. IsFiniteSet(rows(m - 1)) /\ Cardinality(rows(m - 1)) = g[m - 1]
            BY <1>10, <2>0
        <2> QED BY <1>8, <2>0, <2>4, <2>5
    <1>12. UpTo(n, Len(file) + 1, 1) = rows(top)
        <2>1. ASSUME NEW x \in UpTo(n, Len(file) + 1, 1) PROVE x \in rows(top)
            <3>1. x \in all /\ x[2] \in DOMAIN Resolve[file[x[1]].value.host]
                BY <2>1 DEF UpTo
            <3> HIDE DEF all
            <3>2. PICK q \in 1..top : x[1] = p[q]
                BY <1>3, <1>6, <3>1
            <3>3. x[2] \in 1..a(q)
                BY <1>2, <3>1, <3>2
            <3> QED BY <3>1, <3>2, <3>3
        <2>2. ASSUME NEW x \in rows(top) PROVE x \in UpTo(n, Len(file) + 1, 1)
            <3>1. PICK q \in 1..top : x \in all /\ x[1] = p[q] /\ x[2] \in 1..a(q)
                BY <2>2
            <3>2. p[q] < Len(file) + 1 /\ x[2] \in DOMAIN Resolve[file[x[1]].value.host]
                BY <1>2, <1>l, <3>1
            <3> QED BY <3>1, <3>2 DEF UpTo
        <2> HIDE DEF rows
        <2> QED BY <2>1, <2>2
    <1>13. Cardinality(UpTo(n, Len(file) + 1, 1)) = g[top]
        <2>1. top \in 0..top
            BY <1>1
        <2> HIDE DEF rows
        <2> QED BY <1>10, <1>12, <2>1
    <1> QED BY <1>11, <1>13 DEF top, a

(* The peers of a block that has a server: it has one at least.             *)
LEMMA SomePeer == ASSUME NEW u, BlockOK(u), u.servers # <<>> PROVE PeersOf(u) # <<>>
    <1>1. PICK g : Counts(u, g) /\ g[Len(u.servers)] = Len(PeersOf(u))
        BY PeersPlaces
    <1>2. /\ Len(u.servers) \in Nat /\ Len(u.servers) # 0
          /\ \A m \in 1..Len(u.servers) : Len(u.servers[m].addrs) \in Nat \ {0}
        <2>1. Len(u.servers) # 0
            BY DEF BlockOK
        <2>2. \A m \in 1..Len(u.servers) : /\ Len(u.servers[m].addrs) \in Nat
                                          /\ Len(u.servers[m].addrs) # 0
            BY ServerTypes
        <2> QED BY <2>1, <2>2, ServerTypes
    <1>3. PICK n \in Nat : n = Len(u.servers)
        BY <1>2
    <1>4. n \in 1..n /\ n - 1 \in 0..n
        BY <1>2, <1>3
    <1>5. Len(u.servers[n].addrs) \in Nat \ {0}
        BY <1>2, <1>3, <1>4
    <1>6. g[n] = g[n - 1] + Len(u.servers[n].addrs) /\ g[n - 1] \in Nat
        BY <1>1, <1>3, <1>4 DEF Counts
    <1>7. g[n] # 0
        BY <1>5, <1>6
    <1> QED BY <1>1, <1>3, <1>7

(* For every configuration, the state machine of a request runs only on a   *)
(* peer of this module, which has at least one address                      *)
(* (ngx_postgres_upstream_is_my_peer, ngx_postgres_upstream_init).          *)
THEOREM OnlyDatabasesAlways == Spec => []OnlyDatabases
    <1>1. UpstreamInv /\ BlocksInv => OnlyDatabases
        <2> SUFFICES ASSUME UpstreamInv, BlocksInv, NEW r \in Requests, req[r].phase = "querying"
                     PROVE  /\ Lines(Meant(r), "server") # {}
                            /\ upstreams[req[r].srv].peers # <<>>
            BY DEF OnlyDatabases
        <2>t. TypeInv /\ UpInv /\ ReqInv /\ PeersInv
            BY DEF UpstreamInv, BlocksInv
        <2>1. Right(r) /\ stage = "serving"
            BY <2>t DEF ReqInv, NewRequest
        <2>2. PICK k \in DOMAIN upstreams : k = req[r].srv
            BY <2>1 DEF Right
        <2>3. BlockOK(upstreams[k]) /\ upstreams[k].ours = TRUE
            BY <2>t, <2>1, <2>2 DEF Right, TypeInv, BlockSeq, BlockOK
        <2>4. upstreams[k].host = Meant(r)
            BY <2>1, <2>2 DEF Right, Meant, MeantAt
        <2>5. PICK n \in Names : n = upstreams[k].host
            BY <2>3 DEF BlockOK
        <2>6. Lines(n, "server") # {} /\ upstreams[k].servers # <<>>
            BY <2>t, <2>3, <2>5 DEF UpInv
        <2>7. upstreams[k].peers = PeersOf(upstreams[k])
            BY <2>t, <2>1, <2>3 DEF PeersInv
        <2>8. PeersOf(upstreams[k]) # <<>>
            BY <2>3, <2>6, SomePeer
        <2> QED BY <2>2, <2>4, <2>5, <2>6, <2>7, <2>8
    <1> QED BY <1>1, BlocksInvariant, PTL

(* The round robin goes over every address of every postgres_server, in the *)
(* order of the file, each with the database of its own line, however many  *)
(* lines and addresses there are (ngx_postgres_upstream_init).              *)
THEOREM PeersInOrder == Spec => []PeersMatchServers
    <1>1. UpstreamInv /\ BlocksInv => PeersMatchServers
        <2> SUFFICES ASSUME UpstreamInv, BlocksInv, stage = "serving",
                            NEW k \in DOMAIN upstreams, upstreams[k].ours
                     PROVE  LET v == upstreams[k]
                                lines == Lines(v.host, "server")
                            IN  /\ \A i \in lines : \A j \in DOMAIN Resolve[file[i].value.host] :
                                      v.peers[Cardinality(UpTo(v.host, i, j))] =
                                         [sockaddr |-> Resolve[file[i].value.host][j],
                                          db |-> file[i].value.db]
                                /\ Len(v.peers) = Cardinality(UpTo(v.host, Len(file) + 1, 1))
            BY DEF PeersMatchServers
        <2>t. TypeInv /\ UpInv /\ PeersInv /\ ServersInv
            BY DEF UpstreamInv, BlocksInv
        <2>1. PICK u : u = upstreams[k]
            OBVIOUS
        <2>2. BlockOK(u)
            BY <2>t, <2>1 DEF TypeInv, BlockSeq
        <2>3. PICK n \in Names : n = u.host
            BY <2>2 DEF BlockOK
        <2>4. u.servers # <<>>
            BY <2>t, <2>1, <2>2, <2>3 DEF UpInv, BlockOK
        <2>5. PICK p \in [DOMAIN u.servers -> Lines(n, "server")] : ServerLines(u, p)
            BY <2>t, <2>1, <2>3 DEF ServersInv
        <2>6. PICK g : /\ Counts(u, g) /\ g[Len(u.servers)] = Len(PeersOf(u))
                       /\ \A m \in 1..Len(u.servers) : \A j \in 1..Len(u.servers[m].addrs) :
                             PeersOf(u)[g[m - 1] + j] = [sockaddr |-> u.servers[m].addrs[j],
                                                         db |-> u.servers[m].db]
            BY <2>2, <2>4, PeersPlaces
        <2>7. /\ \A m \in 1..Len(u.servers) : \A j \in 1..Len(u.servers[m].addrs) :
                    Cardinality(UpTo(n, p[m], j)) = g[m - 1] + j
              /\ Cardinality(UpTo(n, Len(file) + 1, 1)) = g[Len(u.servers)]
            <3>1. u.host = n /\ ServerLines(u, p) /\ Counts(u, g)
                BY <2>3, <2>5, <2>6
            <3>2. p \in [DOMAIN u.servers -> Lines(n, "server")]
                BY <2>5
            <3> QED BY SMTT(60), <2>2, <3>1, <3>2, UpToPlaces
        <2>8. u.peers = PeersOf(u)
            BY <2>t, <2>1 DEF PeersInv
        <2>9. ASSUME NEW i \in Lines(n, "server"), NEW j \in DOMAIN Resolve[file[i].value.host]
              PROVE  u.peers[Cardinality(UpTo(n, i, j))] =
                        [sockaddr |-> Resolve[file[i].value.host][j], db |-> file[i].value.db]
            <3>1. PICK m \in DOMAIN u.servers : p[m] = i
                BY <2>3, <2>5 DEF ServerLines
            <3>2. u.servers[m] = [addrs |-> Resolve[file[i].value.host], db |-> file[i].value.db]
                BY <2>5, <3>1 DEF ServerLines
            <3>3. u.servers[m].addrs = Resolve[file[i].value.host] /\ u.servers[m].db = file[i].value.db
                BY <3>2
            <3>4. m \in 1..Len(u.servers) /\ DOMAIN u.servers[m].addrs = 1..Len(u.servers[m].addrs)
                BY <2>2, <3>1, ServerTypes
            <3>5. j \in 1..Len(u.servers[m].addrs)
                BY <3>3, <3>4
            <3>6. Cardinality(UpTo(n, i, j)) = g[m - 1] + j
                BY <2>7, <3>1, <3>4, <3>5
            <3>7. PeersOf(u)[g[m - 1] + j] = [sockaddr |-> u.servers[m].addrs[j],
                                              db |-> u.servers[m].db]
                BY <2>6, <3>4, <3>5
            <3> QED BY <2>8, <3>3, <3>6, <3>7
        <2>10. Len(u.peers) = Cardinality(UpTo(n, Len(file) + 1, 1))
            BY <2>6, <2>7, <2>8
        <2> QED BY <2>1, <2>3, <2>9, <2>10
    <1> QED BY <1>1, BlocksInvariant, PTL
=============================================================================
