-------------------------- MODULE KeepaliveRefinement --------------------------
(***************************************************************************)
(* The pool of Keepalive implements ConnectionPool, for every instance in  *)
(* which the event module accepts every connection.  In the states that    *)
(* SafeInv describes the user of a connection is determined by what the    *)
(* requests hold; each action then is one of the abstract steps, or none.  *)
(***************************************************************************)
EXTENDS KeepaliveProofs

Uses(r, p) == HoldsDatabase(r) /\ peer[r].pgconn = p
Idle == {item[i].pgconn : i \in Cached}

(* The abstract module has its own name for a standard operator. *)
LEMMA SameCardinality ==
    ASSUME NEW S
    PROVE  Pool!Cardinality(S) = Cardinality(S)
    BY DEF Pool!Cardinality, Cardinality

(* The refinement mapping is what it should be. *)
UserGood ==
    /\ \A p \in PGconns : UserOf(p) \in Requests \cup {None}
    /\ \A r \in Requests, p \in PGconns : UserOf(p) = r <=> Uses(r, p)

LEMMA UserCorrect == SafeInv => UserGood
    <1> SUFFICES ASSUME SafeInv PROVE UserGood
        OBVIOUS
    <1>0. TypeInv /\ ExclusiveUse /\ PeerInv /\ ConnInv
        BY DEF SafeInv
    <1>1. ASSUME NEW r \in Requests, NEW s \in Requests, NEW p \in PGconns,
                 Uses(r, p), Uses(s, p)
          PROVE  r = s
        <2>1. /\ peer[r].connection \in Connections /\ conn[peer[r].connection].fd = p
              /\ peer[s].connection \in Connections /\ conn[peer[s].connection].fd = p
            BY <1>0, <1>1, Typed DEF Uses, HoldsDatabase, Holds, PeerInv
        <2>2. peer[r].connection = peer[s].connection
            BY <1>0, <2>1 DEF ConnInv
        <2> QED BY <1>0, <1>1, <2>2 DEF ExclusiveUse, Uses, HoldsDatabase
    <1>2. ASSUME NEW p \in PGconns
          PROVE  /\ UserOf(p) \in Requests \cup {None}
                 /\ \A r \in Requests : UserOf(p) = r <=> Uses(r, p)
        <2> DEFINE holders == {r \in Requests : Uses(r, p)}
        <2>1. UserOf(p) = IF holders = {} THEN None ELSE CHOOSE r \in holders : TRUE
            BY DEF UserOf, Uses
        <2>2. CASE holders = {}
            BY <2>1, <2>2, NullAssumption
        <2>3. CASE holders # {}
            <3>1. UserOf(p) \in holders
                BY <2>1, <2>3
            <3> QED BY <3>1, <1>1
        <2> QED BY <2>2, <2>3
    <1> QED BY <1>2 DEF UserGood

(* A request that keeps its connection, or its lack of one, uses what it     *)
(* used.                                                                    *)
LEMMA UsesKept ==
    ASSUME NEW r \in Requests,
           peer'[r].connection = peer[r].connection,
           peer'[r].pgconn = peer[r].pgconn,
           Holds(r) => conn'[peer[r].connection].fd = conn[peer[r].connection].fd
    PROVE  \A p \in PGconns : Uses(r, p)' <=> Uses(r, p)
    BY DEF Uses, HoldsDatabase, Holds

LEMMA HeldOpen ==
    ASSUME SafeInv
    PROVE  /\ \A r \in Requests, p \in PGconns : Uses(r, p) => p \in Open \ Idle
           /\ \A r \in Requests, p, q \in PGconns : Uses(r, p) /\ Uses(r, q) => p = q
           /\ Idle \subseteq Open
           /\ \A p \in Open \ Idle : \E r \in Requests : Uses(r, p)
           /\ \A i, j \in Cached : item[i].pgconn = item[j].pgconn => i = j
           /\ Cardinality(Idle) = Len(cache) /\ IsFiniteSet(Idle)
    <1>0. TypeInv /\ ExclusiveUse /\ PeerInv /\ ItemInv /\ ConnInv
        BY DEF SafeInv
    <1>1. ASSUME NEW r \in Requests, NEW p \in PGconns, Uses(r, p)
          PROVE  p \in Open \ Idle
        <2>1. peer[r].connection \in Connections /\ conn[peer[r].connection].fd = p
            BY <1>0, <1>1, Typed DEF Uses, HoldsDatabase, Holds, PeerInv
        <2>2. p \in Open
            BY <1>0, <2>1 DEF ConnInv, Open
        <2>3. ASSUME NEW i \in Cached PROVE item[i].pgconn # p
            BY <1>0, <1>1, <2>1, <2>3 DEF ItemInv, ConnInv, ExclusiveUse, Uses, HoldsDatabase
        <2> QED BY <2>2, <2>3 DEF Idle
    <1>2. Idle \subseteq Open
        BY <1>0 DEF ItemInv, ConnInv, Open, Idle
    <1>3. ASSUME NEW p \in Open \ Idle PROVE \E r \in Requests : Uses(r, p)
        <2>1. PICK c \in Connections : conn[c].fd = p
            BY <1>0 DEF Open, ConnInv
        <2>2. p \in PGconns /\ Owned(c)
            BY <1>0, <2>1, Typed DEF Open, ConnInv
        <2>3. ~ \E i \in Cached : item[i].connection = c
            BY <1>0, <2>1 DEF ItemInv, Idle
        <2>4. PICK r \in Requests : peer[r].connection = c
            BY <2>2, <2>3 DEF Owned
        <2>5. HoldsDatabase(r) /\ peer[r].pgconn = p
            BY <1>0, <2>1, <2>2, <2>4, Typed DEF PeerInv, HoldsDatabase, Holds
        <2> QED BY <2>5 DEF Uses
    <1>4. \A i, j \in Cached : item[i].pgconn = item[j].pgconn => i = j
        BY <1>0 DEF ItemInv, ConnInv, ExclusiveUse
    <1>5. Cardinality(Idle) = Len(cache) /\ IsFiniteSet(Idle)
        BY <1>2, CountCached, OpenFinite, FS_Subset DEF Idle
    <1> QED BY <1>1, <1>2, <1>3, <1>4, <1>5 DEF Uses

(* The cache is as long as there are items exactly when none is free. *)
LEMMA CacheFull ==
    ASSUME SafeInv, worker = "running"
    PROVE  /\ free = <<>> => Cardinality(Idle) = MaxCached
           /\ free # <<>> => Cardinality(Idle) < MaxCached
    <1>0. /\ TypeInv /\ IsInjective(free) /\ Cached \cup Range(free) = Items
          /\ Cached \cap Range(free) = {} /\ cache \in Seq(Items) /\ free \in Seq(Items)
        BY DEF SafeInv, TypeInv, QueuesPartition, KeepaliveTypeOK
    <1>1. IsFiniteSet(Items) /\ Cardinality(Items) = MaxCached
        <2>1. IsFiniteSet(1..MaxCached)
              /\ Cardinality(1..MaxCached) = IF 1 > MaxCached THEN 0 ELSE MaxCached - 1 + 1
            BY PoolAssumption, FS_Interval
        <2> QED BY <2>1, PoolAssumption DEF Items
    <1>2. IsFiniteSet(Cached) /\ Cardinality(Cached) \in Nat
        <2>1. Cached \subseteq Items
            BY <1>0
        <2> QED BY <2>1, <1>1, FS_Subset, FS_CardinalityType
    <1>3. Cardinality(Cached) = Cardinality(Idle)
        <2> DEFINE f == [i \in Cached |-> item[i].pgconn]
        <2>1. f \in [Cached -> Idle]
            BY DEF Idle
        <2>2. \A i, j \in Cached : f[i] = f[j] => i = j
            BY HeldOpen
        <2>3. \A p \in Idle : \E i \in Cached : f[i] = p
            BY DEF Idle
        <2> HIDE DEF f
        <2>4. f \in Bijection(Cached, Idle)
            BY <2>1, <2>2, <2>3 DEF Bijection, Injection, Surjection, IsInjective
        <2> QED BY <2>4, <1>2, FS_Bijection DEF ExistsBijection
    <1>4. CASE free = <<>>
        <2>1. Range(free) = {}
            BY <1>0, <1>4, EmptyFacts
        <2>2. Cached = Items
            BY <1>0, <2>1
        <2> QED BY <1>1, <1>3, <1>4, <2>2
    <1>5. CASE free # <<>>
        <2>1. free[1] \in Range(free)
            BY <1>0, <1>5, TailFacts
        <2>2. Cached \subseteq Items /\ Cached # Items
            BY <1>0, <2>1
        <2>3. Cardinality(Cached) <= Cardinality(Items)
              /\ (Cardinality(Items) = Cardinality(Cached) => Items = Cached)
            BY <1>1, <2>2, FS_Subset
        <2> QED BY <1>1, <1>2, <1>3, <1>5, <2>2, <2>3, PoolAssumption
    <1> QED BY <1>4, <1>5

-----------------------------------------------------------------------------
(* What a step does to the users and to the idle connections, and the       *)
(* abstract step that it is.                                                *)

(* The abstract connections in existence are the open ones. *)
LEMMA LiveOpen ==
    ASSUME SafeInv, UserGood
    PROVE  Pool!Live = Open
    <1>1. Pool!InUse = {p \in PGconns : UserOf(p) # None}
        BY DEF Pool!InUse
    <1>2. \A p \in PGconns : UserOf(p) # None <=> \E r \in Requests : Uses(r, p)
        BY NullAssumption DEF UserGood
    <1>3. Pool!Live = Idle \cup {p \in PGconns : UserOf(p) # None}
        BY <1>1 DEF Pool!Live, Idle
    <1> QED BY <1>2, <1>3, HeldOpen DEF Open

LEMMA RefStutter ==
    ASSUME UserGood, UserGood', Idle' = Idle, dialled' = dialled,
           \A s \in Requests, q \in PGconns : Uses(s, q)' <=> Uses(s, q)
    PROVE  UNCHANGED Pool!vars
    <1>1. \A q \in PGconns : UserOf(q)' = UserOf(q)
        BY NullAssumption DEF UserGood
    <1>2. [q \in PGconns |-> UserOf(q)]' = [q \in PGconns |-> UserOf(q)]
        BY <1>1
    <1> QED BY <1>2 DEF Pool!vars, Idle

(* The user of p becomes u, and nobody else's connection changes. *)
LEMMA UserChange ==
    ASSUME UserGood, UserGood', NEW p \in PGconns, NEW u \in Requests \cup {None},
           \A s \in Requests, q \in PGconns : q # p => (Uses(s, q)' <=> Uses(s, q)),
           \A s \in Requests : Uses(s, p)' <=> s = u
    PROVE  [q \in PGconns |-> UserOf(q)]' = [[q \in PGconns |-> UserOf(q)] EXCEPT ![p] = u]
    <1>1. \A q \in PGconns : q # p => UserOf(q)' = UserOf(q)
        BY NullAssumption DEF UserGood
    <1>2. UserOf(p)' = u
        BY NullAssumption DEF UserGood
    <1> QED BY <1>1, <1>2

LEMMA RefOpen ==
    ASSUME SafeInv, UserGood, UserGood', Idle' = Idle,
           NEW r \in Requests, NEW p \in PGconns \ Open, NEW k \in Peers,
           \A q \in PGconns : ~Uses(r, q),
           dialled \in [PGconns -> Peers \cup {None}], dialled' = [dialled EXCEPT ![p] = k],
           \A s \in Requests \ {r}, q \in PGconns : Uses(s, q)' <=> Uses(s, q),
           \A q \in PGconns : Uses(r, q)' <=> q = p,
           Reject => Cardinality(Open) < MaxCached
    PROVE  Pool!Next
    <1>1. \A s \in Requests : ~Uses(s, p)
        BY HeldOpen
    <1>2. [q \in PGconns |-> UserOf(q)]' = [[q \in PGconns |-> UserOf(q)] EXCEPT ![p] = r]
        BY <1>1, UserChange
    <1>3. [q \in PGconns |-> IF dialled[q] = None THEN None ELSE Addr[dialled[q]]]'
          = [[q \in PGconns |-> IF dialled[q] = None THEN None ELSE Addr[dialled[q]]]
                EXCEPT ![p] = Addr[k]]
        BY NullAssumption
    <1>4. Pool!HasNone(r)
        BY DEF Pool!HasNone, UserGood
    <1>5. Pool!Live = Open
        BY LiveOpen
    <1>6. Pool!Open(r, p, Addr[k])
        BY <1>2, <1>3, <1>4, <1>5, SameCardinality, HeldOpen DEF Pool!Open, Idle
    <1>7. Addr[k] \in Addrs
        BY DEF Addrs
    <1> QED BY <1>6, <1>7 DEF Pool!Next

LEMMA RefReuse ==
    ASSUME SafeInv, UserGood, UserGood', NEW r \in Requests, NEW p \in Idle,
           Idle' = Idle \ {p}, dialled' = dialled,
           \A q \in PGconns : ~Uses(r, q),
           \A s \in Requests \ {r}, q \in PGconns : Uses(s, q)' <=> Uses(s, q),
           \A q \in PGconns : Uses(r, q)' <=> q = p
    PROVE  Pool!Next
    <1>1. p \in PGconns /\ \A s \in Requests : ~Uses(s, p)
        BY HeldOpen DEF Open
    <1>2. [q \in PGconns |-> UserOf(q)]' = [[q \in PGconns |-> UserOf(q)] EXCEPT ![p] = r]
        BY <1>1, UserChange
    <1>3. Pool!HasNone(r)
        BY DEF Pool!HasNone, UserGood
    <1>4. Pool!Reuse(r, p)
        BY <1>2, <1>3 DEF Pool!Reuse, Idle
    <1> QED BY <1>1, <1>4 DEF Pool!Next

(* A request gives its connection up, or had none. *)
LEMMA UserGone ==
    ASSUME SafeInv, UserGood, UserGood', NEW r \in Requests, NEW p \in PGconns, Uses(r, p),
           \A s \in Requests \ {r}, q \in PGconns : Uses(s, q)' <=> Uses(s, q),
           \A q \in PGconns : ~Uses(r, q)'
    PROVE  /\ [q \in PGconns |-> UserOf(q)]' = [[q \in PGconns |-> UserOf(q)] EXCEPT ![p] = None]
           /\ p \in Pool!InUse
    <1>1. \A s \in Requests : Uses(s, p) => s = r
        BY NullAssumption DEF UserGood
    <1>2. \A q \in PGconns : Uses(r, q) => q = p
        BY HeldOpen
    <1>3. p \in Pool!InUse
        BY NullAssumption DEF Pool!InUse, UserGood
    <1> QED BY <1>1, <1>2, <1>3, UserChange, NullAssumption

LEMMA RefKeep ==
    ASSUME SafeInv, UserGood, UserGood', NEW r \in Requests, NEW p \in PGconns, Uses(r, p),
           \A s \in Requests \ {r}, q \in PGconns : Uses(s, q)' <=> Uses(s, q),
           \A q \in PGconns : ~Uses(r, q)',
           Idle' = Idle \cup {p}, dialled' = dialled, Cardinality(Idle) < MaxCached
    PROVE  Pool!Next
    <1>1. Pool!Keep(p)
        BY UserGone, SameCardinality DEF Pool!Keep, Idle
    <1> QED BY <1>1 DEF Pool!Next

LEMMA RefKeepInsteadOf ==
    ASSUME SafeInv, UserGood, UserGood', NEW r \in Requests, NEW p \in PGconns, Uses(r, p),
           \A s \in Requests \ {r}, q \in PGconns : Uses(s, q)' <=> Uses(s, q),
           \A q \in PGconns : ~Uses(r, q)',
           NEW v \in Idle, Idle' = (Idle \ {v}) \cup {p},
           \A q \in PGconns : dialled'[q] = IF q = v THEN None ELSE dialled[q],
           Cardinality(Idle) = MaxCached, ~Reject
    PROVE  Pool!Next
    <1>1. [q \in PGconns |-> IF dialled[q] = None THEN None ELSE Addr[dialled[q]]]'
          = [[q \in PGconns |-> IF dialled[q] = None THEN None ELSE Addr[dialled[q]]]
                EXCEPT ![v] = None]
        OBVIOUS
    <1>2. v \in PGconns
        BY HeldOpen DEF Open
    <1>3. Pool!KeepInsteadOf(p, v)
        BY UserGone, SameCardinality, <1>1 DEF Pool!KeepInsteadOf, Idle
    <1> QED BY <1>2, <1>3 DEF Pool!Next

LEMMA RefClose ==
    ASSUME SafeInv, UserGood, UserGood', NEW r \in Requests, NEW p \in PGconns, Uses(r, p),
           \A s \in Requests \ {r}, q \in PGconns : Uses(s, q)' <=> Uses(s, q),
           \A q \in PGconns : ~Uses(r, q)',
           Idle' = Idle,
           \A q \in PGconns : dialled'[q] = IF q = p THEN None ELSE dialled[q]
    PROVE  Pool!Next
    <1>1. [q \in PGconns |-> IF dialled[q] = None THEN None ELSE Addr[dialled[q]]]'
          = [[q \in PGconns |-> IF dialled[q] = None THEN None ELSE Addr[dialled[q]]]
                EXCEPT ![p] = None]
        OBVIOUS
    <1>2. Idle = Idle \ {p}
        BY HeldOpen
    <1>3. Pool!Close(p)
        BY UserGone, <1>1, <1>2 DEF Pool!Close, Pool!Live, Idle
    <1> QED BY <1>3 DEF Pool!Next

LEMMA RefCloseIdle ==
    ASSUME SafeInv, UserGood, UserGood', NEW p \in Idle, Idle' = Idle \ {p},
           \A s \in Requests, q \in PGconns : Uses(s, q)' <=> Uses(s, q),
           \A q \in PGconns : dialled'[q] = IF q = p THEN None ELSE dialled[q]
    PROVE  Pool!Next
    <1>1. p \in PGconns /\ \A s \in Requests : ~Uses(s, p)
        BY HeldOpen DEF Open
    <1>2. [q \in PGconns |-> IF dialled[q] = None THEN None ELSE Addr[dialled[q]]]'
          = [[q \in PGconns |-> IF dialled[q] = None THEN None ELSE Addr[dialled[q]]]
                EXCEPT ![p] = None]
        OBVIOUS
    <1>3. [q \in PGconns |-> UserOf(q)]' = [[q \in PGconns |-> UserOf(q)] EXCEPT ![p] = None]
        BY <1>1, UserChange, NullAssumption
    <1>4. Pool!Close(p)
        BY <1>2, <1>3 DEF Pool!Close, Pool!Live, Idle
    <1> QED BY <1>1, <1>4 DEF Pool!Next

-----------------------------------------------------------------------------
(* The actions *)

(* The requests other than r keep what they have: neither their peer nor    *)
(* the socket of their connection changes.                                  *)
LEMMA OthersKeep ==
    ASSUME NEW r \in Requests, \A s \in Requests \ {r} : peer'[s] = peer[s],
           \A s \in Requests \ {r} : Holds(s) =>
              conn'[peer[s].connection].fd = conn[peer[s].connection].fd
    PROVE  \A s \in Requests \ {r}, q \in PGconns : Uses(s, q)' <=> Uses(s, q)
    BY UsesKept

(* A new connection of a request that had none, and the placeholder.  A     *)
(* request in get_peer holds nothing.                                       *)
LEMMA MissesStep ==
    ASSUME SafeInv, UserGood, UserGood', RejectBound, "ngx_add_event" \notin MayFail,
           NEW r \in Requests,
           RejectPeer(r) \/ ConnectNoMemory(r) \/ ConnectDeclined(r)
           \/ ConnectInvalid(r) \/ ConnectBadAdd(r) \/ ConnectPeer(r)
    PROVE  Pool!Next \/ UNCHANGED Pool!vars
    <1>0. /\ TypeInv /\ ExclusiveUse /\ PeerInv /\ ConnInv /\ SpotAccounting
          /\ dialled \in [PGconns -> Peers \cup {None}] /\ Chosen \in Peers
          /\ conn \in [Connections -> ConnRecords]
        BY ChosenRange DEF SafeInv, TypeInv, KeepaliveTypeOK
    <1>1. MissesCache(r)
        BY DEF RejectPeer, ConnectNoMemory, ConnectDeclined, ConnectInvalid, ConnectBadAdd,
               ConnectPeer
    <1>2. ~Holds(r) /\ Idle' = Idle /\ worker = "running" /\ max_cached = MaxCached
        BY <1>0, <1>1 DEF MissesCache, GetPeer, PeerInv, Holds, Idle, Cached, TypeInv
    <1>3. \A q \in PGconns : ~Uses(r, q)
        BY <1>2 DEF Uses, HoldsDatabase
    <1>4. \A c \in GetConnection : c = None \/ (c \in Connections /\ conn[c].fd = None)
        BY DEF GetConnection
    <1>5. ASSUME NEW c \in Connections, conn[c].fd = None,
                 \A d \in Connections \ {c} : conn'[d] = conn[d]
          PROVE  \A s \in Requests : Holds(s) =>
                    conn'[peer[s].connection].fd = conn[peer[s].connection].fd
        BY <1>0, <1>5, Typed DEF PeerInv, Holds
    <1>6. CASE RejectPeer(r)
        <2>1. PICK c \in GetConnection :
                 /\ conn' = IF c = None THEN conn
                            ELSE [conn EXCEPT ![c] = [FreeConn EXCEPT !.fd = ZeroFd]]
                 /\ Leave(r, c, None, "again")
            BY <1>6 DEF RejectPeer
        <2>2. TypeInv /\ Leave(r, c, None, "again")
            BY <2>1, <1>0
        <2>3. Others(r) /\ peer'[r].pgconn = None
            BY <2>2, LeaveFacts
        <2>4. \A s \in Requests \ {r} : Holds(s) =>
                 conn'[peer[s].connection].fd = conn[peer[s].connection].fd
            BY <1>0, <1>4, <1>5, <2>1
        <2>5. \A s \in Requests \ {r}, q \in PGconns : Uses(s, q)' <=> Uses(s, q)
            BY <2>3, <2>4, OthersKeep DEF Others
        <2>6. \A q \in PGconns : ~Uses(r, q)'
            BY <2>3, NullAssumption DEF Uses
        <2>7. dialled' = dialled
            BY <1>6 DEF RejectPeer
        <2> QED BY <1>2, <1>3, <2>5, <2>6, <2>7, RefStutter
    <1>7. CASE ConnectNoMemory(r) \/ ConnectDeclined(r) \/ ConnectInvalid(r)
        <2>1. /\ UNCHANGED <<conn, dialled>>
              /\ \E p, rc : Leave(r, None, p, rc)
            BY <1>7 DEF ConnectNoMemory, ConnectDeclined, ConnectInvalid
        <2>2. PICK p, rc : Leave(r, None, p, rc)
            BY <2>1
        <2>3. Others(r) /\ peer'[r].connection = None
            BY <2>2, <1>0, LeaveFacts
        <2>4. \A s \in Requests \ {r}, q \in PGconns : Uses(s, q)' <=> Uses(s, q)
            BY <2>1, <2>3, OthersKeep DEF Others
        <2>5. \A q \in PGconns : ~Uses(r, q)'
            BY <2>3 DEF Uses, HoldsDatabase, Holds
        <2> QED BY <1>2, <1>3, <2>1, <2>4, <2>5, RefStutter
    <1>8. CASE ConnectPeer(r)
        <2>1. PICK p \in PGconns \ Open, c \in GetConnection \ {None} :
                 /\ dialled' = [dialled EXCEPT ![p] = Chosen]
                 /\ conn' = [conn EXCEPT ![c] = [FreeConn EXCEPT !.fd = p]]
                 /\ Leave(r, c, p, "again")
            BY <1>8 DEF ConnectPeer
        <2>2. TypeInv /\ Leave(r, c, p, "again")
            BY <2>1, <1>0
        <2>3. Others(r) /\ peer'[r].pgconn = p /\ peer'[r].connection = c
            BY <2>2, LeaveFacts
        <2>4. c \in Connections /\ c # None /\ conn[c].fd = None
            BY <1>4
        <2>5. conn'[c].fd = p /\ \A d \in Connections \ {c} : conn'[d] = conn[d]
            BY <1>0, <2>1, <2>4 DEF FreeConn
        <2>6. \A s \in Requests \ {r}, q \in PGconns : Uses(s, q)' <=> Uses(s, q)
            <3>1. \A s \in Requests \ {r} : Holds(s) =>
                     conn'[peer[s].connection].fd = conn[peer[s].connection].fd
                BY <1>5, <2>4, <2>5
            <3> QED BY <2>3, <3>1, OthersKeep DEF Others
        <2>7. \A q \in PGconns : Uses(r, q)' <=> q = p
            BY <2>3, <2>4, <2>5, NullAssumption DEF Uses, HoldsDatabase, Holds
        <2>8. Reject => Cardinality(Open) < MaxCached
            BY <1>0, <1>2, <1>8, OpenFinite, PoolAssumption
               DEF ConnectPeer, Full, SpotAccounting
        <2> QED BY <1>0, <1>2, <1>3, <2>1, <2>6, <2>7, <2>8, RefOpen
    <1>9. CASE ConnectBadAdd(r)
        BY <1>9 DEF ConnectBadAdd
    <1> QED BY <1>6, <1>7, <1>8, <1>9

(* A cached connection changes hands. *)
LEMMA ReuseStep ==
    ASSUME SafeInv, UserGood, UserGood', NEW r \in Requests, NEW k \in DOMAIN cache,
           phase[r] = "new", worker = "running", Reuse(r, k, item[cache[k]].sockaddr)
    PROVE  Pool!Next
    <1> DEFINE i == cache[k]
               p == item[i].pgconn
    <1>0. /\ TypeInv /\ PeerInv /\ ItemInv /\ ExclusiveUse
          /\ peer \in [Requests -> PeerRecords] /\ conn \in [Connections -> ConnRecords]
        BY DEF SafeInv, TypeInv, KeepaliveTypeOK
    <1>1. i \in Cached /\ QueueInv
        BY <1>0 DEF Cached, Range, QueueInv, TypeInv, KeepaliveTypeOK
    <1>2. Cached' = Cached \ {i} /\ item' = item /\ dialled' = dialled
        BY <1>1, TakeItem DEF Reuse
    <1>3. ~Holds(r)
        BY <1>0 DEF PeerInv
    <1>4. Idle' = Idle \ {p} /\ p \in Idle
        BY <1>1, <1>2, HeldOpen DEF Idle
    <1>5. /\ \A s \in Requests \ {r} : peer'[s] = peer[s]
          /\ peer'[r].connection = item[i].connection /\ peer'[r].pgconn = p
        <2>1. peer[r] \in PeerRecords
            BY <1>0
        <2> QED BY <1>0, <2>1 DEF Reuse, Taken, PeerRecords
    <1>6. item[i].connection \in Connections /\ p \in PGconns
          /\ conn[item[i].connection].fd = p
        BY <1>0, <1>1 DEF ItemInv
    <1>7. \A d \in Connections : conn'[d].fd = conn[d].fd
        <2>1. conn' = [conn EXCEPT ![item[i].connection].idle = FALSE]
            BY DEF Reuse
        <2>2. \A d \in Connections : conn[d] \in ConnRecords
            BY <1>0
        <2> QED BY <1>0, <2>1, <2>2 DEF ConnRecords
    <1> HIDE DEF i, p
    <1>8. \A s \in Requests \ {r}, q \in PGconns : Uses(s, q)' <=> Uses(s, q)
        <2>1. \A s \in Requests \ {r} : Holds(s) =>
                 conn'[peer[s].connection].fd = conn[peer[s].connection].fd
            BY <1>0, <1>7, Typed DEF Holds
        <2> QED BY <1>5, <2>1, OthersKeep
    <1>9. \A q \in PGconns : Uses(r, q)' <=> q = p
        BY <1>5, <1>6, <1>7, NullAssumption DEF Uses, HoldsDatabase, Holds
    <1>10. \A q \in PGconns : ~Uses(r, q)
        BY <1>3 DEF Uses, HoldsDatabase
    <1> QED BY <1>2, <1>4, <1>8, <1>9, <1>10, RefReuse

(* The connection of a request goes to the cache or is closed.  With        *)
(* overflow=reject none is ever evicted: with all items in the cache and    *)
(* one connection in use there would be more than max.                      *)
LEMMA FreePeerStep ==
    ASSUME SafeInv, UserGood, UserGood', RejectBound, TypeInv',
           NEW r \in Requests, NEW failed \in BOOLEAN, NEW ok \in BOOLEAN,
           FreePeer(r, failed, ok), ~HoldsPlaceholder(r)
    PROVE  Pool!Next \/ UNCHANGED Pool!vars
    <1> DEFINE c == peer[r].connection
               p == peer[r].pgconn
    <1>0. /\ TypeInv /\ ExclusiveUse /\ PeerInv /\ ItemInv /\ ConnInv
          /\ conn \in [Connections -> ConnRecords] /\ peer \in [Requests -> PeerRecords]
          /\ dialled \in [PGconns -> Peers \cup {None}] /\ cache \in Seq(Items)
          /\ item \in [Items -> ItemRecords]
          /\ c \in Connections \cup {None} /\ worker = "running"
          /\ peer[r] \in PeerRecords
        BY Typed DEF SafeInv, TypeInv, KeepaliveTypeOK, FreePeer
    <1>1. c # None => /\ c \in Connections /\ p \in PGconns /\ Uses(r, p)
                      /\ conn[c].fd = p
        <2>1. c # None => HoldsDatabase(r)
            BY DEF HoldsDatabase, HoldsPlaceholder, Holds
        <2> QED BY <1>0, <2>1, Typed DEF PeerInv, ConnInv, Uses, HoldsDatabase, HoldsPlaceholder, Holds
    <1>2. \A s \in Requests \ {r} : Holds(s) =>
             peer[s].connection \in Connections /\ peer[s].connection # c
        BY <1>0, Typed DEF ExclusiveUse, Holds
    <1>3. CASE SavePeer(r, failed, ok)
        <2> DEFINE evict == free = <<>>
                   i == IF evict THEN cache[Len(cache)] ELSE free[1]
        <2>1. QueueInv /\ MaxCached > 0
            BY <1>0, <1>3, PoolAssumption DEF QueueInv, TypeInv, KeepaliveTypeOK, SavePeer
        <2>2. /\ i \in Items /\ Cached' = Cached \cup {i} /\ (i \in Cached <=> evict)
            <3>1. CASE evict
                <4>1. cache # <<>>
                    BY <1>0, <2>1, <3>1, NoneFree
                <4>2. free' = free /\ worker' = worker
                      /\ cache' = InsertHead(RemoveIndex(cache, Len(cache)), cache[Len(cache)])
                    BY <1>3, <3>1 DEF SavePeer, FreePeer
                <4>3. cache[Len(cache)] \in Cached /\ Cached' = Cached
                    BY <2>1, <4>1, <4>2, RotateItem
                <4> QED BY <3>1, <4>3, <1>0, Typed
            <3>2. CASE ~evict
                BY <1>3, <2>1, <3>2, PutItem DEF SavePeer, FreePeer
            <3> QED BY <3>1, <3>2
        <2>3. c # None
            BY <1>3 DEF SavePeer
        <2>4. /\ conn' = [(IF evict THEN FreeConnection(conn, item[i].connection)
                           ELSE conn) EXCEPT ![c] = Parked(@, i)]
              /\ dialled' = IF evict THEN Finish(dialled, item[i].pgconn) ELSE dialled
              /\ item' = [item EXCEPT ![i] = [connection |-> c, pgconn |-> p,
                                              sockaddr |-> peer[r].sockaddr]]
              /\ peer' = [peer EXCEPT ![r] = Detached(@)]
            BY <1>3 DEF SavePeer
        <2> HIDE DEF i
        <2>5. /\ peer'[r].connection = None
              /\ \A s \in Requests \ {r} : peer'[s] = peer[s]
            BY <1>0, <2>4 DEF Detached, PeerRecords
        <2>6. evict => /\ item[i].connection \in Connections /\ item[i].connection # None
                       /\ item[i].pgconn \in Idle /\ item[i].pgconn # None
                       /\ item[i].pgconn \in PGconns
                       /\ \A s \in Requests : Holds(s) => peer[s].connection # item[i].connection
            BY <1>0, <2>2, NullAssumption DEF ItemInv, ExclusiveUse, Idle
        <2>7. \A s \in Requests \ {r} : Holds(s) =>
                 conn'[peer[s].connection].fd = conn[peer[s].connection].fd
            BY <1>0, <1>2, <2>4, <2>6 DEF FreeConnection
        <2>8. \A s \in Requests \ {r}, q \in PGconns : Uses(s, q)' <=> Uses(s, q)
            BY <2>5, <2>7, OthersKeep
        <2>9. \A q \in PGconns : ~Uses(r, q)'
            BY <2>5 DEF Uses, HoldsDatabase, Holds
        <2>10. item'[i].pgconn = p /\ \A j \in Items \ {i} : item'[j] = item[j]
            BY <1>0, <2>2, <2>4
        <2>11. \A j \in Cached : j \in Items
            BY <1>0, Typed
        <2>12. CASE evict
            <3>1. Idle' = (Idle \ {item[i].pgconn}) \cup {p}
                <4>1. Cached' = Cached /\ i \in Cached
                    BY <2>2, <2>12
                <4>2. \A j \in Cached \ {i} : item[j].pgconn # item[i].pgconn
                    BY <4>1, HeldOpen
                <4>3. Idle' = {item'[j].pgconn : j \in Cached}
                    BY <4>1 DEF Idle
                <4> QED BY <2>10, <2>11, <4>1, <4>2, <4>3 DEF Idle
            <3>2. \A q \in PGconns :
                     dialled'[q] = IF q = item[i].pgconn THEN None ELSE dialled[q]
                BY <1>0, <2>4, <2>6, <2>12 DEF Finish
            <3>3. Cardinality(Idle) = MaxCached
                BY <1>0, <2>12, CacheFull
            <3>4. ~Reject
                <4>1. p \in Open \ Idle /\ Idle \subseteq Open /\ IsFiniteSet(Idle)
                    BY <1>1, <2>3, HeldOpen
                <4>2. Cardinality(Idle \cup {p}) = MaxCached + 1
                    BY <3>3, <4>1, FS_AddElement
                <4>3. Cardinality(Idle \cup {p}) <= Cardinality(Open)
                    BY <4>1, OpenFinite, FS_Subset
                <4> QED BY <4>2, <4>3, OpenFinite, PoolAssumption DEF RejectBound
            <3> QED BY <1>1, <2>3, <2>6, <2>8, <2>9, <2>12, <3>1, <3>2, <3>3, <3>4,
                       RefKeepInsteadOf
        <2>13. CASE ~evict
            <3>1. Idle' = Idle \cup {p}
                <4>1. Cached' = Cached \cup {i} /\ i \notin Cached
                    BY <2>2, <2>13
                <4>2. Idle' = {item'[j].pgconn : j \in Cached \cup {i}}
                    BY <4>1 DEF Idle
                <4> QED BY <2>10, <2>11, <4>1, <4>2 DEF Idle
            <3>2. Cardinality(Idle) < MaxCached
                BY <1>0, <2>13, CacheFull
            <3>3. dialled' = dialled
                BY <2>4, <2>13
            <3> QED BY <1>1, <2>3, <2>8, <2>9, <3>1, <3>2, <3>3, RefKeep
        <2> QED BY <2>12, <2>13
    <1>4. CASE ClosePeer(r, failed, ok)
        <2>1. Idle' = Idle
            BY <1>4 DEF ClosePeer, Idle, Cached
        <2>2. CASE c = None
            <3>1. /\ UNCHANGED <<conn, dialled>>
                  /\ \A s \in Requests \ {r} : peer'[s] = peer[s]
                  /\ peer'[r].connection = None
                BY <1>0, <1>4, <2>2 DEF ClosePeer, PeerRecords
            <3>2. \A s \in Requests \ {r}, q \in PGconns : Uses(s, q)' <=> Uses(s, q)
                BY <3>1, OthersKeep
            <3>3. \A q \in PGconns : ~Uses(r, q)' /\ ~Uses(r, q)
                BY <2>2, <3>1 DEF Uses, HoldsDatabase, Holds
            <3> QED BY <2>1, <3>1, <3>2, <3>3, RefStutter
        <2>3. CASE c # None
            <3>1. /\ conn' = [conn EXCEPT ![c] = FreeConn]
                  /\ dialled' = Finish(dialled, p)
                  /\ peer' = [peer EXCEPT ![r] =
                                 [@ EXCEPT !.connection = None, !.pgconn = None,
                                           !.failed = peer[r].failed \/ (failed /\ max_cached > 0)]]
                BY <1>4, <2>3 DEF ClosePeer, FreeConnection
            <3>2. /\ \A s \in Requests \ {r} : peer'[s] = peer[s]
                  /\ peer'[r].connection = None
                BY <1>0, <3>1 DEF PeerRecords
            <3>3. \A s \in Requests \ {r} : Holds(s) =>
                     conn'[peer[s].connection].fd = conn[peer[s].connection].fd
                BY <1>0, <1>2, <3>1
            <3>4. \A s \in Requests \ {r}, q \in PGconns : Uses(s, q)' <=> Uses(s, q)
                BY <3>2, <3>3, OthersKeep
            <3>5. \A q \in PGconns : ~Uses(r, q)'
                BY <3>2 DEF Uses, HoldsDatabase, Holds
            <3>6. \A q \in PGconns : dialled'[q] = IF q = p THEN None ELSE dialled[q]
                BY <1>0, <1>1, <2>3, <3>1, NullAssumption DEF Finish
            <3> QED BY <1>1, <2>1, <2>3, <3>4, <3>5, <3>6, RefClose
        <2> QED BY <2>2, <2>3
    <1> QED BY <1>3, <1>4 DEF FreePeer

(* An idle connection is closed. *)
LEMMA CloseHandlerStep ==
    ASSUME SafeInv, UserGood, UserGood', NEW c \in Connections, CloseHandler(c)
    PROVE  Pool!Next
    <1> DEFINE i == conn[c].data
               p == item[i].pgconn
    <1>0. /\ TypeInv /\ ExclusiveUse /\ PeerInv /\ ItemInv /\ ConnInv
          /\ conn \in [Connections -> ConnRecords]
          /\ dialled \in [PGconns -> Peers \cup {None}] /\ worker = "running"
        BY DEF SafeInv, TypeInv, KeepaliveTypeOK, CloseHandler, EventLoop
    <1>1. conn[c].idle
        BY <1>0 DEF CloseHandler, EventLoop, ConnInv
    <1>2. i \in Cached /\ item[i].connection = c /\ p \in PGconns
        BY <1>0, <1>1 DEF ConnInv, ItemInv
    <1>3. PICK k \in DOMAIN cache : cache[k] = i /\ cache' = RemoveIndex(cache, k)
        BY DEF CloseHandler
    <1>4. Cached' = Cached \ {i}
        BY <1>0, <1>3, TakeItem DEF CloseHandler, QueueInv, TypeInv, KeepaliveTypeOK
    <1>5. /\ UNCHANGED <<item, peer>> /\ conn' = [conn EXCEPT ![c] = FreeConn]
          /\ dialled' = Finish(dialled, p)
        BY <1>0, NullAssumption DEF CloseHandler, FreeConnection
    <1> HIDE DEF i, p
    <1>6. p \in Idle /\ Idle' = Idle \ {p}
        BY <1>2, <1>4, <1>5, HeldOpen DEF Idle, p
    <1>7. \A q \in PGconns : dialled'[q] = IF q = p THEN None ELSE dialled[q]
        BY <1>0, <1>2, <1>5, NullAssumption DEF Finish
    <1>8. \A s \in Requests, q \in PGconns : Uses(s, q)' <=> Uses(s, q)
        <2>1. \A s \in Requests : Holds(s) =>
                 peer[s].connection \in Connections /\ peer[s].connection # c
            BY <1>0, <1>2, Typed DEF ExclusiveUse, Holds
        <2> QED BY <1>0, <1>5, <2>1, UsesKept
    <1> QED BY <1>6, <1>7, <1>8, RefCloseIdle

(* All idle connections are closed. *)
LEMMA CleanupStep ==
    ASSUME SafeInv, UserGood, UserGood', Cleanup
    PROVE  Pool!Next \/ UNCHANGED Pool!vars
    <1> DEFINE gone == {item[i].connection : i \in Cached}
    <1>0. /\ TypeInv /\ ExclusiveUse /\ PeerInv /\ ItemInv /\ ConnInv
          /\ UNCHANGED <<item, peer>>
        BY DEF SafeInv, Cleanup
    <1>1. CASE MaxCached = 0
        <2>1. UNCHANGED <<cache, conn, dialled>>
            BY <1>1 DEF Cleanup
        <2>2. Idle' = Idle /\ \A s \in Requests, q \in PGconns : Uses(s, q)' <=> Uses(s, q)
            BY <1>0, <2>1 DEF Idle, Cached, Uses, HoldsDatabase, Holds
        <2> QED BY <2>1, <2>2, RefStutter
    <1>2. CASE MaxCached # 0
        <2>1. /\ cache' = <<>>
              /\ \A c \in Connections : conn'[c] = IF c \in gone THEN FreeConn ELSE conn[c]
              /\ dialled' = [p \in PGconns |-> IF p \in Idle THEN None ELSE dialled[p]]
            BY <1>2 DEF Cleanup, Idle
        <2>2. Idle' = {}
            BY <2>1 DEF Idle, Cached, Range
        <2>3. \A s \in Requests : Holds(s) => peer[s].connection \in Connections \ gone
            BY <1>0, Typed DEF ExclusiveUse, Holds
        <2> HIDE DEF gone
        <2>4. \A s \in Requests, q \in PGconns : Uses(s, q)' <=> Uses(s, q)
            BY <1>0, <2>1, <2>3, UsesKept
        <2>5. \A q \in PGconns : UserOf(q)' = UserOf(q)
            BY <2>4, NullAssumption DEF UserGood
        <2>6. [q \in PGconns |-> UserOf(q)]' = [q \in PGconns |-> UserOf(q)]
            BY <2>5
        <2>7. [q \in PGconns |-> IF dialled[q] = None THEN None ELSE Addr[dialled[q]]]'
              = [q \in PGconns |-> IF q \in Idle THEN None
                                   ELSE IF dialled[q] = None THEN None ELSE Addr[dialled[q]]]
            BY <2>1
        <2>8. Pool!CloseIdle
            BY <2>2, <2>6, <2>7 DEF Pool!CloseIdle, Idle
        <2> QED BY <2>8 DEF Pool!Next
    <1> QED BY <1>1, <1>2

LEMMA PoolStep ==
    ASSUME "ngx_add_event" \notin MayFail
    PROVE  SafeInv /\ SafeInv' /\ RejectBound /\ UserGood /\ UserGood' /\ [Next]_keepaliveVars
           => [Pool!Next]_(Pool!vars)
    <1> SUFFICES ASSUME SafeInv, SafeInv', RejectBound, UserGood, UserGood', [Next]_keepaliveVars
                 PROVE  Pool!Next \/ UNCHANGED Pool!vars
        OBVIOUS
    <1>0. /\ TypeInv /\ TypeInv' /\ ExclusiveUse /\ PeerInv /\ ItemInv /\ ConnInv
          /\ conn \in [Connections -> ConnRecords] /\ peer \in [Requests -> PeerRecords]
          /\ phase \in [Requests -> Phases]
        BY DEF SafeInv, TypeInv, KeepaliveTypeOK
    <1>1. ASSUME Idle' = Idle, dialled' = dialled, peer' = peer,
                 \A d \in Connections : conn'[d].fd = conn[d].fd
          PROVE  UNCHANGED Pool!vars
        <2>1. \A s \in Requests, q \in PGconns : Uses(s, q)' <=> Uses(s, q)
            BY <1>0, <1>1, Typed, UsesKept DEF Holds
        <2> QED BY <1>1, <2>1, RefStutter
    <1>2. ASSUME NEW r \in Requests, InitPeer(r) PROVE UNCHANGED Pool!vars
        <2>1. /\ Idle' = Idle /\ dialled' = dialled /\ conn' = conn
              /\ ~Holds(r) /\ peer'[r].connection = None
              /\ \A s \in Requests \ {r} : peer'[s] = peer[s]
            BY <1>0, <1>2 DEF InitPeer, PeerInv, Holds, NewPeer, poolVars, Idle, Cached
        <2>2. \A s \in Requests \ {r}, q \in PGconns : Uses(s, q)' <=> Uses(s, q)
            BY <2>1, OthersKeep
        <2>3. \A q \in PGconns : ~Uses(r, q)' /\ ~Uses(r, q)
            BY <2>1 DEF Uses, HoldsDatabase, Holds
        <2> QED BY <2>1, <2>2, <2>3, RefStutter
    <1>3. ASSUME NEW r \in Requests, GetPeerSingle(r) PROVE Pool!Next
        <2>1. 1 \in DOMAIN cache
            BY <1>0, <1>3 DEF GetPeerSingle, TypeInv, KeepaliveTypeOK
        <2> QED BY <1>3, <2>1, ReuseStep DEF GetPeerSingle, GetPeer
    <1>4. ASSUME NEW r \in Requests, GetPeerMulti(r) PROVE Pool!Next
        <2>1. PICK k \in DOMAIN cache : Reuse(r, k, item[cache[k]].sockaddr)
            BY <1>4 DEF GetPeerMulti, Matches
        <2> QED BY <1>4, <2>1, ReuseStep DEF GetPeerMulti, GetPeer
    <1>5. ASSUME NEW r \in Requests, Attach(r) PROVE UNCHANGED Pool!vars
        <2> DEFINE c == peer[r].connection
        <2>1. c \in Connections /\ conn[c] \in ConnRecords
            BY <1>0, <1>5, Typed DEF Attach
        <2>2. conn' = [conn EXCEPT ![c] = Attached(@, r)]
              /\ UNCHANGED <<peer, item, cache, dialled>>
            BY <1>5 DEF Attach, poolVars
        <2>3. \A d \in Connections : conn'[d].fd = conn[d].fd
            BY <1>0, <2>1, <2>2 DEF Attached, ConnRecords
        <2> QED BY <1>1, <2>2, <2>3 DEF Idle, Cached
    <1>6. ASSUME NEW r \in Requests, Crash(r) PROVE UNCHANGED Pool!vars
        BY <1>1, <1>6 DEF Crash, poolVars, Idle, Cached
    <1>7. ASSUME NEW r \in Requests, DropPlaceholder(r) PROVE UNCHANGED Pool!vars
        <2> DEFINE c == peer[r].connection
        <2>1. c \in Connections /\ ~HoldsDatabase(r)
            BY <1>0, <1>7, Typed DEF DropPlaceholder, PeerInv
        <2>2. /\ conn' = [conn EXCEPT ![c] = FreeConn]
              /\ UNCHANGED <<item, cache, dialled>>
              /\ peer'[r].connection = None
              /\ \A s \in Requests \ {r} : peer'[s] = peer[s]
            <3>1. peer[r] \in PeerRecords
                BY <1>0
            <3> QED BY <1>0, <1>7, <3>1 DEF DropPlaceholder, FreeConnection, poolVars, PeerRecords
        <2>3. \A s \in Requests \ {r} : Holds(s) =>
                 conn'[peer[s].connection].fd = conn[peer[s].connection].fd
            BY <1>0, <2>1, <2>2, Typed DEF ExclusiveUse, Holds
        <2>4. \A s \in Requests \ {r}, q \in PGconns : Uses(s, q)' <=> Uses(s, q)
            BY <2>2, <2>3, OthersKeep
        <2>5. \A q \in PGconns : ~Uses(r, q)' /\ ~Uses(r, q)
            BY <2>1, <2>2 DEF Uses, HoldsDatabase, Holds
        <2> QED BY <2>2, <2>4, <2>5, RefStutter DEF Idle, Cached
    <1>8. ASSUME NEW r \in Requests, ChangeTimers(r) PROVE UNCHANGED Pool!vars
        <2> DEFINE c == peer[r].connection
        <2>1. PICK t \in SUBSET {"read", "write"} : conn' = [conn EXCEPT ![c].timers = t]
            BY <1>8 DEF ChangeTimers
        <2>2. \A d \in Connections : conn[d] \in ConnRecords
            BY <1>0
        <2>3. \A d \in Connections : conn'[d].fd = conn[d].fd
            BY <1>0, <2>1, <2>2 DEF ConnRecords
        <2>4. UNCHANGED <<peer, item, cache, dialled>>
            BY <1>8 DEF ChangeTimers, poolVars
        <2> QED BY <1>1, <2>3, <2>4 DEF Idle, Cached
    <1>9. ASSUME NEW r \in Requests, FailPeer(r) PROVE Pool!Next \/ UNCHANGED Pool!vars
        <2>1. ~HoldsPlaceholder(r)
            BY <1>0, <1>9 DEF FailPeer, PeerInv, HoldsPlaceholder
        <2> QED BY <1>0, <1>9, <2>1, FreePeerStep DEF FailPeer
    <1>10. ASSUME NEW r \in Requests, NEW ok \in BOOLEAN, FinishPeer(r, ok)
           PROVE  Pool!Next \/ UNCHANGED Pool!vars
        <2>1. ~HoldsPlaceholder(r)
            BY <1>0, <1>10 DEF FinishPeer, PeerInv, HoldsPlaceholder, Holds
        <2> QED BY <1>0, <1>10, <2>1, FreePeerStep DEF FinishPeer
    <1>11. CASE UNCHANGED keepaliveVars
        BY <1>1, <1>11 DEF keepaliveVars, poolVars, Idle, Cached
    <1> QED BY <1>2, <1>3, <1>4, <1>5, <1>6, <1>7, <1>8, <1>9, <1>10, <1>11,
               MissesStep, CloseHandlerStep, CleanupStep DEF Next

LEMMA PoolInit == Init => Pool!Init
    <1> SUFFICES ASSUME Init PROVE Pool!Init
        OBVIOUS
    <1>1. Cached = {} /\ \A r \in Requests : ~Holds(r)
        BY DEF Init, Cached, Range, Holds, NewPeer
    <1>2. \A p \in PGconns : UserOf(p) = None
        BY <1>1 DEF UserOf, HoldsDatabase
    <1> QED BY <1>1, <1>2 DEF Init, Pool!Init

-----------------------------------------------------------------------------
(* The pool of ngx_postgres_keepalive.c, with the peer functions that use    *)
(* it, keeps every promise of ConnectionPool, however many requests,        *)
(* connections and items there are and whatever fails, as long as the event *)
(* module accepts connections: a connection is used by one request between  *)
(* get_peer and free_peer, kept or closed once, and closed to make room     *)
(* only when the pool is full and overflow=ignore.                          *)
THEOREM PoolImplemented ==
    ASSUME "ngx_add_event" \notin MayFail
    PROVE  Spec => ImplementsPool
    <1>1. Spec => []RejectBound
        BY RejectBounds
    <1> QED BY <1>1, SafeAlways, PoolInit, PoolStep, UserCorrect, PTL
            DEF Spec, ImplementsPool, Pool!Spec
=============================================================================
