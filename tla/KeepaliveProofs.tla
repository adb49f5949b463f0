--------------------------- MODULE KeepaliveProofs ---------------------------
(***************************************************************************)
(* Proofs about Keepalive, for every number of requests, connections,      *)
(* items and servers, and every setting of postgres_keepalive.             *)
(*                                                                         *)
(* First what holds whatever fails: the types and the two queues.  Then    *)
(* the safety properties, for every instance in which the event module     *)
(* accepts every connection: the one failure after which they do not hold  *)
(* is the subject of the run KeepaliveBadAdd.                              *)
(*                                                                         *)
(* Every action does one of seven things to the ownership of connections:  *)
(* nothing, acquire (a new connection or a placeholder), reuse (from the   *)
(* cache to a request), keep (from a request to the cache), release,       *)
(* close an idle one, or close them all.  There is one lemma for each.     *)
(***************************************************************************)
EXTENDS Keepalive, SequenceTheorems, FiniteSetTheorems, TLAPS

-----------------------------------------------------------------------------
(* The queue operations: what they do to the set of the items queued, and   *)
(* that no item is queued twice.                                            *)

LEMMA InsertHeadFacts ==
    ASSUME NEW S, NEW q \in Seq(S), NEW i \in S \ Range(q), IsInjective(q)
    PROVE  /\ InsertHead(q, i) \in Seq(S)
           /\ IsInjective(InsertHead(q, i))
           /\ Range(InsertHead(q, i)) = Range(q) \cup {i}
    <1> DEFINE h == InsertHead(q, i)
               n == Len(q)
    <1>1. /\ n \in Nat /\ h \in Seq(S)
          /\ DOMAIN q = 1..n /\ DOMAIN h = 1..(n + 1)
          /\ \A j \in 1..(n + 1) : h[j] = IF j = 1 THEN i ELSE q[j - 1]
        BY DEF InsertHead
    <1> HIDE DEF h, n
    <1>2. \A j \in 1..n : q[j] # i /\ h[j + 1] = q[j] /\ j + 1 \in 1..(n + 1)
        BY <1>1 DEF Range
    <1>3. IsInjective(h)
        <2>1. ASSUME NEW j \in 1..(n + 1), NEW l \in 1..(n + 1), h[j] = h[l]
              PROVE  j = l
            <3>1. CASE j = 1 \/ l = 1
                BY <2>1, <3>1, <1>1, <1>2
            <3>2. CASE j # 1 /\ l # 1
                <4>1. j - 1 \in 1..n /\ l - 1 \in 1..n /\ q[j - 1] = q[l - 1]
                    BY <2>1, <3>2, <1>1
                <4>2. j - 1 = l - 1
                    BY <4>1, <1>1 DEF IsInjective
                <4> QED BY <4>2
            <3> QED BY <3>1, <3>2
        <2> QED BY <2>1, <1>1 DEF IsInjective
    <1>4. ASSUME NEW x \in Range(q) \cup {i} PROVE x \in Range(h)
        <2>1. CASE x = i
            BY <2>1, <1>1 DEF Range
        <2>2. CASE x \in Range(q)
            BY <2>2, <1>1, <1>2 DEF Range
        <2> QED BY <2>1, <2>2
    <1>5. ASSUME NEW x \in Range(h) PROVE x \in Range(q) \cup {i}
        <2>1. PICK j \in 1..(n + 1) : x = h[j]
            BY <1>1 DEF Range
        <2>2. CASE j = 1
            BY <2>1, <2>2, <1>1
        <2>3. CASE j # 1
            <3>1. j - 1 \in 1..n /\ x = q[j - 1]
                BY <2>1, <2>3, <1>1
            <3> QED BY <3>1, <1>1 DEF Range
        <2> QED BY <2>2, <2>3
    <1> QED BY <1>1, <1>3, <1>4, <1>5 DEF h

LEMMA RemoveIndexFacts ==
    ASSUME NEW S, NEW q \in Seq(S), NEW k \in DOMAIN q, IsInjective(q)
    PROVE  /\ RemoveIndex(q, k) \in Seq(S)
           /\ IsInjective(RemoveIndex(q, k))
           /\ Range(RemoveIndex(q, k)) = Range(q) \ {q[k]}
    <1> DEFINE a == SubSeq(q, 1, k - 1)
               b == SubSeq(q, k + 1, Len(q))
               h == RemoveIndex(q, k)
               n == Len(q)
    <1>1. /\ a \in Seq(S) /\ Len(a) = k - 1
          /\ \A j \in 1..(k - 1) : a[j] = q[j]
        BY SubSeqProperties
    <1>2. /\ b \in Seq(S) /\ Len(b) = n - k
          /\ \A j \in 1..(n - k) : b[j] = q[k + j]
        BY SubSeqProperties
    <1>3. h = a \o b /\ n \in Nat /\ DOMAIN q = 1..n /\ k \in 1..n
        BY DEF RemoveIndex
    <1> HIDE DEF a, b, h, n
    <1>4. /\ a \o b \in Seq(S) /\ Len(a \o b) = Len(a) + Len(b)
          /\ \A j \in 1..(Len(a) + Len(b)) :
                (a \o b)[j] = IF j <= Len(a) THEN a[j] ELSE b[j - Len(a)]
        BY <1>1, <1>2, ConcatProperties
    <1>5. /\ h \in Seq(S) /\ DOMAIN h = 1..(n - 1)
          /\ \A j \in 1..(n - 1) : h[j] = IF j < k THEN q[j] ELSE q[j + 1]
        <2>1. h \in Seq(S) /\ Len(h) = n - 1
            BY <1>1, <1>2, <1>3, <1>4
        <2>2. DOMAIN h = 1..(n - 1)
            BY <2>1
        <2>3. ASSUME NEW j \in 1..(n - 1)
              PROVE  h[j] = IF j < k THEN q[j] ELSE q[j + 1]
            <3>1. CASE j < k
                BY <3>1, <1>1, <1>2, <1>3, <1>4
            <3>2. CASE j >= k
                <4>1. j - (k - 1) \in 1..(n - k) /\ ~(j <= k - 1)
                    BY <3>2, <1>3
                <4>2. h[j] = b[j - (k - 1)]
                    <5>1. Len(a) = k - 1 /\ Len(a) + Len(b) = n - 1 /\ h[j] = (a \o b)[j]
                        BY <1>1, <1>2, <1>3
                    <5>2. (a \o b)[j] = IF j <= Len(a) THEN a[j] ELSE b[j - Len(a)]
                        BY <5>1, <1>4
                    <5> QED BY <5>1, <5>2, <4>1
                <4>3. b[j - (k - 1)] = q[k + (j - (k - 1))] /\ k + (j - (k - 1)) = j + 1
                    BY <4>1, <1>2, <1>3
                <4>4. h[j] = q[j + 1] /\ ~(j < k)
                    BY <3>2, <4>2, <4>3, <1>3
                <4> QED BY <4>4
            <3>3. j \in Int /\ k \in Int
                BY <1>3
            <3>4. j < k \/ j >= k
                BY <3>3
            <3> QED BY <3>1, <3>2, <3>4
        <2> QED BY <2>1, <2>2, <2>3
    <1>6. IsInjective(h)
        <2>1. ASSUME NEW j \in 1..(n - 1), NEW l \in 1..(n - 1), h[j] = h[l]
              PROVE  j = l
            <3> DEFINE pos(x) == IF x < k THEN x ELSE x + 1
            <3>1. /\ pos(j) \in 1..n /\ pos(l) \in 1..n
                  /\ q[pos(j)] = q[pos(l)]
                BY SMTT(40), <2>1, <1>3, <1>5
            <3>2. pos(j) = pos(l)
                BY <3>1, <1>3 DEF IsInjective
            <3> QED BY <3>2, <1>3
        <2> QED BY <2>1, <1>5 DEF IsInjective
    <1>7. ASSUME NEW x \in Range(q) \ {q[k]} PROVE x \in Range(h)
        <2>1. PICK j \in 1..n : x = q[j] /\ j # k
            BY <1>3 DEF Range
        <2>2. CASE j < k
            <3>1. j \in 1..(n - 1) /\ h[j] = x
                BY <2>1, <2>2, <1>3, <1>5
            <3> QED BY <3>1, <1>5 DEF Range
        <2>3. CASE j > k
            <3>1. j - 1 \in 1..(n - 1) /\ ~(j - 1 < k) /\ (j - 1) + 1 = j
                BY <2>1, <2>3, <1>3
            <3>2. h[j - 1] = x
                BY <3>1, <2>1, <1>5
            <3> QED BY <3>1, <3>2, <1>5 DEF Range
        <2> QED BY <2>1, <2>2, <2>3, <1>3
    <1>8. ASSUME NEW x \in Range(h) PROVE x \in Range(q) \ {q[k]}
        <2>1. PICK j \in 1..(n - 1) : x = h[j]
            BY <1>5 DEF Range
        <2>2. \E l \in 1..n : l # k /\ x = q[l]
            <3>1. CASE j < k
                BY <2>1, <3>1, <1>3, <1>5
            <3>2. CASE j >= k
                <4>1. j + 1 \in 1..n /\ j + 1 # k /\ x = q[j + 1]
                    BY <2>1, <3>2, <1>3, <1>5
                <4> QED BY <4>1
            <3> QED BY <3>1, <3>2, <1>3
        <2> QED BY <2>2, <1>3 DEF Range, IsInjective
    <1> QED BY <1>5, <1>6, <1>7, <1>8 DEF h

LEMMA TailFacts ==
    ASSUME NEW S, NEW q \in Seq(S), q # <<>>, IsInjective(q)
    PROVE  /\ q[1] \in Range(q)
           /\ Tail(q) \in Seq(S)
           /\ IsInjective(Tail(q))
           /\ Range(Tail(q)) = Range(q) \ {q[1]}
    <1> DEFINE h == Tail(q)
               n == Len(q)
    <1>1. /\ n \in Nat \ {0} /\ h \in Seq(S)
          /\ DOMAIN q = 1..n /\ DOMAIN h = 1..(n - 1)
          /\ \A j \in 1..(n - 1) : h[j] = q[j + 1]
        BY HeadTailProperties, LenProperties
    <1> HIDE DEF h, n
    <1>2. IsInjective(h)
        <2>1. ASSUME NEW j \in 1..(n - 1), NEW l \in 1..(n - 1), h[j] = h[l]
              PROVE  j = l
            <3>1. j + 1 \in 1..n /\ l + 1 \in 1..n /\ q[j + 1] = q[l + 1]
                BY <2>1, <1>1
            <3>2. j + 1 = l + 1
                BY <3>1, <1>1 DEF IsInjective
            <3> QED BY <3>2
        <2> QED BY <2>1, <1>1 DEF IsInjective
    <1>3. ASSUME NEW x \in Range(q) \ {q[1]} PROVE x \in Range(h)
        <2>1. PICK j \in 1..n : x = q[j] /\ j # 1
            BY <1>1 DEF Range
        <2>2. j - 1 \in 1..(n - 1) /\ h[j - 1] = x
            BY <2>1, <1>1
        <2> QED BY <2>2, <1>1 DEF Range
    <1>4. ASSUME NEW x \in Range(h) PROVE x \in Range(q) \ {q[1]}
        <2>1. PICK j \in 1..(n - 1) : x = h[j]
            BY <1>1 DEF Range
        <2>2. j + 1 \in 1..n /\ j + 1 # 1 /\ x = q[j + 1] /\ 1 \in 1..n
            BY <2>1, <1>1
        <2> QED BY <2>2, <1>1 DEF Range, IsInjective
    <1> QED BY <1>1, <1>2, <1>3, <1>4 DEF h, Range

LEMMA EmptyFacts ==
    ASSUME NEW S, NEW q \in Seq(S)
    PROVE  /\ q = <<>> <=> Range(q) = {}
           /\ q # <<>> => q[Len(q)] \in Range(q) /\ Len(q) \in DOMAIN q
           /\ Range(q) \subseteq S
    BY DEF Range

-----------------------------------------------------------------------------
(* What the three operations on the pool's queues do to the set of cached   *)
(* items: take an item, put one, and turn the least recently used one over. *)

QueueInv ==
    /\ cache \in Seq(Items) /\ free \in Seq(Items)
    /\ QueuesPartition

LEMMA TakeItem ==
    ASSUME QueueInv, NEW k \in DOMAIN cache, worker = "running",
           cache' = RemoveIndex(cache, k), free' = InsertHead(free, cache[k])
    PROVE  QueueInv' /\ Cached' = Cached \ {cache[k]}
    <1>1. cache[k] \in Cached /\ cache[k] \in Items \ Range(free)
        BY DEF QueueInv, QueuesPartition, Cached, Range
    <1>2. /\ cache' \in Seq(Items) /\ IsInjective(cache')
          /\ Cached' = Cached \ {cache[k]}
        BY RemoveIndexFacts DEF QueueInv, QueuesPartition, Cached
    <1>3. /\ free' \in Seq(Items) /\ IsInjective(free')
          /\ Range(free') = Range(free) \cup {cache[k]}
        BY <1>1, InsertHeadFacts DEF QueueInv, QueuesPartition
    <1> QED BY <1>1, <1>2, <1>3 DEF QueueInv, QueuesPartition

LEMMA PutItem ==
    ASSUME QueueInv, free # <<>>, worker' = worker,
           cache' = InsertHead(cache, free[1]), free' = Tail(free)
    PROVE  QueueInv' /\ free[1] \in Items \ Cached /\ Cached' = Cached \cup {free[1]}
    <1>1. /\ free[1] \in Range(free) /\ free' \in Seq(Items) /\ IsInjective(free')
          /\ Range(free') = Range(free) \ {free[1]}
        BY TailFacts DEF QueueInv, QueuesPartition
    <1>2. free[1] \in Items \ Cached
        BY <1>1, EmptyFacts DEF QueueInv, QueuesPartition
    <1>3. /\ cache' \in Seq(Items) /\ IsInjective(cache')
          /\ Cached' = Cached \cup {free[1]}
        BY <1>2, InsertHeadFacts DEF QueueInv, QueuesPartition, Cached
    <1> QED BY <1>1, <1>2, <1>3 DEF QueueInv, QueuesPartition

LEMMA RotateItem ==
    ASSUME QueueInv, cache # <<>>, worker' = worker, free' = free,
           cache' = InsertHead(RemoveIndex(cache, Len(cache)), cache[Len(cache)])
    PROVE  QueueInv' /\ cache[Len(cache)] \in Cached /\ Cached' = Cached
    <1> DEFINE i == cache[Len(cache)]
               q == RemoveIndex(cache, Len(cache))
    <1>1. i \in Cached /\ Len(cache) \in DOMAIN cache /\ Cached \subseteq Items
        BY EmptyFacts DEF QueueInv, Cached
    <1>2. q \in Seq(Items) /\ IsInjective(q) /\ Range(q) = Cached \ {i}
        BY <1>1, RemoveIndexFacts DEF QueueInv, QueuesPartition, Cached
    <1> HIDE DEF q
    <1>3. i \in Items \ Range(q)
        BY <1>1, <1>2
    <1>4. InsertHead(q, i) \in Seq(Items) /\ IsInjective(InsertHead(q, i))
          /\ Range(InsertHead(q, i)) = Range(q) \cup {i}
        BY <1>2, <1>3, InsertHeadFacts
    <1>5. cache' = InsertHead(q, i)
        BY DEF q
    <1>6. Cached' = Cached
        BY <1>1, <1>2, <1>4, <1>5 DEF Cached
    <1> QED BY <1>1, <1>4, <1>5, <1>6 DEF QueueInv, QueuesPartition

(* With no item free every item is cached: there is one to turn over. *)
LEMMA NoneFree ==
    ASSUME QueueInv, worker = "running", MaxCached > 0, free = <<>>
    PROVE  cache # <<>>
    <1>1. 1 \in Items
        BY PoolAssumption DEF Items
    <1>2. Range(free) = {}
        BY EmptyFacts DEF QueueInv
    <1> QED BY <1>1, <1>2, EmptyFacts DEF QueueInv, QueuesPartition, Cached

-----------------------------------------------------------------------------
(* Type correctness.  It needs the queues' partition: free_peer with an     *)
(* empty free queue takes the last item of the cache, so the cache must     *)
(* have one.                                                                *)

TypeInv ==
    /\ KeepaliveTypeOK
    /\ worker # "exited" => max_cached = MaxCached
    /\ QueuesPartition

LEMMA TypeInit == Init => TypeInv
    <1> SUFFICES ASSUME Init PROVE TypeInv
        OBVIOUS
    <1>1. KeepaliveTypeOK /\ (worker # "exited" => max_cached = MaxCached)
        BY PeersAssumption, PoolAssumption, ResourceAssumption
           DEF Init, KeepaliveTypeOK, FreeConn, NewPeer, Phases, Items, Peers,
               ItemRecords, ConnRecords, PeerRecords
    <1>2. Cached = {} /\ IsInjective(cache)
        BY DEF Init, Cached, Range, IsInjective
    <1>3. IsInjective(free)
        BY PoolAssumption DEF Init, IsInjective, Items
    <1>4. ASSUME NEW i \in Items PROVE i \in Range(free)
        <2>1. MaxCached + 1 - i \in Items /\ free[MaxCached + 1 - i] = i
            BY PoolAssumption DEF Init, Items
        <2> QED BY <2>1 DEF Init, Range
    <1>5. Range(free) \subseteq Items
        BY PoolAssumption DEF Init, Items, Range
    <1> QED BY <1>1, <1>2, <1>3, <1>4, <1>5 DEF TypeInv, QueuesPartition

LEMMA CounterRange ==
    /\ \A n \in 0..UintMax : Incr(n) \in 0..UintMax /\ Decr(n) \in 0..UintMax
    /\ \A n \in 0..UintMax : Decr(Incr(n)) = n
    BY ResourceAssumption DEF Incr, Decr

(* Actions that leave the queues alone. *)
LEMMA SameQueues ==
    ASSUME TypeInv, UNCHANGED <<cache, free, max_cached>>,
           worker' # "exited" => worker # "exited", KeepaliveTypeOK'
    PROVE  TypeInv'
    BY DEF TypeInv, QueuesPartition, Cached

LEMMA ChosenRange == KeepaliveTypeOK => Chosen \in Peers /\ Chosen + 1 \in 0..NumPeers
    BY PeersAssumption DEF KeepaliveTypeOK, Chosen, Peers

LEMMA TypeMisses ==
    ASSUME TypeInv, NEW r \in Requests, MissesCache(r),
           NEW c \in Connections \cup {None}, NEW p \in PGconns \cup {None},
           NEW rc \in Phases, Leave(r, c, p, rc),
           active_conns' \in 0..UintMax,
           conn' \in [Connections -> ConnRecords],
           dialled' \in [PGconns -> Peers \cup {None}]
    PROVE  TypeInv'
    <1>1. Chosen \in Peers /\ Chosen + 1 \in 0..NumPeers /\ Addr[Chosen] \in Addrs
        BY ChosenRange DEF TypeInv, Addrs
    <1>2. peer' \in [Requests -> PeerRecords] /\ phase' \in [Requests -> Phases]
        BY ZenonT(60), <1>1 DEF TypeInv, KeepaliveTypeOK, Leave, PeerRecords
    <1>3. KeepaliveTypeOK'
        BY <1>1, <1>2 DEF TypeInv, KeepaliveTypeOK, MissesCache
    <1> QED BY <1>3, SameQueues DEF MissesCache

LEMMA FreeConnType == FreeConn \in ConnRecords
    BY DEF FreeConn, ConnRecords

LEMMA GetConnectionType == GetConnection \subseteq Connections \cup {None}
    BY DEF GetConnection

LEMMA FreeConnectionType ==
    ASSUME NEW cs \in [Connections -> ConnRecords], NEW c
    PROVE  FreeConnection(cs, c) \in [Connections -> ConnRecords]
    BY FreeConnType DEF FreeConnection

LEMMA FinishType ==
    ASSUME NEW d \in [PGconns -> Peers \cup {None}], NEW p
    PROVE  Finish(d, p) \in [PGconns -> Peers \cup {None}]
    BY DEF Finish

LEMMA TypeReuse ==
    ASSUME TypeInv, NEW r \in Requests, NEW k \in DOMAIN cache,
           NEW a \in Addrs \cup {None},
           worker = "running", Reuse(r, k, a), current' \in 0..NumPeers
    PROVE  TypeInv'
    <1>1. QueueInv
        BY DEF QueueInv, TypeInv, KeepaliveTypeOK
    <1>2. QueueInv'
        BY <1>1, TakeItem DEF Reuse
    <1>3. cache[k] \in Items
        BY <1>1 DEF QueueInv
    <1>4. peer' \in [Requests -> PeerRecords]
        <2>1. item[cache[k]] \in ItemRecords
            BY <1>3 DEF TypeInv, KeepaliveTypeOK
        <2>2. \A p \in PeerRecords : Taken(p, cache[k], a) \in PeerRecords
            BY <2>1 DEF Taken, ItemRecords, PeerRecords
        <2> QED BY <2>2 DEF Reuse, TypeInv, KeepaliveTypeOK
    <1>5. conn' \in [Connections -> ConnRecords]
        <2>1. \A x \in ConnRecords : [x EXCEPT !.idle = FALSE] \in ConnRecords
            BY DEF ConnRecords
        <2> QED BY <2>1 DEF Reuse, TypeInv, KeepaliveTypeOK
    <1>6. phase' \in [Requests -> Phases]
        BY DEF Reuse, TypeInv, KeepaliveTypeOK, Phases
    <1> QED BY <1>2, <1>4, <1>5, <1>6 DEF Reuse, TypeInv, QueueInv, KeepaliveTypeOK

LEMMA TypeGetPeer ==
    ASSUME TypeInv, NEW r \in Requests
    PROVE  GetPeerSingle(r) \/ GetPeerMulti(r) \/ RejectPeer(r)
           \/ ConnectNoMemory(r) \/ ConnectDeclined(r) \/ ConnectInvalid(r) \/ ConnectBadAdd(r)
           \/ ConnectPeer(r) => TypeInv'
    <1>0. /\ {"again", "declined", "error"} \subseteq Phases
          /\ Chosen \in Peers /\ Chosen + 1 \in 0..NumPeers /\ Addr[Chosen] \in Addrs
          /\ active_conns \in 0..UintMax /\ current \in 0..NumPeers
          /\ conn \in [Connections -> ConnRecords]
          /\ dialled \in [PGconns -> Peers \cup {None}]
        BY ChosenRange DEF TypeInv, KeepaliveTypeOK, Phases, Addrs
    <1>1. CASE GetPeerSingle(r)
        <2>1. 1 \in DOMAIN cache /\ cache[1] \in Items
            BY <1>1 DEF GetPeerSingle, TypeInv, KeepaliveTypeOK
        <2>2. item[cache[1]].sockaddr \in Addrs \cup {None}
            BY <2>1 DEF TypeInv, KeepaliveTypeOK, ItemRecords
        <2> QED BY <1>1, <1>0, <2>1, <2>2, TypeReuse DEF GetPeerSingle, GetPeer
    <1>2. CASE GetPeerMulti(r)
        BY <1>0, <1>2, TypeReuse DEF GetPeerMulti, GetPeer, Matches
    <1>3. CASE RejectPeer(r)
        <2>1. PICK c \in GetConnection :
                 /\ conn' = IF c = None THEN conn
                            ELSE [conn EXCEPT ![c] = [FreeConn EXCEPT !.fd = ZeroFd]]
                 /\ Leave(r, c, None, "again")
            BY <1>3 DEF RejectPeer
        <2>2. conn' \in [Connections -> ConnRecords]
            BY <1>0, <2>1 DEF FreeConn, ConnRecords
        <2> QED BY <1>0, <1>3, <2>1, <2>2, TypeMisses, GetConnectionType DEF RejectPeer
    <1>4. CASE ConnectNoMemory(r) \/ ConnectDeclined(r)
        BY <1>0, <1>4, TypeMisses DEF ConnectNoMemory, ConnectDeclined
    <1>5. CASE ConnectInvalid(r)
        BY <1>0, <1>5, TypeMisses, CounterRange DEF ConnectInvalid
    <1>6. CASE ConnectBadAdd(r)
        BY <1>0, <1>6, TypeMisses, CounterRange, GetConnectionType DEF ConnectBadAdd
    <1>7. CASE ConnectPeer(r)
        <2>1. PICK p \in PGconns, c \in Connections :
                 /\ dialled' = [dialled EXCEPT ![p] = Chosen]
                 /\ conn' = [conn EXCEPT ![c] = [FreeConn EXCEPT !.fd = p]]
                 /\ Leave(r, c, p, "again")
            BY <1>7, GetConnectionType DEF ConnectPeer
        <2>2. conn' \in [Connections -> ConnRecords]
            BY <1>0, <2>1 DEF FreeConn, ConnRecords
        <2>3. dialled' \in [PGconns -> Peers \cup {None}]
            BY <1>0, <2>1
        <2> QED BY <1>0, <1>7, <2>1, <2>2, <2>3, TypeMisses, CounterRange DEF ConnectPeer
    <1> QED BY <1>1, <1>2, <1>3, <1>4, <1>5, <1>6, <1>7

LEMMA TypeSavePeer ==
    ASSUME TypeInv, NEW r \in Requests, NEW failed \in BOOLEAN, NEW ok \in BOOLEAN,
           worker = "running", worker' = worker, SavePeer(r, failed, ok),
           phase' \in [Requests -> Phases]
    PROVE  TypeInv'
    <1> DEFINE c == peer[r].connection
               evict == free = <<>>
               i == IF evict THEN cache[Len(cache)] ELSE free[1]
    <1>1. QueueInv /\ MaxCached > 0 /\ c \in Connections
        BY DEF QueueInv, TypeInv, KeepaliveTypeOK, SavePeer, PeerRecords
    <1>2. i \in Items /\ QueueInv'
        <2>1. CASE evict
            <3>1. cache # <<>>
                BY <1>1, <2>1, NoneFree
            <3>2. cache' = InsertHead(RemoveIndex(cache, Len(cache)), cache[Len(cache)])
                  /\ free' = free
                BY <2>1 DEF SavePeer
            <3> QED BY <1>1, <2>1, <3>1, <3>2, RotateItem, EmptyFacts DEF QueueInv, Cached
        <2>2. CASE ~evict
            BY <1>1, <2>2, PutItem DEF SavePeer
        <2> QED BY <2>1, <2>2
    <1>3. conn \in [Connections -> ConnRecords] /\ item \in [Items -> ItemRecords]
          /\ peer \in [Requests -> PeerRecords]
          /\ dialled \in [PGconns -> Peers \cup {None}] /\ active_conns \in 0..UintMax
        BY DEF TypeInv, KeepaliveTypeOK
    <1>4. conn' \in [Connections -> ConnRecords]
        <2> DEFINE cs == IF evict THEN FreeConnection(conn, item[i].connection) ELSE conn
        <2>1. cs \in [Connections -> ConnRecords]
            BY <1>3, FreeConnectionType
        <2>2. conn' = [cs EXCEPT ![c] = Parked(@, i)]
            BY DEF SavePeer
        <2> HIDE DEF cs
        <2>3. \A x \in ConnRecords : Parked(x, i) \in ConnRecords
            BY <1>2 DEF Parked, ConnRecords
        <2> QED BY <2>1, <2>2, <2>3, <1>1
    <1>5. dialled' \in [PGconns -> Peers \cup {None}] /\ active_conns' \in 0..UintMax
        BY <1>3, FinishType, CounterRange DEF SavePeer
    <1>6. item' \in [Items -> ItemRecords]
        BY <1>2, <1>3 DEF SavePeer, ItemRecords, PeerRecords
    <1>7. peer' \in [Requests -> PeerRecords]
        BY <1>3 DEF SavePeer, Detached, PeerRecords
    <1> QED BY <1>2, <1>4, <1>5, <1>6, <1>7
            DEF SavePeer, TypeInv, QueueInv, KeepaliveTypeOK

LEMMA TypeClosePeer ==
    ASSUME TypeInv, NEW r \in Requests, NEW failed \in BOOLEAN, NEW ok \in BOOLEAN,
           worker' = worker, ClosePeer(r, failed, ok), phase' \in [Requests -> Phases]
    PROVE  TypeInv'
    <1>1. conn \in [Connections -> ConnRecords] /\ peer \in [Requests -> PeerRecords]
          /\ dialled \in [PGconns -> Peers \cup {None}] /\ active_conns \in 0..UintMax
        BY DEF TypeInv, KeepaliveTypeOK
    <1>2. conn' \in [Connections -> ConnRecords]
        BY <1>1, FreeConnectionType DEF ClosePeer
    <1>3. dialled' \in [PGconns -> Peers \cup {None}] /\ active_conns' \in 0..UintMax
        BY <1>1, FinishType, CounterRange DEF ClosePeer
    <1>4. peer' \in [Requests -> PeerRecords]
        <2> DEFINE sticky == peer[r].failed \/ (failed /\ max_cached > 0)
        <2>1. sticky \in BOOLEAN
            BY <1>1 DEF PeerRecords
        <2>2. peer' = [peer EXCEPT ![r].failed = sticky]
              \/ peer' = [peer EXCEPT ![r] = [@ EXCEPT !.connection = None,
                                              !.pgconn = None, !.failed = sticky]]
            BY DEF ClosePeer
        <2> HIDE DEF sticky
        <2>3. /\ [peer[r] EXCEPT !.failed = sticky] \in PeerRecords
              /\ [peer[r] EXCEPT !.connection = None, !.pgconn = None,
                                 !.failed = sticky] \in PeerRecords
            BY <1>1, <2>1 DEF PeerRecords
        <2> QED BY <1>1, <2>2, <2>3
    <1>5. KeepaliveTypeOK'
        BY <1>2, <1>3, <1>4 DEF ClosePeer, TypeInv, KeepaliveTypeOK
    <1> QED BY <1>5, SameQueues DEF ClosePeer

LEMMA TypeFreePeer ==
    ASSUME TypeInv, NEW r \in Requests, NEW failed \in BOOLEAN, NEW ok \in BOOLEAN,
           FreePeer(r, failed, ok), phase' \in [Requests -> Phases]
    PROVE  TypeInv'
    BY TypeSavePeer, TypeClosePeer DEF FreePeer

LEMMA TypeCloseHandler ==
    ASSUME TypeInv, NEW c \in Connections, CloseHandler(c)
    PROVE  TypeInv'
    <1>1. PICK k \in DOMAIN cache : cache[k] = conn[c].data
                                    /\ cache' = RemoveIndex(cache, k)
        BY DEF CloseHandler
    <1>2. QueueInv'
        BY <1>1, TakeItem DEF CloseHandler, EventLoop, QueueInv, TypeInv, KeepaliveTypeOK
    <1>3. conn' \in [Connections -> ConnRecords]
        BY FreeConnectionType DEF CloseHandler, TypeInv, KeepaliveTypeOK
    <1>4. dialled' \in [PGconns -> Peers \cup {None}] /\ active_conns' \in 0..UintMax
        BY FinishType, CounterRange DEF CloseHandler, TypeInv, KeepaliveTypeOK
    <1> QED BY <1>2, <1>3, <1>4 DEF CloseHandler, TypeInv, QueueInv, KeepaliveTypeOK

LEMMA TypeCleanup ==
    ASSUME TypeInv, Cleanup
    PROVE  TypeInv'
    <1>1. CASE MaxCached = 0
        BY <1>1, SameQueues DEF Cleanup, TypeInv, KeepaliveTypeOK, QueuesPartition, Cached
    <1>2. CASE MaxCached # 0
        <2>1. cache' = <<>> /\ Cached' = {} /\ IsInjective(cache')
            BY <1>2 DEF Cleanup, Cached, Range, IsInjective
        <2>2. conn' \in [Connections -> ConnRecords]
            BY <1>2, FreeConnType DEF Cleanup, TypeInv, KeepaliveTypeOK
        <2>3. dialled' \in [PGconns -> Peers \cup {None}]
            BY <1>2 DEF Cleanup, TypeInv, KeepaliveTypeOK
        <2>4. active_conns' \in 0..UintMax
            <3>1. Len(cache) \in Nat /\ active_conns \in Int /\ UintMax + 1 \in Nat \ {0}
                BY ResourceAssumption DEF TypeInv, KeepaliveTypeOK
            <3>2. active_conns - Len(cache) \in Int
                BY <3>1
            <3>3. \A a \in Int, m \in Nat \ {0} : a % m \in 0..(m - 1)
                OBVIOUS
            <3>4. active_conns' = (active_conns - Len(cache)) % (UintMax + 1)
                BY <1>2 DEF Cleanup
            <3> QED BY <3>1, <3>2, <3>3, <3>4, ResourceAssumption
        <2> QED BY <1>2, <2>1, <2>2, <2>3, <2>4
                DEF Cleanup, TypeInv, QueuesPartition, KeepaliveTypeOK
    <1> QED BY <1>1, <1>2

LEMMA TypeStutter ==
    ASSUME TypeInv, UNCHANGED keepaliveVars
    PROVE  TypeInv'
    BY DEF TypeInv, KeepaliveTypeOK, QueuesPartition, Cached, keepaliveVars, poolVars

LEMMA TypeStep == TypeInv /\ [Next]_keepaliveVars => TypeInv'
    <1> SUFFICES ASSUME TypeInv, [Next]_keepaliveVars PROVE TypeInv'
        OBVIOUS
    <1>0. /\ conn \in [Connections -> ConnRecords] /\ peer \in [Requests -> PeerRecords]
          /\ phase \in [Requests -> Phases]
        BY DEF TypeInv, KeepaliveTypeOK
    <1>1. ASSUME NEW r \in Requests, InitPeer(r) PROVE TypeInv'
        <2>1. NewPeer \in PeerRecords /\ "new" \in Phases
            BY DEF NewPeer, PeerRecords, Phases
        <2>2. KeepaliveTypeOK'
            BY <1>1, <2>1 DEF InitPeer, TypeInv, KeepaliveTypeOK, poolVars
        <2> QED BY <1>1, <2>2, SameQueues DEF InitPeer, poolVars
    <1>2. ASSUME NEW r \in Requests, Attach(r) PROVE TypeInv'
        <2>1. \A x \in ConnRecords : Attached(x, r) \in ConnRecords
            BY DEF Attached, ConnRecords
        <2>2. conn' \in [Connections -> ConnRecords] /\ phase' \in [Requests -> Phases]
            BY <1>0, <1>2, <2>1 DEF Attach, Phases
        <2>3. KeepaliveTypeOK'
            BY <1>2, <2>2 DEF Attach, TypeInv, KeepaliveTypeOK, poolVars
        <2> QED BY <1>2, <2>3, SameQueues DEF Attach, poolVars
    <1>3. ASSUME NEW r \in Requests, Crash(r) PROVE TypeInv'
        <2>1. KeepaliveTypeOK'
            BY <1>3 DEF Crash, TypeInv, KeepaliveTypeOK, poolVars
        <2> QED BY <1>3, <2>1, SameQueues DEF Crash, poolVars
    <1>4. ASSUME NEW r \in Requests, DropPlaceholder(r) PROVE TypeInv'
        <2>1. conn' \in [Connections -> ConnRecords]
            BY <1>0, <1>4, FreeConnectionType DEF DropPlaceholder
        <2>2. peer' \in [Requests -> PeerRecords]
            BY <1>0, <1>4 DEF DropPlaceholder, PeerRecords
        <2>3. KeepaliveTypeOK'
            BY <1>4, <2>1, <2>2 DEF DropPlaceholder, TypeInv, KeepaliveTypeOK, poolVars
        <2> QED BY <1>4, <2>3, SameQueues DEF DropPlaceholder, poolVars
    <1>5. ASSUME NEW r \in Requests, ChangeTimers(r) PROVE TypeInv'
        <2>1. PICK t \in SUBSET {"read", "write"} :
                 conn' = [conn EXCEPT ![peer[r].connection].timers = t]
            BY <1>5 DEF ChangeTimers
        <2>2. \A x \in ConnRecords : [x EXCEPT !.timers = t] \in ConnRecords
            BY DEF ConnRecords
        <2>3. conn' \in [Connections -> ConnRecords]
            BY <1>0, <2>1, <2>2
        <2>4. KeepaliveTypeOK'
            BY <1>5, <2>3 DEF ChangeTimers, TypeInv, KeepaliveTypeOK, poolVars
        <2> QED BY <1>5, <2>4, SameQueues DEF ChangeTimers, poolVars
    <1>6. ASSUME NEW r \in Requests, FailPeer(r) PROVE TypeInv'
        <2>1. phase' \in [Requests -> Phases]
            BY <1>0, <1>6 DEF FailPeer, Phases
        <2> QED BY <1>6, <2>1, TypeFreePeer DEF FailPeer
    <1>7. ASSUME NEW r \in Requests, NEW ok \in BOOLEAN, FinishPeer(r, ok)
          PROVE  TypeInv'
        <2>1. phase' \in [Requests -> Phases]
            BY <1>0, <1>7 DEF FinishPeer, Phases
        <2> QED BY <1>7, <2>1, TypeFreePeer DEF FinishPeer
    <1> QED BY <1>1, <1>2, <1>3, <1>4, <1>5, <1>6, <1>7, TypeGetPeer,
               TypeCloseHandler, TypeCleanup, TypeStutter DEF Next

(* The variables keep their types in every reachable state, whatever fails: *)
(* in particular active_conns, which may wrap, is always an ngx_uint_t.     *)
THEOREM TypeCorrect == Spec => []KeepaliveTypeOK
    <1>1. TypeInv => KeepaliveTypeOK
        BY DEF TypeInv
    <1> QED BY <1>1, TypeInit, TypeStep, PTL DEF Spec

(* ngx_postgres_keepalive.c never loses an item of the pool and never queues *)
(* one twice, whatever fails.                                               *)
THEOREM QueuesCorrect == Spec => []QueuesPartition
    <1>1. TypeInv => QueuesPartition
        BY DEF TypeInv
    <1> QED BY <1>1, TypeInit, TypeStep, PTL DEF Spec

-----------------------------------------------------------------------------
(* The inductive invariant: what a request, a cached item and a connection   *)
(* refer to.                                                                *)

Owned(c) == \/ \E r \in Requests : peer[r].connection = c
            \/ \E i \in Cached : item[i].connection = c

(* What a request holds in each phase. *)
PeerInv ==
    \A r \in Requests :
       /\ Holds(r) => phase[r] \in {"again", "active", "placeholder"}
       /\ Holds(r) => conn[peer[r].connection].fd # None
       /\ HoldsPlaceholder(r) =>
             phase[r] # "active" /\ ~peer[r].cached /\ ~peer[r].failed
       /\ phase[r] = "placeholder" => ~HoldsDatabase(r)
       /\ HoldsDatabase(r) =>
             /\ conn[peer[r].connection].fd = peer[r].pgconn
             /\ peer[r].sockaddr = Addr[dialled[peer[r].pgconn]]

(* What a cached item refers to. *)
ItemInv ==
    \A i \in Cached :
       LET c == item[i].connection
       IN  /\ c \in Connections
           /\ item[i].pgconn \in PGconns
           /\ conn[c].fd = item[i].pgconn
           /\ item[i].sockaddr = Addr[dialled[item[i].pgconn]]
           /\ conn[c].data = i /\ conn[c].handler = "keepalive"
           /\ conn[c].idle /\ conn[c].timers = {}

(* What a connection structure refers to. *)
ConnInv ==
    /\ \A c \in Connections :
          /\ conn[c].fd = None => ~conn[c].idle /\ conn[c].handler = "none"
          /\ conn[c].fd # None => Owned(c)
          /\ conn[c].idle => conn[c].data \in Cached /\ item[conn[c].data].connection = c
          /\ conn[c].handler = "keepalive" =>
                \/ conn[c].idle
                \/ \E r \in Requests : phase[r] = "again" /\ peer[r].connection = c
    /\ \A c, d \in Connections :
          conn[c].fd \in PGconns /\ conn[c].fd = conn[d].fd => c = d
    /\ \A p \in PGconns : dialled[p] # None <=> \E c \in Connections : conn[c].fd = p

SafeInv == TypeInv /\ ExclusiveUse /\ PeerInv /\ ItemInv /\ ConnInv /\ SpotAccounting

-----------------------------------------------------------------------------
(* Facts about a state that satisfies the invariant. *)

LEMMA Typed ==
    ASSUME TypeInv
    PROVE  /\ \A c \in Connections :
                 /\ conn[c].fd \in PGconns \cup {None, ZeroFd}
                 /\ conn[c].data \in Requests \cup Items \cup {None}
                 /\ conn[c].handler \in {"none", "upstream", "keepalive"}
                 /\ conn[c].idle \in BOOLEAN
                 /\ conn[c].timers \subseteq {"read", "write"}
           /\ \A r \in Requests :
                 /\ peer[r].connection \in Connections \cup {None}
                 /\ peer[r].pgconn \in PGconns \cup {None}
                 /\ peer[r].cached \in BOOLEAN /\ peer[r].failed \in BOOLEAN
           /\ \A i \in Cached : i \in Items
           /\ \A p \in PGconns : dialled[p] \in Peers \cup {None}
           /\ None \notin Connections /\ None \notin PGconns /\ None \notin Peers
           /\ ZeroFd \notin PGconns /\ ZeroFd # None
    <1>1. Cached \subseteq Items
        BY EmptyFacts DEF TypeInv, KeepaliveTypeOK, Cached
    <1>2. /\ \A c \in Connections : conn[c] \in ConnRecords
          /\ \A r \in Requests : peer[r] \in PeerRecords
          /\ \A p \in PGconns : dialled[p] \in Peers \cup {None}
        BY DEF TypeInv, KeepaliveTypeOK
    <1> QED BY <1>1, <1>2, NullAssumption DEF ConnRecords, PeerRecords

-----------------------------------------------------------------------------
(* The counter *)

LEMMA OpenFinite == IsFiniteSet(Open) /\ Cardinality(Open) \in Nat
                    /\ Cardinality(Open) <= UintMax
    <1>1. Open \subseteq PGconns
        BY DEF Open
    <1>2. IsFiniteSet(Open) /\ Cardinality(Open) <= Cardinality(PGconns)
        BY <1>1, FS_Subset, ResourceAssumption
    <1>3. Cardinality(Open) \in Nat /\ Cardinality(PGconns) \in Nat
        BY <1>2, FS_CardinalityType, ResourceAssumption
    <1> QED BY <1>2, <1>3, ResourceAssumption

LEMMA SpotTaken ==
    ASSUME SpotAccounting, NEW p \in PGconns \ Open,
           Open' = Open \cup {p}, active_conns' = Incr(active_conns)
    PROVE  SpotAccounting'
    <1>1. Cardinality(Open') = Cardinality(Open) + 1
        BY OpenFinite, FS_AddElement DEF Open
    <1>2. IsFiniteSet(Open') /\ Open' \subseteq PGconns
        BY OpenFinite, FS_AddElement DEF Open
    <1>3. Cardinality(Open') <= UintMax
        BY <1>2, FS_Subset, FS_CardinalityType, ResourceAssumption
    <1> QED BY <1>1, <1>3, OpenFinite, ResourceAssumption DEF SpotAccounting, Incr

LEMMA SpotGiven ==
    ASSUME SpotAccounting, NEW p \in Open,
           Open' = Open \ {p}, active_conns' = Decr(active_conns)
    PROVE  SpotAccounting'
    <1>1. Cardinality(Open') = Cardinality(Open) - 1
        BY OpenFinite, FS_RemoveElement
    <1>2. Cardinality(Open) # 0
        BY OpenFinite, FS_EmptySet
    <1> QED BY <1>1, <1>2, OpenFinite DEF SpotAccounting, Decr

LEMMA SpotKept ==
    ASSUME SpotAccounting, Open' = Open, active_conns' = active_conns
    PROVE  SpotAccounting'
    BY DEF SpotAccounting

-----------------------------------------------------------------------------
(* One lemma per effect.  TypeInv' is TypeStep's. *)

Others(r) == \A s \in Requests \ {r} : peer'[s] = peer[s] /\ phase'[s] = phase[s]

(* Nothing: who holds what stays, only timers of connections in use change. *)
LEMMA Nothing ==
    ASSUME SafeInv, TypeInv', UNCHANGED <<item, dialled, active_conns>>,
           Cached' = Cached,
           \A c \in Connections :
              /\ conn'[c].fd = conn[c].fd /\ conn'[c].idle = conn[c].idle
              /\ conn'[c].handler = conn[c].handler
              /\ conn[c].idle => conn'[c] = conn[c],
           \A r \in Requests :
              /\ peer'[r].connection = peer[r].connection
              /\ Holds(r) => peer'[r] = peer[r] /\ phase'[r] = phase[r]
    PROVE  SafeInv'
    <1>0. TypeInv /\ ExclusiveUse /\ PeerInv /\ ItemInv /\ ConnInv /\ SpotAccounting
        BY DEF SafeInv
    <1>1. ExclusiveUse'
        BY <1>0 DEF ExclusiveUse, Holds
    <1>2. PeerInv'
        BY <1>0, Typed DEF PeerInv, Holds, HoldsPlaceholder, HoldsDatabase
    <1>3. ItemInv'
        BY <1>0 DEF ItemInv
    <1>4. ConnInv'
        BY <1>0, Typed DEF ConnInv, Owned, Holds
    <1>5. SpotAccounting'
        BY <1>0, SpotKept DEF Open
    <1> QED BY <1>1, <1>2, <1>3, <1>4, <1>5 DEF SafeInv

(* The items stay valid when nobody touches them or their connections.       *)
LEMMA ItemsKept ==
    ASSUME ItemInv, item' = item, Cached' = Cached,
           \A i \in Cached :
              /\ conn'[item[i].connection] = conn[item[i].connection]
              /\ dialled'[item[i].pgconn] = dialled[item[i].pgconn]
    PROVE  ItemInv'
    <1> SUFFICES ASSUME NEW j \in Cached
                 PROVE  LET d == item[j].connection
                        IN  /\ d \in Connections /\ item[j].pgconn \in PGconns
                            /\ conn'[d].fd = item[j].pgconn
                            /\ item[j].sockaddr = Addr[dialled'[item[j].pgconn]]
                            /\ conn'[d].data = j /\ conn'[d].handler = "keepalive"
                            /\ conn'[d].idle /\ conn'[d].timers = {}
        BY DEF ItemInv
    <1> QED BY DEF ItemInv

(* Acquire: r gets the unused connection c, for the placeholder or for the  *)
(* PGconn f just dialled.                                                   *)
LEMMA Acquire ==
    ASSUME SafeInv, TypeInv', NEW r \in Requests, NEW c \in Connections, NEW f,
           NEW k \in Peers, conn[c].fd = None, ~Holds(r), Others(r),
           item' = item, Cached' = Cached,
           conn' = [conn EXCEPT ![c] = [FreeConn EXCEPT !.fd = f]],
           peer'[r].connection = c, phase'[r] = "again",
           \/ /\ f = ZeroFd
              /\ ~peer'[r].cached /\ ~peer'[r].failed
              /\ UNCHANGED <<dialled, active_conns>>
           \/ /\ f \in PGconns \ Open
              /\ peer'[r].pgconn = f /\ peer'[r].sockaddr = Addr[k]
              /\ dialled' = [dialled EXCEPT ![f] = k]
              /\ active_conns' = Incr(active_conns)
    PROVE  SafeInv'
    <1>0. TypeInv /\ ExclusiveUse /\ PeerInv /\ ItemInv /\ ConnInv /\ SpotAccounting
        BY DEF SafeInv
    <1>1. /\ conn'[c].fd = f /\ conn'[c].handler = "none" /\ conn'[c].idle = FALSE
          /\ \A d \in Connections \ {c} : conn'[d] = conn[d]
        BY <1>0 DEF TypeInv, KeepaliveTypeOK, FreeConn
    <1>2. /\ \A s \in Requests : Holds(s) => peer[s].connection # c
          /\ \A i \in Cached : item[i].connection # c /\ item[i].pgconn \in PGconns
        BY <1>0, Typed DEF PeerInv, ItemInv
    <1>3. f # None /\ \A d \in Connections : f \in PGconns => conn[d].fd # f
        BY <1>0, Typed DEF ConnInv, Open
    <1>4. \A p \in PGconns \ {f} : dialled'[p] = dialled[p]
        BY <1>0 DEF TypeInv, KeepaliveTypeOK
    <1>5. f \in PGconns => dialled'[f] = k /\ k # None
        BY <1>0, Typed DEF TypeInv, KeepaliveTypeOK
    <1>6. ExclusiveUse'
        BY <1>0, <1>2 DEF ExclusiveUse, Holds, Others
    <1>7. PeerInv'
        <2>1. ASSUME NEW s \in Requests \ {r}, Holds(s)
              PROVE  peer'[s] = peer[s] /\ phase'[s] = phase[s]
                     /\ peer[s].connection \in Connections \ {c}
                     /\ conn'[peer[s].connection] = conn[peer[s].connection]
                     /\ (HoldsDatabase(s) => peer[s].pgconn \in PGconns \ {f})
            BY <2>1, <1>0, <1>1, <1>2, <1>3, Typed DEF Others, Holds, HoldsDatabase, PeerInv
        <2>2. \A s \in Requests \ {r} : ~Holds(s) => ~Holds(s)'
            BY DEF Others, Holds
        <2> QED BY <2>1, <2>2, <1>0, <1>1, <1>4, <1>5, Typed
                DEF PeerInv, Holds, HoldsPlaceholder, HoldsDatabase
    <1>8. ItemInv'
        <2>1. \A i \in Cached :
                 /\ conn'[item[i].connection] = conn[item[i].connection]
                 /\ dialled'[item[i].pgconn] = dialled[item[i].pgconn]
            BY <1>0, <1>1, <1>2, <1>3, <1>4 DEF ItemInv
        <2> QED BY <2>1, <1>0, ItemsKept
    <1>9. ConnInv'
        <2>1. \A d \in Connections : Owned(d) => Owned(d)'
            BY <1>0, Typed DEF Owned, Others, Holds
        <2> QED BY <1>0, <1>1, <1>3, <1>4, <1>5, <2>1, Typed DEF ConnInv, Owned, Others, Holds
    <1>10. SpotAccounting'
        <2>1. CASE f = ZeroFd
            BY <2>1, <1>0, SpotKept, Typed DEF Open
        <2>2. CASE f \in PGconns \ Open
            <3>1. Open' = Open \cup {f}
                BY <2>2, <1>0, <1>4, <1>5 DEF Open
            <3> QED BY <2>2, <3>1, <1>0, SpotTaken, Typed
        <2> QED BY <2>1, <2>2
    <1> QED BY <1>6, <1>7, <1>8, <1>9, <1>10 DEF SafeInv

(* Reuse: the connection of the cached item i becomes r's. *)
LEMMA ReuseItem ==
    ASSUME SafeInv, TypeInv', NEW r \in Requests, NEW i \in Cached,
           ~Holds(r), Others(r), UNCHANGED <<item, dialled, active_conns>>,
           Cached' = Cached \ {i},
           conn' = [conn EXCEPT ![item[i].connection].idle = FALSE],
           peer'[r].connection = item[i].connection,
           peer'[r].pgconn = item[i].pgconn, peer'[r].sockaddr = item[i].sockaddr,
           phase'[r] = "again"
    PROVE  SafeInv'
    <1> DEFINE c == item[i].connection
    <1>0. TypeInv /\ ExclusiveUse /\ PeerInv /\ ItemInv /\ ConnInv /\ SpotAccounting
        BY DEF SafeInv
    <1>1. /\ c \in Connections /\ item[i].pgconn \in PGconns
          /\ conn[c].fd = item[i].pgconn /\ conn[c].idle
          /\ item[i].sockaddr = Addr[dialled[item[i].pgconn]]
        BY <1>0 DEF ItemInv
    <1>2. /\ conn'[c].fd = conn[c].fd /\ conn'[c].handler = conn[c].handler
          /\ conn'[c].idle = FALSE
          /\ \A d \in Connections \ {c} : conn'[d] = conn[d]
        <2>1. conn[c] \in ConnRecords /\ DOMAIN conn = Connections
            BY <1>0, <1>1 DEF TypeInv, KeepaliveTypeOK
        <2> QED BY <2>1, <1>1 DEF ConnRecords
    <1>3. /\ \A s \in Requests : Holds(s) => peer[s].connection # c
          /\ \A j \in Cached : j # i => item[j].connection # c
        BY <1>0 DEF ExclusiveUse
    <1> HIDE DEF c
    <1>6. ExclusiveUse'
        BY <1>0, <1>3 DEF ExclusiveUse, Holds, Others, c
    <1>7. PeerInv'
        <2>1. ASSUME NEW s \in Requests \ {r}, Holds(s)
              PROVE  /\ peer'[s] = peer[s] /\ phase'[s] = phase[s]
                     /\ conn'[peer[s].connection] = conn[peer[s].connection]
            BY <2>1, <1>0, <1>2, <1>3, Typed DEF Others, Holds
        <2>2. \A s \in Requests \ {r} : ~Holds(s) => ~Holds(s)'
            BY DEF Others, Holds
        <2>3. conn'[c].fd # ZeroFd /\ conn'[c].fd # None
            BY <1>0, <1>1, <1>2, Typed
        <2> QED BY <2>1, <2>2, <2>3, <1>0, <1>1, <1>2, SMTT(20)
                DEF PeerInv, Holds, HoldsPlaceholder, HoldsDatabase, c
    <1>8. ItemInv'
        BY <1>0, <1>2, <1>3 DEF ItemInv
    <1>9. ConnInv'
        <2>1. \A d \in Connections : Owned(d) => Owned(d)'
            BY <1>0, Typed DEF Owned, Others, Holds, c
        <2>2. conn[c].fd # None
            BY <1>0, <1>1, Typed
        <2>3. peer'[r].connection = c
            BY DEF c
        <2>4. \A d \in Connections \ {c} : conn[d].idle => conn[d].data # i
            BY <1>0 DEF ConnInv, c
        <2> QED BY <1>0, <1>1, <1>2, <2>1, <2>2, <2>3, <2>4, Typed DEF ConnInv, Others, Holds
    <1>10. SpotAccounting'
        BY <1>0, SpotKept DEF Open
    <1> QED BY <1>6, <1>7, <1>8, <1>9, <1>10 DEF SafeInv

(* Keep: r's connection goes to item i.  If i is in use already, the        *)
(* connection it had is closed.                                             *)
LEMMA KeepInItem ==
    ASSUME SafeInv, TypeInv', NEW r \in Requests, NEW i \in Items, HoldsDatabase(r),
           \A s \in Requests \ {r} : peer'[s] = peer[s] /\ phase'[s] = phase[s],
           phase[r] = "active", peer'[r].connection = None,
           Cached' = Cached \cup {i},
           item' = [item EXCEPT ![i] = [connection |-> peer[r].connection,
                                        pgconn |-> peer[r].pgconn,
                                        sockaddr |-> peer[r].sockaddr]],
           conn'[peer[r].connection] = Parked(conn[peer[r].connection], i),
           \A d \in Connections \ {peer[r].connection} :
              conn'[d] = IF i \in Cached /\ d = item[i].connection THEN FreeConn
                         ELSE conn[d],
           \A p \in PGconns :
              dialled'[p] = IF i \in Cached /\ p = item[i].pgconn THEN None
                            ELSE dialled[p],
           active_conns' = IF i \in Cached THEN Decr(active_conns) ELSE active_conns
    PROVE  SafeInv'
    <1> DEFINE c == peer[r].connection
               q == peer[r].pgconn
    <1>0. TypeInv /\ ExclusiveUse /\ PeerInv /\ ItemInv /\ ConnInv /\ SpotAccounting
        BY DEF SafeInv
    <1>1. /\ c \in Connections /\ conn[c].fd = q /\ q \in PGconns
          /\ peer[r].sockaddr = Addr[dialled[q]] /\ dialled[q] # None
        BY <1>0, Typed DEF HoldsDatabase, Holds, PeerInv, ConnInv
    <1>2. /\ conn'[c].fd = q /\ conn'[c].handler = "keepalive" /\ conn'[c].idle
          /\ conn'[c].timers = {} /\ conn'[c].data = i
        <2>1. conn[c] \in ConnRecords
            BY <1>0, <1>1 DEF TypeInv, KeepaliveTypeOK
        <2> QED BY <2>1, <1>1 DEF ConnRecords, Parked
    <1>3. /\ \A s \in Requests \ {r} : Holds(s) => peer[s].connection # c
          /\ \A j \in Cached : item[j].connection # c
        BY <1>0, <1>1, Typed DEF ExclusiveUse, HoldsDatabase
    <1>4. \A j \in Cached : item[j].pgconn # q
        BY <1>0, <1>1, <1>3, Typed DEF ItemInv, ConnInv
    <1>5. /\ item'[i].connection = c /\ item'[i].pgconn = q
          /\ item'[i].sockaddr = peer[r].sockaddr
          /\ \A j \in Cached \ {i} : item'[j] = item[j]
        BY <1>0, Typed DEF TypeInv, KeepaliveTypeOK
    <1>6. \A s \in Requests \ {r} : Holds(s) => conn'[peer[s].connection] = conn[peer[s].connection]
        BY <1>0, <1>3, Typed DEF ExclusiveUse, Holds
    <1>7. \A s \in Requests \ {r} : HoldsDatabase(s) =>
             dialled'[peer[s].pgconn] = dialled[peer[s].pgconn]
        <2> SUFFICES ASSUME NEW s \in Requests \ {r}, HoldsDatabase(s), i \in Cached,
                            peer[s].pgconn = item[i].pgconn
                     PROVE  FALSE
            BY <1>0, Typed DEF HoldsDatabase, Holds, PeerInv
        <2>1. /\ conn[peer[s].connection].fd = conn[item[i].connection].fd
              /\ conn[item[i].connection].fd \in PGconns
              /\ peer[s].connection \in Connections /\ item[i].connection \in Connections
            BY <1>0, Typed DEF HoldsDatabase, Holds, PeerInv, ItemInv
        <2> QED BY <2>1, <1>0 DEF ConnInv, ExclusiveUse, HoldsDatabase
    <1>8. \A j \in Cached \ {i} :
             /\ conn'[item[j].connection] = conn[item[j].connection]
             /\ dialled'[item[j].pgconn] = dialled[item[j].pgconn]
        <2> TAKE j \in Cached \ {i}
        <2>1. /\ item[j].connection \in Connections \ {c} /\ item[j].pgconn \in PGconns
              /\ conn[item[j].connection].fd = item[j].pgconn
            BY <1>0, <1>3 DEF ItemInv
        <2>2. i \in Cached => item[j].connection # item[i].connection
            BY <1>0 DEF ExclusiveUse
        <2>3. i \in Cached => item[j].pgconn # item[i].pgconn
            BY <2>1, <2>2, <1>0 DEF ItemInv, ConnInv
        <2> QED BY <2>1, <2>2, <2>3
    <1> HIDE DEF c, q
    <1>9. ExclusiveUse'
        BY <1>0, <1>3, <1>5 DEF ExclusiveUse, Holds
    <1>10. PeerInv'
        <2>1. \A s \in Requests \ {r} : ~Holds(s) => ~Holds(s)'
            BY DEF Holds
        <2> QED BY <1>0, <1>6, <1>7, <2>1
                DEF PeerInv, Holds, HoldsPlaceholder, HoldsDatabase
    <1>11. ItemInv'
        <2>1. dialled'[q] = dialled[q]
            BY <1>1, <1>4
        <2> SUFFICES ASSUME NEW j \in Cached'
                     PROVE  LET d == item'[j].connection
                            IN  /\ d \in Connections
                                /\ item'[j].pgconn \in PGconns
                                /\ conn'[d].fd = item'[j].pgconn
                                /\ item'[j].sockaddr = Addr[dialled'[item'[j].pgconn]]
                                /\ conn'[d].data = j /\ conn'[d].handler = "keepalive"
                                /\ conn'[d].idle /\ conn'[d].timers = {}
            BY DEF ItemInv
        <2>2. CASE j = i
            BY <2>1, <2>2, <1>1, <1>2, <1>5
        <2>3. CASE j # i
            <3>1. j \in Cached \ {i} /\ item'[j] = item[j]
                BY <2>3, <1>5
            <3>2. /\ conn'[item[j].connection] = conn[item[j].connection]
                  /\ dialled'[item[j].pgconn] = dialled[item[j].pgconn]
                BY <3>1, <1>8
            <3>3. /\ item[j].connection \in Connections /\ item[j].pgconn \in PGconns
                  /\ conn[item[j].connection].fd = item[j].pgconn
                  /\ item[j].sockaddr = Addr[dialled[item[j].pgconn]]
                  /\ conn[item[j].connection].data = j
                  /\ conn[item[j].connection].handler = "keepalive"
                  /\ conn[item[j].connection].idle /\ conn[item[j].connection].timers = {}
                BY <3>1, <1>0 DEF ItemInv
            <3> QED BY <3>1, <3>2, <3>3
        <2> QED BY <2>2, <2>3
    <1>12. ConnInv'
        <2>1. ASSUME NEW d \in Connections, conn'[d].fd # None PROVE Owned(d)'
            <3>1. CASE d = c
                BY <3>1, <1>5 DEF Owned
            <3>2. CASE d # c
                <4>1. conn'[d] = conn[d] /\ (i \in Cached => d # item[i].connection)
                    BY <2>1, <3>2 DEF FreeConn, c
                <4>2. Owned(d)
                    BY <4>1, <2>1, <1>0 DEF ConnInv
                <4> QED BY <4>1, <4>2, <3>2, <1>5 DEF Owned, c
            <3> QED BY <3>1, <3>2
        <2>2. \A d \in Connections : conn'[d].fd = None => ~conn'[d].idle /\ conn'[d].handler = "none"
            BY <1>0, <1>1, <1>2, Typed DEF ConnInv, FreeConn, c
        <2>3. ASSUME NEW d \in Connections, conn'[d].idle
              PROVE conn'[d].data \in Cached' /\ item'[conn'[d].data].connection = d
            <3>1. CASE d = c
                BY <3>1, <1>2, <1>5
            <3>2. CASE d # c
                <4>1. conn'[d] = conn[d] /\ (i \in Cached => d # item[i].connection)
                    BY <2>3, <3>2 DEF FreeConn, c
                <4>2. conn[d].data \in Cached /\ item[conn[d].data].connection = d
                    BY <4>1, <2>3, <1>0 DEF ConnInv
                <4> QED BY <4>1, <4>2, <1>5
            <3> QED BY <3>1, <3>2
        <2>4. ASSUME NEW d \in Connections, conn'[d].handler = "keepalive", ~conn'[d].idle
              PROVE  \E s \in Requests : phase'[s] = "again" /\ peer'[s].connection = d
            <3>1. d # c /\ conn'[d] = conn[d]
                BY <2>4, <1>2 DEF FreeConn, c
            <3> QED BY <3>1, <2>4, <1>0 DEF ConnInv, c
        <2>5. \A d, e \in Connections :
                 conn'[d].fd \in PGconns /\ conn'[d].fd = conn'[e].fd => d = e
            BY <1>0, <1>1, <1>2, Typed DEF ConnInv, FreeConn, c
        <2>6. ASSUME NEW p \in PGconns
              PROVE  dialled'[p] # None <=> \E d \in Connections : conn'[d].fd = p
            <3>1. CASE i \in Cached /\ p = item[i].pgconn
                BY <3>1, <1>0, <1>1, <1>2, <1>4, Typed DEF ConnInv, ItemInv, FreeConn, c
            <3>2. CASE ~(i \in Cached /\ p = item[i].pgconn)
                BY <3>2, <1>0, <1>1, <1>2, Typed DEF ConnInv, ItemInv, FreeConn, c
            <3> QED BY <3>1, <3>2
        <2> QED BY <2>1, <2>2, <2>3, <2>4, <2>5, <2>6 DEF ConnInv
    <1>13. SpotAccounting'
        <2>1. CASE i \in Cached
            <3>1. item[i].pgconn \in Open /\ Open' = Open \ {item[i].pgconn}
                BY <2>1, <1>0 DEF Open, ItemInv, ConnInv
            <3> QED BY <2>1, <3>1, <1>0, SpotGiven
        <2>2. CASE i \notin Cached
            BY <2>2, <1>0, SpotKept DEF Open
        <2> QED BY <2>1, <2>2
    <1> QED BY <1>9, <1>10, <1>11, <1>12, <1>13 DEF SafeInv

(* Release: r's connection c, a placeholder or a database connection, is    *)
(* freed.                                                                   *)
LEMMA Release ==
    ASSUME SafeInv, TypeInv', NEW r \in Requests, NEW c \in Connections,
           peer[r].connection = c, Others(r), item' = item, Cached' = Cached,
           peer'[r].connection = None, conn' = [conn EXCEPT ![c] = FreeConn],
           \/ HoldsPlaceholder(r) /\ UNCHANGED <<dialled, active_conns>>
           \/ /\ HoldsDatabase(r)
              /\ dialled' = Finish(dialled, peer[r].pgconn)
              /\ active_conns' = Decr(active_conns)
    PROVE  SafeInv'
    <1> DEFINE f == conn[c].fd
    <1>0. TypeInv /\ ExclusiveUse /\ PeerInv /\ ItemInv /\ ConnInv /\ SpotAccounting
        BY DEF SafeInv
    <1>1. /\ conn'[c] = FreeConn
          /\ \A d \in Connections \ {c} : conn'[d] = conn[d]
        BY <1>0 DEF TypeInv, KeepaliveTypeOK
    <1>2. /\ \A s \in Requests \ {r} : Holds(s) => peer[s].connection # c
          /\ \A j \in Cached : item[j].connection # c
        BY <1>0, Typed DEF ExclusiveUse, Holds
    <1>3. /\ f # None /\ f \in PGconns \cup {ZeroFd}
          /\ f \in PGconns => f = peer[r].pgconn
        BY <1>0, Typed DEF PeerInv, Holds, HoldsDatabase
    <1>4. /\ \A p \in PGconns \ {f} : dialled'[p] = dialled[p]
          /\ f \in PGconns => dialled'[f] = None /\ dialled[f] # None
        BY <1>0, <1>3, Typed DEF TypeInv, KeepaliveTypeOK, HoldsPlaceholder, HoldsDatabase,
                                 Finish, ConnInv
    <1>5. \A d \in Connections \ {c} : f \in PGconns => conn[d].fd # f
        BY <1>0 DEF ConnInv
    <1> HIDE DEF f
    <1>6. ExclusiveUse'
        BY <1>0, <1>2 DEF ExclusiveUse, Holds, Others
    <1>7. PeerInv'
        <2>1. ASSUME NEW s \in Requests \ {r}, Holds(s)
              PROVE  /\ peer'[s] = peer[s] /\ phase'[s] = phase[s]
                     /\ peer[s].connection \in Connections \ {c}
                     /\ conn'[peer[s].connection] = conn[peer[s].connection]
                     /\ (HoldsDatabase(s) => peer[s].pgconn \in PGconns \ {f})
            BY <2>1, <1>0, <1>1, <1>2, <1>5, Typed DEF Others, Holds, HoldsDatabase, PeerInv
        <2>2. \A s \in Requests \ {r} : ~Holds(s) => ~Holds(s)'
            BY DEF Others, Holds
        <2> QED BY <2>1, <2>2, <1>0, <1>4
                DEF PeerInv, Holds, HoldsPlaceholder, HoldsDatabase
    <1>8. ItemInv'
        BY <1>0, <1>1, <1>2, <1>4, <1>5 DEF ItemInv
    <1>9. ConnInv'
        <2>1. \A d \in Connections \ {c} : Owned(d) => Owned(d)'
            BY <1>0, Typed DEF Owned, Others, Holds
        <2>2. \A d \in Connections \ {c}, s \in Requests :
                 phase[s] = "again" /\ peer[s].connection = d
                 => phase'[s] = "again" /\ peer'[s].connection = d
            BY DEF Others
        <2>3. /\ conn'[c].fd = None /\ conn'[c].idle = FALSE
              /\ conn'[c].handler = "none"
            BY <1>1 DEF FreeConn
        <2>4. \A d \in Connections \ {c} : conn'[d].idle =>
                 conn'[d].data \in Cached' /\ item'[conn'[d].data].connection = d
            BY <1>0, <1>1 DEF ConnInv
        <2>5. \A p \in PGconns :
                 dialled'[p] # None <=> \E d \in Connections : conn'[d].fd = p
            BY <1>0, <1>1, <1>3, <1>4, <1>5, <2>3, Typed DEF ConnInv, f
        <2>6. \A d, e \in Connections :
                 conn'[d].fd \in PGconns /\ conn'[d].fd = conn'[e].fd => d = e
            BY <1>0, <1>1, <2>3, Typed DEF ConnInv
        <2> QED BY <1>0, <1>1, <2>1, <2>2, <2>3, <2>4, <2>5, <2>6 DEF ConnInv
    <1>10. SpotAccounting'
        <2>1. CASE HoldsPlaceholder(r) /\ UNCHANGED <<dialled, active_conns>>
            BY <2>1, <1>0, SpotKept DEF Open
        <2>2. CASE HoldsDatabase(r) /\ active_conns' = Decr(active_conns)
            <3>1. f \in PGconns
                BY <2>2, <1>3 DEF HoldsDatabase, f
            <3>2. f \in Open /\ Open' = Open \ {f}
                BY <3>1, <1>4 DEF Open
            <3> QED BY <2>2, <3>2, <1>0, SpotGiven
        <2> QED BY <2>1, <2>2
    <1> QED BY <1>6, <1>7, <1>8, <1>9, <1>10 DEF SafeInv

(* Close: the connection of the cached item i is closed. *)
LEMMA CloseItem ==
    ASSUME SafeInv, TypeInv', NEW i \in Cached, NEW c \in Connections,
           item[i].connection = c, UNCHANGED <<item, peer, phase>>,
           Cached' = Cached \ {i}, conn' = [conn EXCEPT ![c] = FreeConn],
           dialled' = Finish(dialled, item[i].pgconn),
           active_conns' = Decr(active_conns)
    PROVE  SafeInv'
    <1> DEFINE q == item[i].pgconn
    <1>0. TypeInv /\ ExclusiveUse /\ PeerInv /\ ItemInv /\ ConnInv /\ SpotAccounting
        BY DEF SafeInv
    <1>1. /\ conn'[c] = FreeConn
          /\ \A d \in Connections \ {c} : conn'[d] = conn[d]
        BY <1>0 DEF TypeInv, KeepaliveTypeOK
    <1>2. /\ \A s \in Requests : Holds(s) => peer[s].connection # c
          /\ \A j \in Cached \ {i} : item[j].connection # c
        BY <1>0 DEF ExclusiveUse
    <1>3. /\ q \in PGconns /\ conn[c].fd = q /\ q # None
          /\ dialled[q] # None /\ conn[c].idle
        BY <1>0, Typed DEF ItemInv, ConnInv
    <1>4. /\ \A p \in PGconns \ {q} : dialled'[p] = dialled[p]
          /\ dialled'[q] = None
        BY <1>0, <1>3 DEF TypeInv, KeepaliveTypeOK, Finish
    <1>5. \A d \in Connections \ {c} : conn[d].fd # q
        BY <1>0, <1>3 DEF ConnInv
    <1> HIDE DEF q
    <1>6. ExclusiveUse'
        BY <1>0 DEF ExclusiveUse, Holds
    <1>7. PeerInv'
        <2>1. \A s \in Requests : Holds(s) =>
                 /\ conn'[peer[s].connection] = conn[peer[s].connection]
                 /\ HoldsDatabase(s) => peer[s].pgconn \in PGconns \ {q}
            BY <1>0, <1>1, <1>2, <1>5, Typed DEF Holds, HoldsDatabase, PeerInv
        <2> QED BY <2>1, <1>0, <1>4 DEF PeerInv, Holds, HoldsPlaceholder, HoldsDatabase
    <1>8. ItemInv'
        BY <1>0, <1>1, <1>2, <1>4, <1>5 DEF ItemInv
    <1>9. ConnInv'
        <2>1. \A d \in Connections \ {c} : Owned(d) => Owned(d)'
            BY DEF Owned
        <2>3. /\ conn'[c].fd = None /\ conn'[c].idle = FALSE
              /\ conn'[c].handler = "none"
            BY <1>1 DEF FreeConn
        <2>4. \A d \in Connections \ {c} : conn'[d].idle =>
                 conn'[d].data \in Cached' /\ item'[conn'[d].data].connection = d
            BY <1>0, <1>1 DEF ConnInv
        <2>5. \A p \in PGconns :
                 dialled'[p] # None <=> \E d \in Connections : conn'[d].fd = p
            BY <1>0, <1>1, <1>3, <1>4, <1>5, <2>3, Typed DEF ConnInv
        <2>6. \A d, e \in Connections :
                 conn'[d].fd \in PGconns /\ conn'[d].fd = conn'[e].fd => d = e
            BY <1>0, <1>1, <2>3, Typed DEF ConnInv
        <2> QED BY <1>0, <1>1, <2>1, <2>3, <2>4, <2>5, <2>6 DEF ConnInv
    <1>10. SpotAccounting'
        <2>1. q \in Open /\ Open' = Open \ {q}
            BY <1>3, <1>4 DEF Open
        <2> QED BY <2>1, <1>0, SpotGiven
    <1> QED BY <1>6, <1>7, <1>8, <1>9, <1>10 DEF SafeInv

(* Close all: the cleanup. *)
LEMMA CountCached ==
    ASSUME SafeInv
    PROVE  Cardinality({item[i].pgconn : i \in Cached}) = Len(cache)
    <1> DEFINE P == {item[i].pgconn : i \in Cached}
               f == [k \in 1..Len(cache) |-> item[cache[k]].pgconn]
    <1>0. TypeInv /\ ExclusiveUse /\ ItemInv /\ ConnInv
        BY DEF SafeInv
    <1>1. /\ cache \in Seq(Items) /\ Len(cache) \in Nat /\ DOMAIN cache = 1..Len(cache)
          /\ IsInjective(cache)
        BY <1>0 DEF TypeInv, KeepaliveTypeOK, QueuesPartition
    <1>2. \A i, j \in Cached : item[i].pgconn = item[j].pgconn => i = j
        BY <1>0 DEF ItemInv, ConnInv, ExclusiveUse
    <1>3. \A k \in 1..Len(cache) : cache[k] \in Cached
        BY <1>1 DEF Cached, Range
    <1>4. f \in Injection(1..Len(cache), P)
        <2>1. f \in [1..Len(cache) -> P]
            BY <1>3
        <2>2. \A k, l \in 1..Len(cache) : f[k] = f[l] => k = l
            BY <1>1, <1>2, <1>3 DEF IsInjective
        <2> QED BY <2>1, <2>2 DEF Injection, IsInjective
    <1>5. f \in Surjection(1..Len(cache), P)
        <2>1. ASSUME NEW p \in P PROVE \E k \in 1..Len(cache) : f[k] = p
            <3>1. PICK i \in Cached : p = item[i].pgconn
                OBVIOUS
            <3>2. PICK k \in 1..Len(cache) : cache[k] = i
                BY <1>1 DEF Cached, Range
            <3> QED BY <3>1, <3>2
        <2> QED BY <2>1, <1>3 DEF Surjection
    <1>6. ExistsBijection(1..Len(cache), P)
        BY <1>4, <1>5 DEF ExistsBijection, Bijection
    <1> QED BY <1>1, <1>6, FS_CountingElements

LEMMA CloseAll ==
    ASSUME SafeInv, TypeInv', Cleanup
    PROVE  SafeInv'
    <1> DEFINE gone == {item[i].connection : i \in Cached}
               finished == {item[i].pgconn : i \in Cached}
    <1>0. TypeInv /\ ExclusiveUse /\ PeerInv /\ ItemInv /\ ConnInv /\ SpotAccounting
        BY DEF SafeInv
    <1>1. CASE MaxCached = 0
        <2>1. Cached' = Cached
            BY <1>1 DEF Cleanup, Cached
        <2> QED BY <1>1, <2>1, Nothing DEF Cleanup
    <1>2. CASE MaxCached # 0
        <2>1. /\ Cached' = {} /\ UNCHANGED <<item, peer, phase>>
              /\ \A c \in Connections : conn'[c] = IF c \in gone THEN FreeConn ELSE conn[c]
              /\ \A p \in PGconns : dialled'[p] = IF p \in finished THEN None ELSE dialled[p]
              /\ active_conns' = (active_conns - Len(cache)) % (UintMax + 1)
            BY <1>2 DEF Cleanup, Cached, Range
        <2>2. \A c \in gone : c \in Connections /\ conn[c].idle /\ conn[c].fd \in finished
            BY <1>0 DEF ItemInv
        <2>3. \A c \in Connections : c \notin gone => ~conn[c].idle /\ conn[c].fd \notin finished
            BY <1>0 DEF ConnInv, ItemInv
        <2>4. \A r \in Requests : Holds(r) => peer[r].connection \in Connections \ gone
            BY <1>0, Typed DEF ExclusiveUse, Holds
        <2>5. finished \subseteq Open
            BY <1>0 DEF ItemInv, ConnInv, Open
        <2>6. FreeConn.fd = None /\ FreeConn.idle = FALSE /\ FreeConn.handler = "none"
            BY DEF FreeConn
        <2> HIDE DEF gone, finished
        <2>7. ExclusiveUse'
            BY <1>0, <2>1 DEF ExclusiveUse, Holds
        <2>8. PeerInv'
            <3>1. \A r \in Requests : Holds(r) =>
                     /\ conn'[peer[r].connection] = conn[peer[r].connection]
                     /\ HoldsDatabase(r) => dialled'[peer[r].pgconn] = dialled[peer[r].pgconn]
                BY <1>0, <2>1, <2>3, <2>4, Typed DEF Holds, HoldsDatabase, PeerInv
            <3> QED BY <1>0, <2>1, <3>1 DEF PeerInv, Holds, HoldsPlaceholder, HoldsDatabase
        <2>9. ItemInv'
            BY <2>1 DEF ItemInv
        <2>10. ConnInv'
            <3>1. \A c \in Connections : c \notin gone /\ Owned(c) => Owned(c)'
                BY <2>1 DEF Owned, gone
            <3>2. \A p \in PGconns :
                     dialled'[p] # None <=> \E c \in Connections : conn'[c].fd = p
                BY <1>0, <2>1, <2>2, <2>3, <2>6, Typed DEF ConnInv
            <3>3. \A d, e \in Connections :
                     conn'[d].fd \in PGconns /\ conn'[d].fd = conn'[e].fd => d = e
                BY <1>0, <2>1, <2>6, Typed DEF ConnInv
            <3> QED BY <1>0, <2>1, <2>3, <2>6, <3>1, <3>2, <3>3 DEF ConnInv
        <2>11. SpotAccounting'
            <3>1. Open' = Open \ finished
                BY <2>1, <2>5 DEF Open
            <3>2. IsFiniteSet(finished) /\ Cardinality(finished) = Len(cache)
                BY <2>5, OpenFinite, FS_Subset, CountCached DEF finished
            <3>3. Cardinality(Open') = Cardinality(Open) - Cardinality(Open \cap finished)
                BY <3>1, <3>2, OpenFinite, FS_Difference
            <3>4. Open \cap finished = finished
                BY <2>5
            <3>5. Len(cache) \in Nat /\ Len(cache) <= Cardinality(Open)
                BY <2>5, <3>2, OpenFinite, FS_Subset, FS_CardinalityType
            <3>6. active_conns - Len(cache) \in 0..UintMax
                BY <1>0, <3>5, OpenFinite, ResourceAssumption DEF SpotAccounting
            <3>7. \A n \in 0..UintMax : n % (UintMax + 1) = n
                BY ResourceAssumption
            <3> QED BY <1>0, <2>1, <3>2, <3>3, <3>4, <3>6, <3>7 DEF SpotAccounting
        <2> QED BY <2>7, <2>8, <2>9, <2>10, <2>11 DEF SafeInv
    <1> QED BY <1>1, <1>2

-----------------------------------------------------------------------------
(* The actions *)

LEMMA SafeInit == Init => SafeInv
    <1> SUFFICES ASSUME Init PROVE SafeInv
        OBVIOUS
    <1>1. /\ \A c \in Connections : conn[c].fd = None /\ conn[c].idle = FALSE
                                    /\ conn[c].handler = "none"
          /\ \A r \in Requests : peer[r].connection = None
          /\ \A p \in PGconns : dialled[p] = None
          /\ Cached = {} /\ Open = {} /\ active_conns = 0
        BY DEF Init, FreeConn, NewPeer, Cached, Range, Open
    <1>2. ExclusiveUse /\ PeerInv /\ ItemInv
        BY <1>1 DEF ExclusiveUse, PeerInv, ItemInv, Holds, HoldsPlaceholder, HoldsDatabase
    <1>3. ConnInv
        BY <1>1, NullAssumption DEF ConnInv
    <1>4. SpotAccounting
        BY <1>1, FS_EmptySet DEF SpotAccounting
    <1> QED BY <1>2, <1>3, <1>4, TypeInit DEF SafeInv

(* A connection that a request holds is not idle. *)
LEMMA HeldNotIdle ==
    ASSUME SafeInv, NEW r \in Requests, Holds(r)
    PROVE  peer[r].connection \in Connections /\ ~conn[peer[r].connection].idle
    <1>1. TypeInv /\ ExclusiveUse /\ ConnInv
        BY DEF SafeInv
    <1> QED BY <1>1, Typed DEF ExclusiveUse, ConnInv, Holds

LEMMA SafeAttach ==
    ASSUME SafeInv, TypeInv', NEW r \in Requests, Attach(r)
    PROVE  SafeInv'
    <1> DEFINE c == peer[r].connection
    <1>0. TypeInv /\ ExclusiveUse /\ PeerInv /\ ItemInv /\ ConnInv /\ SpotAccounting
        BY DEF SafeInv
    <1>1. /\ Holds(r) /\ c \in Connections /\ ~conn[c].idle /\ conn[c] \in ConnRecords
        BY <1>0, HeldNotIdle DEF Attach, Holds, TypeInv, KeepaliveTypeOK
    <1>2. /\ UNCHANGED <<item, dialled, active_conns, peer>> /\ Cached' = Cached
          /\ \A s \in Requests \ {r} : phase'[s] = phase[s]
          /\ phase'[r] = IF conn[c].fd = ZeroFd THEN "placeholder" ELSE "active"
        BY <1>0 DEF Attach, poolVars, Cached, TypeInv, KeepaliveTypeOK
    <1>3. /\ conn'[c].fd = conn[c].fd /\ conn'[c].idle = conn[c].idle
          /\ conn'[c].handler = "upstream"
          /\ \A d \in Connections \ {c} : conn'[d] = conn[d]
        <2>1. conn' = [conn EXCEPT ![c] = Attached(@, r)] /\ DOMAIN conn = Connections
            BY <1>0 DEF Attach, TypeInv, KeepaliveTypeOK
        <2> QED BY <2>1, <1>1 DEF Attached, ConnRecords
    <1>4. \A s \in Requests \ {r} : Holds(s) => peer[s].connection # c
        BY <1>0, <1>1 DEF ExclusiveUse
    <1>5. \A i \in Cached : item[i].connection \in Connections \ {c}
        BY <1>0, <1>1 DEF ItemInv, ExclusiveUse
    <1> HIDE DEF c
    <1>6. ExclusiveUse'
        BY <1>0, <1>2 DEF ExclusiveUse, Holds
    <1>7. PeerInv'
        <2>1. \A s \in Requests : Holds(s) =>
                 conn'[peer[s].connection].fd = conn[peer[s].connection].fd
            BY <1>0, <1>3, Typed DEF Holds
        <2> QED BY <1>0, <1>1, <1>2, <2>1 DEF PeerInv, Holds, HoldsPlaceholder, HoldsDatabase, c
    <1>8. ItemInv'
        BY <1>0, <1>2, <1>3, <1>5 DEF ItemInv
    <1>9. ConnInv'
        <2>1. \A d \in Connections : Owned(d)' <=> Owned(d)
            BY <1>2 DEF Owned
        <2>2. conn[c].fd # None
            BY <1>0, <1>1 DEF PeerInv, c
        <2>3. /\ \A d \in Connections : conn'[d].fd = conn[d].fd /\ conn'[d].idle = conn[d].idle
              /\ \A d \in Connections : conn[d].idle => conn'[d].data = conn[d].data
            BY <1>1, <1>3
        <2> QED BY <1>0, <1>1, <1>2, <1>3, <1>4, <2>1, <2>2, <2>3, Typed DEF ConnInv, c
    <1>10. SpotAccounting'
        BY <1>0, <1>2, SpotKept DEF Open
    <1> QED BY <1>6, <1>7, <1>8, <1>9, <1>10 DEF SafeInv

LEMMA SafeFreePeer ==
    ASSUME SafeInv, TypeInv', NEW r \in Requests, NEW failed \in BOOLEAN, NEW ok \in BOOLEAN,
           FreePeer(r, failed, ok), ~HoldsPlaceholder(r), ok => phase[r] = "active",
           \A s \in Requests \ {r} : phase'[s] = phase[s]
    PROVE  SafeInv'
    <1> DEFINE c == peer[r].connection
    <1>0. TypeInv /\ ExclusiveUse /\ PeerInv /\ ItemInv /\ ConnInv /\ SpotAccounting
        BY DEF SafeInv
    <1>t. /\ conn \in [Connections -> ConnRecords] /\ peer \in [Requests -> PeerRecords]
          /\ dialled \in [PGconns -> Peers \cup {None}] /\ cache \in Seq(Items)
          /\ c \in Connections \cup {None}
        BY <1>0, Typed DEF TypeInv, KeepaliveTypeOK
    <1>1. CASE SavePeer(r, failed, ok)
        <2> DEFINE evict == free = <<>>
                   i == IF evict THEN cache[Len(cache)] ELSE free[1]
        <2>0. QueueInv /\ MaxCached > 0 /\ worker = "running" /\ worker' = worker
            BY <1>0, <1>1, PoolAssumption
               DEF QueueInv, TypeInv, KeepaliveTypeOK, SavePeer, FreePeer
        <2>1. /\ i \in Items /\ Cached' = Cached \cup {i} /\ (i \in Cached <=> evict)
            <3>1. CASE evict
                <4>1. cache # <<>>
                    BY <2>0, <3>1, NoneFree
                <4>2. free' = free
                      /\ cache' = InsertHead(RemoveIndex(cache, Len(cache)), cache[Len(cache)])
                    BY <1>1, <3>1 DEF SavePeer
                <4>3. cache[Len(cache)] \in Cached /\ Cached' = Cached
                    BY <2>0, <4>1, <4>2, RotateItem
                <4> QED BY <3>1, <4>3, <1>0, Typed
            <3>2. CASE ~evict
                BY <1>1, <2>0, <3>2, PutItem DEF SavePeer
            <3> QED BY <3>1, <3>2
        <2>2. /\ c \in Connections /\ HoldsDatabase(r) /\ phase[r] = "active"
            BY <1>1, <1>t DEF SavePeer, HoldsDatabase, HoldsPlaceholder, Holds
        <2>3. /\ conn' = [(IF evict THEN FreeConnection(conn, item[i].connection)
                           ELSE conn) EXCEPT ![c] = Parked(@, i)]
              /\ dialled' = IF evict THEN Finish(dialled, item[i].pgconn) ELSE dialled
              /\ active_conns' = IF evict THEN Decr(active_conns) ELSE active_conns
              /\ item' = [item EXCEPT ![i] = [connection |-> c, pgconn |-> peer[r].pgconn,
                                              sockaddr |-> peer[r].sockaddr]]
              /\ peer' = [peer EXCEPT ![r] = Detached(@)]
            BY <1>1 DEF SavePeer
        <2> HIDE DEF i
        <2>4. /\ peer'[r].connection = None
              /\ \A s \in Requests \ {r} : peer'[s] = peer[s]
            <3>1. peer[r] \in PeerRecords
                BY <1>t
            <3> QED BY <2>3, <3>1, <1>t DEF Detached, PeerRecords
        <2>5. evict => /\ item[i].connection \in Connections \ {c, None}
                       /\ item[i].pgconn \in PGconns \ {None}
            BY <1>0, <2>1, <2>2, Typed DEF ItemInv, ExclusiveUse, HoldsDatabase
        <2>6. conn'[c] = Parked(conn[c], i)
            BY <2>3, <2>2, <2>5, <1>t DEF FreeConnection
        <2>7. \A d \in Connections \ {c} :
                 conn'[d] = IF i \in Cached /\ d = item[i].connection THEN FreeConn ELSE conn[d]
            BY <2>1, <2>3, <2>2, <2>5, <1>t DEF FreeConnection
        <2>8. \A p \in PGconns :
                 dialled'[p] = IF i \in Cached /\ p = item[i].pgconn THEN None ELSE dialled[p]
            BY <2>1, <2>3, <2>5, <1>t DEF Finish
        <2> QED BY <2>1, <2>2, <2>3, <2>4, <2>6, <2>7, <2>8, KeepInItem, ZenonT(60)
    <1>2. CASE ClosePeer(r, failed, ok)
        <2>0. UNCHANGED item /\ Cached' = Cached
            BY <1>2 DEF ClosePeer, Cached
        <2>1. CASE c = None
            <3>1. /\ UNCHANGED <<conn, dialled, active_conns>>
                  /\ \A s \in Requests \ {r} : peer'[s] = peer[s]
                  /\ peer'[r].connection = None
                BY <1>2, <2>1, <1>t DEF ClosePeer, PeerRecords
            <3> QED BY <2>0, <2>1, <3>1, Nothing DEF Holds
        <2>2. CASE c # None
            <3>1. c \in Connections /\ HoldsDatabase(r)
                BY <2>2, <1>t DEF HoldsDatabase, HoldsPlaceholder, Holds
            <3>2. /\ conn' = [conn EXCEPT ![c] = FreeConn]
                  /\ dialled' = Finish(dialled, peer[r].pgconn)
                  /\ active_conns' = Decr(active_conns)
                  /\ \A s \in Requests \ {r} : peer'[s] = peer[s]
                  /\ peer'[r].connection = None
                <4>1. peer[r] \in PeerRecords
                    BY <1>t
                <4>2. peer' = [peer EXCEPT ![r] =
                                 [@ EXCEPT !.connection = None, !.pgconn = None,
                                           !.failed = peer[r].failed \/ (failed /\ max_cached > 0)]]
                    BY <1>2, <2>2 DEF ClosePeer
                <4> QED BY <1>2, <2>2, <4>1, <4>2, <1>t DEF ClosePeer, FreeConnection, PeerRecords
            <3> QED BY <2>0, <3>1, <3>2, Release DEF Others
        <2> QED BY <2>1, <2>2
    <1> QED BY <1>1, <1>2 DEF FreePeer

LEMMA SafeReuse ==
    ASSUME SafeInv, TypeInv', NEW r \in Requests, NEW k \in DOMAIN cache, phase[r] = "new",
           worker = "running", Reuse(r, k, item[cache[k]].sockaddr)
    PROVE  SafeInv'
    <1> DEFINE i == cache[k]
    <1>0. TypeInv /\ PeerInv
        BY DEF SafeInv
    <1>1. i \in Cached /\ QueueInv
        BY <1>0 DEF Cached, Range, QueueInv, TypeInv, KeepaliveTypeOK
    <1>2. Cached' = Cached \ {i}
        BY <1>1, TakeItem DEF Reuse
    <1>3. ~Holds(r)
        BY <1>0 DEF PeerInv
    <1>4. /\ peer' = [peer EXCEPT ![r] = Taken(@, i, item[i].sockaddr)]
          /\ phase' = [phase EXCEPT ![r] = "again"]
          /\ peer \in [Requests -> PeerRecords] /\ phase \in [Requests -> Phases]
        BY <1>0 DEF Reuse, TypeInv, KeepaliveTypeOK
    <1> HIDE DEF i
    <1>5. /\ peer'[r].connection = item[i].connection /\ peer'[r].pgconn = item[i].pgconn
          /\ peer'[r].sockaddr = item[i].sockaddr
          /\ phase'[r] = "again" /\ Others(r)
        <2>1. peer[r] \in PeerRecords
            BY <1>4
        <2> QED BY <1>4, <2>1 DEF Taken, PeerRecords, Others
    <1>6. /\ UNCHANGED <<item, dialled, active_conns>>
          /\ conn' = [conn EXCEPT ![item[i].connection].idle = FALSE]
        BY DEF Reuse, i
    <1> QED BY <1>1, <1>2, <1>3, <1>5, <1>6, ReuseItem

(* get_peer without a cached connection leaves the request in one of these  *)
(* ways.                                                                    *)
LEMMA LeaveFacts ==
    ASSUME TypeInv, NEW r \in Requests, NEW c, NEW p, NEW rc, Leave(r, c, p, rc)
    PROVE  /\ Others(r) /\ phase'[r] = rc
           /\ peer'[r].connection = c /\ peer'[r].pgconn = p
           /\ peer'[r].sockaddr = Addr[Chosen]
           /\ ~peer'[r].cached /\ ~peer'[r].failed
    <1>1. /\ peer \in [Requests -> PeerRecords] /\ phase \in [Requests -> Phases]
          /\ peer[r] \in PeerRecords
        BY DEF TypeInv, KeepaliveTypeOK
    <1> QED BY <1>1 DEF Leave, Others, PeerRecords

LEMMA SafeMisses ==
    ASSUME SafeInv, TypeInv', "ngx_add_event" \notin MayFail, NEW r \in Requests
    PROVE  RejectPeer(r) \/ ConnectNoMemory(r) \/ ConnectDeclined(r)
           \/ ConnectInvalid(r) \/ ConnectBadAdd(r) \/ ConnectPeer(r) => SafeInv'
    <1>0. TypeInv /\ PeerInv /\ conn \in [Connections -> ConnRecords]
          /\ active_conns \in 0..UintMax /\ Chosen \in Peers
        BY ChosenRange DEF SafeInv, TypeInv, KeepaliveTypeOK
    <1>1. MissesCache(r) => /\ ~Holds(r) /\ item' = item /\ Cached' = Cached
                            /\ peer[r].connection = None
        BY <1>0 DEF MissesCache, GetPeer, PeerInv, Holds, Cached
    <1>2. \A c \in GetConnection : c = None \/ (c \in Connections /\ conn[c].fd = None)
        BY DEF GetConnection
    <1>3. CASE RejectPeer(r)
        <2>1. PICK c \in GetConnection :
                 /\ conn' = IF c = None THEN conn
                            ELSE [conn EXCEPT ![c] = [FreeConn EXCEPT !.fd = ZeroFd]]
                 /\ Leave(r, c, None, "again")
            BY <1>3 DEF RejectPeer
        <2>2. MissesCache(r) /\ UNCHANGED <<active_conns, dialled>>
            BY <1>3 DEF RejectPeer
        <2>3. /\ Others(r) /\ phase'[r] = "again" /\ peer'[r].connection = c
              /\ ~peer'[r].cached /\ ~peer'[r].failed
            <3>1. TypeInv /\ Leave(r, c, None, "again")
                BY <2>1, <1>0
            <3> QED BY <3>1, LeaveFacts
        <2>4. CASE c = None
            <3>1. /\ UNCHANGED <<item, dialled, active_conns, conn>> /\ Cached' = Cached
                  /\ \A s \in Requests :
                        /\ peer'[s].connection = peer[s].connection
                        /\ Holds(s) => peer'[s] = peer[s] /\ phase'[s] = phase[s]
                BY <2>1, <2>2, <2>3, <2>4, <1>1 DEF Others
            <3> QED BY <3>1, Nothing
        <2>5. CASE c # None
            <3>1. c \in Connections /\ conn[c].fd = None
                BY <2>1, <2>5, <1>2
            <3>2. conn' = [conn EXCEPT ![c] = [FreeConn EXCEPT !.fd = ZeroFd]]
                BY <2>1, <2>5
            <3>3. Chosen \in Peers /\ ~Holds(r) /\ item' = item /\ Cached' = Cached
                BY <2>2, <1>0, <1>1
            <3> QED BY <3>1, <3>2, <3>3, <2>2, <2>3, Acquire
        <2> QED BY <2>4, <2>5
    <1>4. CASE ConnectNoMemory(r) \/ ConnectDeclined(r) \/ ConnectInvalid(r)
        <2>1. /\ MissesCache(r) /\ UNCHANGED <<conn, dialled, active_conns>>
              /\ \E p, rc : Leave(r, None, p, rc)
            BY <1>0, <1>4, CounterRange DEF ConnectNoMemory, ConnectDeclined, ConnectInvalid
        <2>2. PICK p, rc : Leave(r, None, p, rc)
            BY <2>1
        <2>3. Others(r) /\ peer'[r].connection = None
            BY <2>2, <1>0, LeaveFacts
        <2> QED BY <2>1, <2>3, <1>1, Nothing DEF Others, Holds
    <1>5. CASE ConnectBadAdd(r)
        BY <1>5 DEF ConnectBadAdd
    <1>6. CASE ConnectPeer(r)
        <2>1. PICK p \in PGconns \ Open, c \in GetConnection \ {None} :
                 /\ dialled' = [dialled EXCEPT ![p] = Chosen]
                 /\ conn' = [conn EXCEPT ![c] = [FreeConn EXCEPT !.fd = p]]
                 /\ Leave(r, c, p, "again")
            BY <1>6 DEF ConnectPeer
        <2>2. MissesCache(r) /\ active_conns' = Incr(active_conns)
            BY <1>6 DEF ConnectPeer
        <2>3. /\ Others(r) /\ phase'[r] = "again" /\ peer'[r].connection = c
              /\ peer'[r].pgconn = p /\ peer'[r].sockaddr = Addr[Chosen]
            <3>1. TypeInv /\ Leave(r, c, p, "again")
                BY <2>1, <1>0
            <3> QED BY <3>1, LeaveFacts
        <2>4. /\ c \in Connections /\ conn[c].fd = None
              /\ Chosen \in Peers /\ ~Holds(r) /\ item' = item /\ Cached' = Cached
            BY <2>2, <1>0, <1>1, <1>2
        <2>5. /\ dialled' = [dialled EXCEPT ![p] = Chosen]
              /\ conn' = [conn EXCEPT ![c] = [FreeConn EXCEPT !.fd = p]]
            BY <2>1
        <2> QED BY <2>2, <2>3, <2>4, <2>5, Acquire
    <1> QED BY <1>3, <1>4, <1>5, <1>6

LEMMA SafeStep ==
    ASSUME "ngx_add_event" \notin MayFail
    PROVE  SafeInv /\ [Next]_keepaliveVars => SafeInv'
    <1> SUFFICES ASSUME SafeInv, [Next]_keepaliveVars PROVE SafeInv'
        OBVIOUS
    <1>0. TypeInv /\ ExclusiveUse /\ PeerInv /\ ItemInv /\ ConnInv
        BY DEF SafeInv
    <1>t. TypeInv'
        BY <1>0, TypeStep
    <1>r. /\ conn \in [Connections -> ConnRecords] /\ peer \in [Requests -> PeerRecords]
          /\ phase \in [Requests -> Phases]
        BY <1>0 DEF TypeInv, KeepaliveTypeOK
    <1>1. ASSUME NEW r \in Requests, InitPeer(r) PROVE SafeInv'
        <2>1. peer[r].connection = None /\ NewPeer.connection = None
            BY <1>0, <1>1 DEF PeerInv, InitPeer, Holds, NewPeer
        <2> QED BY <1>1, <1>t, <1>r, <2>1, Nothing DEF InitPeer, poolVars, Cached, Holds
    <1>2. ASSUME NEW r \in Requests, GetPeerSingle(r) PROVE SafeInv'
        <2>1. 1 \in DOMAIN cache
            BY <1>0, <1>2 DEF GetPeerSingle, TypeInv, KeepaliveTypeOK
        <2> QED BY <1>2, <1>t, <2>1, SafeReuse DEF GetPeerSingle, GetPeer
    <1>3. ASSUME NEW r \in Requests, GetPeerMulti(r) PROVE SafeInv'
        <2>1. PICK k \in DOMAIN cache : Reuse(r, k, item[cache[k]].sockaddr)
            BY <1>3 DEF GetPeerMulti, Matches
        <2> QED BY <1>3, <1>t, <2>1, SafeReuse DEF GetPeerMulti, GetPeer
    <1>4. ASSUME NEW r \in Requests, Crash(r) PROVE SafeInv'
        BY <1>4, <1>t, Nothing DEF Crash, poolVars, Cached
    <1>5. ASSUME NEW r \in Requests, DropPlaceholder(r) PROVE SafeInv'
        <2> DEFINE c == peer[r].connection
        <2>1. c \in Connections /\ HoldsPlaceholder(r)
            BY <1>0, <1>5, Typed DEF DropPlaceholder, PeerInv, HoldsDatabase, HoldsPlaceholder, Holds
        <2>2. /\ UNCHANGED <<item, dialled, active_conns>> /\ Cached' = Cached
              /\ conn' = [conn EXCEPT ![c] = FreeConn]
              /\ peer'[r].connection = None /\ Others(r)
            <3>1. peer[r] \in PeerRecords
                BY <1>r
            <3> QED BY <1>5, <1>r, <2>1, <3>1
                    DEF DropPlaceholder, poolVars, Cached, FreeConnection, Others, PeerRecords
        <2> QED BY <1>t, <2>1, <2>2, Release
    <1>6. ASSUME NEW r \in Requests, ChangeTimers(r) PROVE SafeInv'
        <2> DEFINE c == peer[r].connection
        <2>1. PICK t \in SUBSET {"read", "write"} : conn' = [conn EXCEPT ![c].timers = t]
            BY <1>6 DEF ChangeTimers
        <2>2. c \in Connections /\ ~conn[c].idle /\ conn[c] \in ConnRecords
            BY <1>6, <1>r, HeldNotIdle DEF ChangeTimers, Holds
        <2>3. \A d \in Connections :
                 /\ conn'[d].fd = conn[d].fd /\ conn'[d].idle = conn[d].idle
                 /\ conn'[d].handler = conn[d].handler
                 /\ conn[d].idle => conn'[d] = conn[d]
            <3>1. \A d \in Connections \ {c} : conn'[d] = conn[d]
                BY <1>r, <2>1
            <3>2. /\ conn'[c].fd = conn[c].fd /\ conn'[c].idle = conn[c].idle
                  /\ conn'[c].handler = conn[c].handler
                BY <1>r, <2>1, <2>2 DEF ConnRecords
            <3> QED BY <2>2, <3>1, <3>2
        <2> QED BY <1>6, <1>t, <2>3, Nothing DEF ChangeTimers, poolVars, Cached
    <1>7. ASSUME NEW r \in Requests, FailPeer(r) PROVE SafeInv'
        <2>1. ~HoldsPlaceholder(r)
            BY <1>0, <1>7 DEF FailPeer, PeerInv, HoldsPlaceholder
        <2>2. \A s \in Requests \ {r} : phase'[s] = phase[s]
            BY <1>7, <1>r DEF FailPeer
        <2> QED BY <1>7, <1>t, <2>1, <2>2, SafeFreePeer DEF FailPeer
    <1>8. ASSUME NEW r \in Requests, NEW ok \in BOOLEAN, FinishPeer(r, ok) PROVE SafeInv'
        <2>1. ~HoldsPlaceholder(r)
            BY <1>0, <1>8 DEF FinishPeer, PeerInv, HoldsPlaceholder, Holds
        <2>2. \A s \in Requests \ {r} : phase'[s] = phase[s]
            BY <1>8, <1>r DEF FinishPeer
        <2> QED BY <1>8, <1>t, <2>1, <2>2, SafeFreePeer DEF FinishPeer
    <1>9. ASSUME NEW c \in Connections, CloseHandler(c) PROVE SafeInv'
        <2> DEFINE i == conn[c].data
        <2>1. conn[c].idle
            BY <1>0, <1>9 DEF CloseHandler, EventLoop, ConnInv
        <2>2. i \in Cached /\ item[i].connection = c
            BY <1>0, <2>1 DEF ConnInv
        <2>3. PICK k \in DOMAIN cache : cache[k] = i /\ cache' = RemoveIndex(cache, k)
            BY <1>9 DEF CloseHandler
        <2>4. Cached' = Cached \ {i}
            BY <1>0, <1>9, <2>3, TakeItem
               DEF CloseHandler, EventLoop, QueueInv, TypeInv, KeepaliveTypeOK
        <2>5. /\ UNCHANGED <<item, peer, phase>> /\ conn' = [conn EXCEPT ![c] = FreeConn]
              /\ dialled' = Finish(dialled, item[i].pgconn)
              /\ active_conns' = Decr(active_conns)
            BY <1>0, <1>9, Typed DEF CloseHandler, FreeConnection
        <2> QED BY <1>t, <2>2, <2>4, <2>5, CloseItem
    <1>10. CASE UNCHANGED keepaliveVars
        BY <1>10, <1>t, Nothing DEF keepaliveVars, poolVars, Cached
    <1> QED BY <1>1, <1>2, <1>3, <1>4, <1>5, <1>6, <1>7, <1>8, <1>9, <1>10, <1>t,
               SafeMisses, SafeAttach, CloseAll DEF Next

-----------------------------------------------------------------------------
(* The theorems *)

LEMMA SafeAlways ==
    ASSUME "ngx_add_event" \notin MayFail
    PROVE  Spec => []SafeInv
    BY SafeInit, SafeStep, PTL DEF Spec

(* active_conns is the number of open database connections, on every path of *)
(* get_peer, free_peer, the close handler and the cleanup: it never wraps,   *)
(* and overflow=reject decides by the truth.                                *)
THEOREM SpotsCorrect ==
    ASSUME "ngx_add_event" \notin MayFail
    PROVE  Spec => []SpotAccounting
    <1>1. SafeInv => SpotAccounting
        BY DEF SafeInv
    <1> QED BY <1>1, SafeAlways, PTL

(* No connection is ever in two hands: of two requests, of a request and the *)
(* cache, or of two items.                                                  *)
THEOREM UseIsExclusive ==
    ASSUME "ngx_add_event" \notin MayFail
    PROVE  Spec => []ExclusiveUse
    <1>1. SafeInv => ExclusiveUse
        BY DEF SafeInv
    <1> QED BY <1>1, SafeAlways, PTL

(* The open database connections are exactly those a request holds or the   *)
(* cache keeps: no path of the code leaks one, and no pointer in use is to   *)
(* one that was finished.                                                   *)
THEOREM NothingLeaks ==
    ASSUME "ngx_add_event" \notin MayFail
    PROVE  Spec => []NoOrphan
    <1>1. SafeInv => NoOrphan
        <2> SUFFICES ASSUME SafeInv PROVE NoOrphan
            OBVIOUS
        <2>0. TypeInv /\ PeerInv /\ ItemInv /\ ConnInv
            BY DEF SafeInv
        <2>1. ASSUME NEW p \in Open
              PROVE  \/ \E r \in Requests : HoldsDatabase(r) /\ p = peer[r].pgconn
                     \/ \E i \in Cached : p = item[i].pgconn
            <3>1. PICK c \in Connections : conn[c].fd = p
                BY <2>0 DEF Open, ConnInv
            <3>2. p \in PGconns /\ Owned(c)
                BY <2>0, <3>1, Typed DEF Open, ConnInv
            <3>3. CASE \E r \in Requests : peer[r].connection = c
                BY <2>0, <3>1, <3>2, <3>3, Typed DEF PeerInv, HoldsDatabase, Holds
            <3>4. CASE \E i \in Cached : item[i].connection = c
                BY <2>0, <3>1, <3>4 DEF ItemInv
            <3> QED BY <3>2, <3>3, <3>4 DEF Owned
        <2>2. ASSUME NEW r \in Requests, HoldsDatabase(r) PROVE peer[r].pgconn \in Open
            BY <2>0, <2>2, Typed DEF Open, ConnInv, PeerInv, HoldsDatabase, Holds
        <2>3. ASSUME NEW i \in Cached PROVE item[i].pgconn \in Open
            BY <2>0, <2>3 DEF Open, ConnInv, ItemInv
        <2> QED BY <2>1, <2>2, <2>3 DEF NoOrphan
    <1> QED BY <1>1, SafeAlways, PTL

(* The nginx connection and the PGconn handed over together belong together: *)
(* the socket in the event loop is that of the PGconn.                      *)
THEOREM PairsCorrect ==
    ASSUME "ngx_add_event" \notin MayFail
    PROVE  Spec => []Paired
    <1>1. SafeInv => Paired
        BY DEF SafeInv, Paired, PeerInv, ItemInv
    <1> QED BY <1>1, SafeAlways, PTL

(* An idle connection has only the keepalive handlers, its own item and no   *)
(* timer.                                                                   *)
THEOREM HandOversCorrect ==
    ASSUME "ngx_add_event" \notin MayFail
    PROVE  Spec => []QuietWhenIdle
    <1>1. SafeInv => QuietWhenIdle
        BY DEF SafeInv, QuietWhenIdle, ItemInv, ConnInv
    <1> QED BY <1>1, SafeAlways, PTL

(* However often a connection changed hands, the address recorded with it,   *)
(* which mode=multi goes by, is that of the server it was dialled to.       *)
THEOREM AddressesTrue ==
    ASSUME "ngx_add_event" \notin MayFail
    PROVE  Spec => []AddressTruth
    <1>1. SafeInv => AddressTruth
        BY DEF SafeInv, AddressTruth, PeerInv, ItemInv
    <1> QED BY <1>1, SafeAlways, PTL

(* With overflow=reject a worker never has more than max connections to the  *)
(* database, in use and idle together.                                      *)
THEOREM RejectBounds ==
    ASSUME "ngx_add_event" \notin MayFail
    PROVE  Spec => []RejectBound
    <1>1. Init => RejectBound
        <2>1. Init => Open = {}
            BY SMTT(40) DEF Init, Open
        <2> QED BY <2>1, FS_EmptySet, PoolAssumption DEF RejectBound
    <1>2. SafeInv /\ RejectBound /\ [Next]_keepaliveVars /\ SafeInv' => RejectBound'
        <2> SUFFICES ASSUME SafeInv, RejectBound, [Next]_keepaliveVars, SafeInv'
                     PROVE  RejectBound'
            OBVIOUS
        <2>0. /\ SpotAccounting /\ KeepaliveTypeOK /\ (worker = "running" => max_cached = MaxCached)
              /\ dialled \in [PGconns -> Peers \cup {None}]
            BY DEF SafeInv, TypeInv, KeepaliveTypeOK
        <2>1. ASSUME NEW r \in Requests, ConnectPeer(r) PROVE RejectBound'
            <3>1. PICK p \in PGconns \ Open : dialled' = [dialled EXCEPT ![p] = Chosen]
                BY <2>1 DEF ConnectPeer
            <3>2. Open' \subseteq Open \cup {p}
                BY <2>0, <3>1 DEF Open
            <3>3. /\ IsFiniteSet(Open \cup {p})
                  /\ Cardinality(Open \cup {p}) = Cardinality(Open) + 1
                BY OpenFinite, FS_AddElement
            <3>4. Cardinality(Open') <= Cardinality(Open) + 1 /\ Cardinality(Open') \in Nat
                BY <3>2, <3>3, FS_Subset, FS_CardinalityType
            <3>5. Reject => Cardinality(Open) < MaxCached
                BY <2>0, <2>1, OpenFinite, PoolAssumption
                   DEF ConnectPeer, MissesCache, GetPeer, Full, SpotAccounting
            <3> QED BY <3>4, <3>5, OpenFinite, PoolAssumption DEF RejectBound
        <2>2. ASSUME \A p \in PGconns : dialled'[p] # None => dialled[p] # None
              PROVE  RejectBound'
            <3>1. Open' \subseteq Open
                BY <2>2 DEF Open
            <3>2. Cardinality(Open') <= Cardinality(Open) /\ Cardinality(Open') \in Nat
                BY <3>1, OpenFinite, FS_Subset, FS_CardinalityType
            <3> QED BY <3>2, OpenFinite, PoolAssumption DEF RejectBound
        <2>3. dialled' = dialled \/ (\E p : dialled' = Finish(dialled, p))
              => \A p \in PGconns : dialled'[p] # None => dialled[p] # None
            BY <2>0 DEF Finish
        <2>4. ASSUME NEW r \in Requests, NEW f \in BOOLEAN, NEW ok \in BOOLEAN, FreePeer(r, f, ok)
              PROVE  RejectBound'
            BY <2>2, <2>3, <2>4 DEF FreePeer, SavePeer, ClosePeer
        <2>5. ASSUME Cleanup PROVE RejectBound'
            BY <2>0, <2>2, <2>5 DEF Cleanup
        <2>6. ASSUME NEW c \in Connections, CloseHandler(c) PROVE RejectBound'
            BY <2>2, <2>3, <2>6 DEF CloseHandler
        <2>7. ASSUME dialled' = dialled PROVE RejectBound'
            BY <2>2, <2>7
        <2> QED BY <2>1, <2>4, <2>5, <2>6, <2>7
                DEF Next, InitPeer, GetPeerSingle, GetPeerMulti, Reuse, RejectPeer,
                    ConnectNoMemory, ConnectDeclined, ConnectInvalid, ConnectBadAdd,
                    Attach, Crash, DropPlaceholder, ChangeTimers, FailPeer, FinishPeer,
                    keepaliveVars, poolVars
    <1> QED BY <1>1, <1>2, SafeAlways, PTL DEF Spec

(* With mode=multi a request is connected to the address the round robin    *)
(* chose for it, whether its connection is new or has served others before. *)
THEOREM ChosenServed ==
    ASSUME "ngx_add_event" \notin MayFail
    PROVE  Spec => ServesChosen
    <1> DEFINE Chose == ~Single => \A r \in Requests :
                           phase[r] = "new" /\ phase'[r] = "again" /\ peer'[r].pgconn # None
                           => Addr[dialled'[peer'[r].pgconn]] = Addr[Chosen]
    <1>1. SafeInv /\ [Next]_keepaliveVars => [Chose]_keepaliveVars
        <2> SUFFICES ASSUME SafeInv, [Next]_keepaliveVars, ~Single, NEW r \in Requests,
                            phase[r] = "new", phase'[r] = "again", peer'[r].pgconn # None
                     PROVE  Addr[dialled'[peer'[r].pgconn]] = Addr[Chosen]
            OBVIOUS
        <2>0. /\ TypeInv /\ ItemInv /\ dialled \in [PGconns -> Peers \cup {None}]
              /\ phase \in [Requests -> Phases] /\ peer \in [Requests -> PeerRecords]
            BY DEF SafeInv, TypeInv, KeepaliveTypeOK
        <2>1. ASSUME GetPeerMulti(r) PROVE Addr[dialled'[peer'[r].pgconn]] = Addr[Chosen]
            <3>1. PICK k \in DOMAIN cache :
                     item[cache[k]].sockaddr = Addr[Chosen] /\ Reuse(r, k, Addr[Chosen])
                BY <2>1 DEF GetPeerMulti, Matches
            <3>2. cache[k] \in Cached
                BY <2>0, <3>1 DEF Cached, Range
            <3>3. peer[r] \in PeerRecords /\ peer'[r].pgconn = item[cache[k]].pgconn
                BY <2>0, <3>1 DEF Reuse, Taken, PeerRecords
            <3> QED BY <2>0, <3>1, <3>2, <3>3 DEF Reuse, ItemInv
        <2>2. ASSUME ConnectPeer(r) PROVE Addr[dialled'[peer'[r].pgconn]] = Addr[Chosen]
            <3>1. PICK p \in PGconns, c \in Connections :
                     /\ dialled' = [dialled EXCEPT ![p] = Chosen]
                     /\ Leave(r, c, p, "again")
                BY <2>2 DEF ConnectPeer, GetConnection
            <3>2. peer'[r].pgconn = p
                BY <2>0, <3>1, LeaveFacts
            <3> QED BY <2>0, <3>1, <3>2
        <2>3. \A s \in Requests : ~GetPeerSingle(s)
            BY DEF GetPeerSingle
        <2>4. ASSUME NEW s \in Requests, NEW x, phase' = [phase EXCEPT ![s] = x]
              PROVE  s = r /\ x = "again"
            BY <2>0, <2>4
        <2>5. \A s \in Requests : \A c, p, rc : Leave(s, c, p, rc) => s = r /\ rc = "again"
            BY <2>4 DEF Leave
        <2>8. \A s \in Requests :
                 /\ ~InitPeer(s) /\ ~Attach(s)
                 /\ ~ConnectNoMemory(s) /\ ~ConnectDeclined(s) /\ ~ConnectInvalid(s)
                 /\ ~ConnectBadAdd(s)
            <3>1. \A s \in Requests : ~InitPeer(s) /\ ~Attach(s)
                BY <2>4 DEF InitPeer, Attach
            <3> QED BY <2>5, <3>1 DEF ConnectNoMemory, ConnectDeclined, ConnectInvalid, ConnectBadAdd
        <2>9. \A s \in Requests : ~FailPeer(s) /\ \A ok \in BOOLEAN : ~FinishPeer(s, ok)
            <3>1. ASSUME NEW s \in Requests, FailPeer(s) PROVE FALSE
                <4>1. /\ phase' = [phase EXCEPT ![s] = IF phase[s] = "again" THEN phase[s] ELSE "failed"]
                      /\ phase[s] # "new"
                    BY <3>1 DEF FailPeer
                <4> QED BY <4>1, <2>4
            <3>2. ASSUME NEW s \in Requests, NEW ok \in BOOLEAN, FinishPeer(s, ok) PROVE FALSE
                <4>1. phase' = [phase EXCEPT ![s] = IF phase[s] = "again" THEN phase[s] ELSE "done"]
                    BY <3>2 DEF FinishPeer
                <4> QED BY <4>1, <2>4
            <3> QED BY <3>1, <3>2
        <2>10. \A s \in Requests \ {r} : ~GetPeerMulti(s) /\ ~ConnectPeer(s) /\ ~RejectPeer(s)
            BY <2>4, <2>5 DEF GetPeerMulti, Reuse, ConnectPeer, RejectPeer
        <2>6. ~RejectPeer(r)
            <3>1. ASSUME NEW c, Leave(r, c, None, "again") PROVE FALSE
                BY <2>0, <3>1, LeaveFacts
            <3> QED BY <3>1 DEF RejectPeer
        <2>7. ASSUME phase' = phase PROVE FALSE
            BY <2>7
        <2> QED BY <2>1, <2>2, <2>3, <2>6, <2>7, <2>8, <2>9, <2>10
                DEF Next, Crash, DropPlaceholder, ChangeTimers, CloseHandler, Cleanup, keepaliveVars
    <1> QED BY <1>1, SafeAlways, PTL DEF Spec, ServesChosen

=============================================================================
