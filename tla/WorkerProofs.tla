----------------------------- MODULE WorkerProofs -----------------------------
(***************************************************************************)
(* What holds of a worker however many requests, connections and servers   *)
(* it has: that it uses the pool as Keepalive says, that every wait is     *)
(* under a timer and that a request is answered once.  As in               *)
(* KeepaliveProofs the event module accepts every connection.              *)
(***************************************************************************)
EXTENDS Worker, KeepaliveProofs

(* The types the control depends on. *)
ControlType ==
    /\ pc \in [fn : {"loop", "process_events", "next", "finalize"},
               r : Requests \cup {None}, arg : Int]
    /\ pc.fn # "loop" => pc.r \in Requests
    /\ pc.fn = "next" => pc.arg \in FailTypes
    /\ pc.fn = "finalize" => pc.arg \in Replies \ {0}
    /\ state \in [Requests -> States]
    /\ status \in [Requests -> Statuses]
    /\ reply \in [Requests -> Replies]

(* Only one request at a time is between two functions, of nginx or of the  *)
(* module.                                                                  *)
AtRest(r) == phase[r] \in {"done", "active"}
OneBetween ==
    /\ \A r, s \in Requests : r # s => AtRest(r) \/ AtRest(s)
    /\ pc.fn # "loop" => \A s \in Requests \ {pc.r} : AtRest(s)

(* The connection of an active request is its own, and a timer of the right *)
(* kind runs.                                                               *)
Attentive(r) ==
    /\ HoldsDatabase(r)
    /\ conn[peer[r].connection].handler = "upstream"
    /\ conn[peer[r].connection].data = r
Timed(r) ==
    /\ state[r] = "db_connect" => "write" \in conn[peer[r].connection].timers
    /\ state[r] \in {"db_get_result", "db_get_ack"} =>
          "read" \in conn[peer[r].connection].timers

(* A request none of whose functions is running: with get_peer behind it,   *)
(* it has sent its query or has yet to connect; after a failure inside      *)
(* get_peer it is over, although nginx is still in ngx_http_upstream_connect. *)
Waiting(r) ==
    /\ phase[r] # "failed"
    /\ reply[r] # 0 => phase[r] = "done" \/ (phase[r] = "again" /\ ~Holds(r))
    /\ phase[r] = "active" =>
          /\ Attentive(r) /\ Timed(r)
          /\ state[r] \in {"db_connect", "db_get_result", "db_get_ack"}
    /\ phase[r] = "again" /\ HoldsDatabase(r) =>
          \/ state[r] = "db_connect"
          \/ state[r] = "db_get_result" /\ Timed(r)

(* The request whose function runs. *)
Running(r) ==
    /\ worker = "running"
    /\ reply[r] = 0
    /\ phase[r] = "active" => Attentive(r)
    /\ phase[r] \in {"active", "again"} /\ pc.fn # "finalize" => HoldsDatabase(r)
    /\ pc.fn = "process_events" =>
          \/ /\ phase[r] = "active" /\ Timed(r)
             /\ state[r] \in {"db_connect", "db_send_query", "db_get_result", "db_get_ack"}
          \/ phase[r] = "again" /\ state[r] = "db_send_query"
    /\ pc.fn = "next" => phase[r] \in {"active", "again"}
    /\ pc.fn = "finalize" =>
          \/ phase[r] = "active"
          \/ phase[r] \in {"failed", "again", "placeholder"} /\ ~Holds(r)

InFunction(r) == pc.fn # "loop" /\ pc.r = r

(* Only an open connection has timers. *)
FreeHasNoTimer == \A c \in Connections : conn[c].fd = None => conn[c].timers = {}

ControlInv ==
    /\ ControlType
    /\ OneBetween
    /\ \A r \in Requests : IF InFunction(r) THEN Running(r) ELSE Waiting(r)
    /\ FreeHasNoTimer

-----------------------------------------------------------------------------
(* Facts about a state that satisfies the invariants. *)

(* What the request whose function runs holds. *)
LEMMA RunningHolds ==
    ASSUME SafeInv, ControlInv, NEW r \in Requests, pc.r = r,
           pc.fn \in {"process_events", "next"}
    PROVE  /\ worker = "running"
           /\ HoldsDatabase(r)
           /\ peer[r].connection \in Connections
           /\ peer[r].pgconn \in PGconns
           /\ conn[peer[r].connection].fd = peer[r].pgconn
           /\ (phase[r] = "active" /\ EventLoop) \/ phase[r] = "again"
<1>1. Running(r) /\ InFunction(r)
  BY DEF ControlInv, InFunction
<1>2. worker = "running" /\ HoldsDatabase(r) /\ phase[r] \in {"active", "again"}
  BY <1>1 DEF Running
<1>3. peer[r].connection \in Connections \cup {None} /\ peer[r].connection # None
  BY <1>2, Typed DEF SafeInv, HoldsDatabase, Holds
<1>4. /\ conn[peer[r].connection].fd = peer[r].pgconn
      /\ peer[r].pgconn # None
  BY <1>2 DEF SafeInv, PeerInv, HoldsDatabase
<1>5. peer[r].pgconn \in PGconns
  BY <1>4, Typed DEF SafeInv
<1>6. phase[r] = "active" => EventLoop
  BY <1>1, <1>2 DEF ControlInv, OneBetween, AtRest, EventLoop, InFunction
<1> QED  BY <1>2, <1>3, <1>4, <1>5, <1>6

(* In the event loop a connection with a handler of the upstream or a timer  *)
(* is that of an active request, and is in its hands.                        *)
LEMMA InHands ==
    ASSUME SafeInv, ControlInv, AtLoop, NEW c \in Connections,
           conn[c].handler = "upstream" \/ conn[c].timers # {}
    PROVE  /\ conn[c].data \in Requests
           /\ peer[conn[c].data].connection = c
           /\ phase[conn[c].data] = "active"
           /\ Attentive(conn[c].data) /\ Timed(conn[c].data)
<1>1. conn[c].fd # None
  BY DEF SafeInv, ConnInv, ControlInv, FreeHasNoTimer
<1>2. ~\E i \in Cached : item[i].connection = c
  BY DEF SafeInv, ItemInv
<1>3. PICK r \in Requests : peer[r].connection = c
  BY <1>1, <1>2 DEF SafeInv, ConnInv, Owned
<1>4. Holds(r)
  BY <1>3, Typed DEF Holds, SafeInv
<1>5. phase[r] = "active"
  BY <1>4 DEF SafeInv, PeerInv, AtLoop, EventLoop
<1>6. Waiting(r)
  BY DEF ControlInv, InFunction, AtLoop, Loop
<1>7. Attentive(r) /\ Timed(r)
  BY <1>5, <1>6 DEF Waiting
<1> QED  BY <1>3, <1>5, <1>7 DEF Attentive

-----------------------------------------------------------------------------
(* Every step of the worker is a step of the pool. *)

LEMMA TimersChange ==
    ASSUME SafeInv, NEW r \in Requests, HoldsDatabase(r), worker = "running",
           (phase[r] = "active" /\ EventLoop) \/ phase[r] = "again",
           NEW ts \in SUBSET {"read", "write"}, WithTimers(peer[r].connection, ts),
           UNCHANGED <<poolVars, dialled, peer, phase, worker>>
    PROVE  ChangeTimers(r)
<1>1. conn[peer[r].connection].fd \in PGconns
  <2>1. conn[peer[r].connection].fd = peer[r].pgconn /\ peer[r].connection # None
    BY DEF SafeInv, PeerInv, HoldsDatabase, Holds
  <2>2. conn[peer[r].connection].fd # None
    BY DEF SafeInv, PeerInv, HoldsDatabase
  <2> QED  BY <2>1, <2>2, Typed DEF SafeInv
<1> QED  BY <1>1 DEF ChangeTimers, WithTimers, HoldsDatabase, Holds

LEMMA ProcessingUsesPool ==
    ASSUME SafeInv, ControlInv, NEW r \in Requests,
           Connect(r) \/ SendQuery(r) \/ GetResult(r) \/ GetAck(r)
    PROVE  [Next]_keepaliveVars
<1>1. /\ pc.r = r /\ pc.fn = "process_events"
      /\ UNCHANGED <<poolVars, dialled, peer, phase, worker>>
  BY DEF Connect, SendQuery, GetResult, GetAck, Processes
<1>2. /\ worker = "running" /\ HoldsDatabase(r)
      /\ (phase[r] = "active" /\ EventLoop) \/ phase[r] = "again"
      /\ peer[r].connection \in Connections
  BY <1>1, RunningHolds
<1>3. conn[peer[r].connection].timers \subseteq {"read", "write"}
  BY <1>2, Typed DEF SafeInv
<1>4. \/ conn' = conn
      \/ \E ts \in SUBSET {"read", "write"} : WithTimers(peer[r].connection, ts)
  <2> DEFINE ts == conn[peer[r].connection].timers
  <2>1. /\ ts \ {"read"} \in SUBSET {"read", "write"}
        /\ ts \ {"write"} \in SUBSET {"read", "write"}
        /\ ts \cup {"read"} \in SUBSET {"read", "write"}
    BY <1>3
  <2>2. CASE Connect(r)
    <3>1. conn' = conn \/ WithTimers(peer[r].connection, ts \ {"write"})
      BY <2>2 DEF Connect
    <3> QED  BY <2>1, <3>1
  <2>3. CASE SendQuery(r)
    <3>1. conn' = conn \/ WithTimers(peer[r].connection, ts \cup {"read"})
      BY <2>3 DEF SendQuery, ResultTimer
    <3> QED  BY <2>1, <3>1
  <2>4. CASE GetResult(r)
    <3>1. WithTimers(peer[r].connection, ts \ {"write"})
      BY <2>4 DEF GetResult
    <3> QED  BY <2>1, <3>1
  <2>5. CASE GetAck(r)
    <3>1. conn' = conn \/ WithTimers(peer[r].connection, ts \ {"read"})
      BY <2>5 DEF GetAck
    <3> QED  BY <2>1, <3>1
  <2> QED  BY <2>2, <2>3, <2>4, <2>5
<1>5. CASE conn' = conn
  BY <1>1, <1>5 DEF keepaliveVars
<1>6. ASSUME NEW ts \in SUBSET {"read", "write"}, WithTimers(peer[r].connection, ts)
      PROVE  Next
  <2>1. ChangeTimers(r)
    BY <1>1, <1>2, <1>6, TimersChange
  <2> QED  BY <2>1 DEF Next
<1> QED  BY SMTT(40), <1>4, <1>5, <1>6

LEMMA UsesPool ==
    ASSUME SafeInv, ControlInv, [WorkerNext]_workerVars
    PROVE  [Next]_keepaliveVars
<1>1. ASSUME NEW r \in Requests, HandleRequest(r) \/ Serve(r) \/ Abort(r)
      PROVE  [Next]_keepaliveVars
  <2>1. CASE HandleRequest(r)
    BY <2>1 DEF HandleRequest, Next
  <2>2. CASE Connect(r) \/ SendQuery(r) \/ GetResult(r) \/ GetAck(r)
    BY <2>2, ProcessingUsesPool
  <2>3. CASE Abort(r) \/ InitFails(r) \/ GetPeerErrs(r) \/ FinalizeRequest(r)
    <3>1. Acked(r) \in BOOLEAN
      BY DEF Acked
    <3>2. \E ok \in BOOLEAN : FinishPeer(r, ok)
      BY <2>3, <3>1 DEF Abort, InitFails, GetPeerErrs, FinalizeRequest, NginxFinalizes
    <3> QED  BY <3>2 DEF Next
  <2>4. CASE UpstreamNext(r) \/ Declined(r)
    BY <2>4 DEF UpstreamNext, Declined, Next
  <2>5. CASE GetPeerCached(r) \/ GetPeerNew(r) \/ GetPeerNone(r)
    BY <2>5 DEF GetPeerCached, GetPeerNew, GetPeerNone, Next
  <2>6. CASE Connected(r) \/ CleanUpPart(r)
    BY <2>6 DEF Connected, CleanUpPart, Next
  <2> QED  BY <1>1, <2>1, <2>2, <2>3, <2>4, <2>5, <2>6 DEF Serve
<1>2. ASSUME NEW c \in Connections, OnConnection(c)
      PROVE  [Next]_keepaliveVars
  <2>1. ASSUME NEW t \in {"read", "write"}, TimerExpires(c, t)  PROVE Next
    <3>1. AtLoop /\ t \in conn[c].timers
      BY <2>1 DEF TimerExpires
    <3>2. PICK r \in Requests :
             peer[r].connection = c /\ phase[r] = "active" /\ HoldsDatabase(r)
      BY <3>1, InHands DEF Attentive
    <3>3. /\ EventLoop /\ worker = "running"
          /\ conn[c].timers \ {t} \in SUBSET {"read", "write"}
      BY <3>1, Typed DEF SafeInv, AtLoop, EventLoop
    <3>4. /\ WithTimers(peer[r].connection, conn[c].timers \ {t})
          /\ UNCHANGED <<poolVars, dialled, peer, phase, worker>>
      BY <2>1, <3>2 DEF TimerExpires
    <3>5. ChangeTimers(r)
      BY <3>2, <3>3, <3>4, TimersChange
    <3> QED  BY <3>5 DEF Next
  <2>2. CASE \E e \in {"read", "write"} : Deliver(c, e)
    BY <2>2 DEF Deliver
  <2>3. CASE IdleWritable(c)
    BY <2>3 DEF IdleWritable
  <2>4. CASE IdleReadable(c) \/ CloseIdle(c)
    BY <2>4 DEF IdleReadable, CloseIdle, Next
  <2> QED  BY <1>2, <2>1, <2>2, <2>3, <2>4 DEF OnConnection
<1>3. CASE \E p \in PGconns : Network(p)
  BY <1>3 DEF Network, Accept, Refuse, ServerSends, PartArrives, ServerNotes,
              ServerCloses, ResetArrives, Outside
<1>4. CASE Exit
  BY <1>4 DEF Exit, Next
<1>5. CASE UNCHANGED workerVars
  BY <1>5 DEF workerVars
<1> QED  BY <1>1, <1>2, <1>3, <1>4, <1>5 DEF WorkerNext

-----------------------------------------------------------------------------
(* What the steps of the pool leave alone. *)

(* After free_peer the request holds nothing, and no other has lost its     *)
(* connection or a timer.                                                   *)
LEMMA Freed ==
    ASSUME SafeInv, FreeHasNoTimer, NEW r \in Requests,
           NEW failed \in BOOLEAN, NEW ok \in BOOLEAN, FreePeer(r, failed, ok)
    PROVE  /\ peer'[r].connection = None
           /\ \A s \in Requests \ {r} :
                 /\ peer'[s] = peer[s]
                 /\ Holds(s) => conn'[peer[s].connection] = conn[peer[s].connection]
           /\ FreeHasNoTimer'
<1> DEFINE c == peer[r].connection
<1>0. TypeInv /\ ExclusiveUse /\ ItemInv
  BY DEF SafeInv
<1>1. /\ conn \in [Connections -> ConnRecords] /\ peer \in [Requests -> PeerRecords]
      /\ cache \in Seq(Items) /\ c \in Connections \cup {None}
      /\ None \notin Connections /\ peer[r] \in PeerRecords
  BY <1>0, Typed DEF TypeInv, KeepaliveTypeOK
<1>2. \A s \in Requests \ {r} : Holds(s) =>
         /\ peer[s].connection # c
         /\ \A i \in Cached : peer[s].connection # item[i].connection
  BY <1>0 DEF ExclusiveUse
<1>3. CASE SavePeer(r, failed, ok)
  <2> DEFINE evict == free = <<>>
             i == IF evict THEN cache[Len(cache)] ELSE free[1]
             gone == item[cache[Len(cache)]].connection
  <2>1. c \in Connections /\ MaxCached > 0 /\ worker = "running"
    BY <1>0, <1>1, <1>3, PoolAssumption DEF SavePeer, FreePeer, TypeInv, KeepaliveTypeOK
  <2>2. evict => cache[Len(cache)] \in Cached
    <3>1. evict => cache # <<>>
      BY <1>0, <2>1, NoneFree DEF QueueInv, TypeInv, KeepaliveTypeOK
    <3> QED  BY <1>1, <3>1 DEF Cached, Range
  <2>3. /\ conn' = [(IF evict THEN FreeConnection(conn, gone) ELSE conn)
                       EXCEPT ![c] = Parked(@, i)]
        /\ peer' = [peer EXCEPT ![r] = Detached(@)]
    BY <1>3 DEF SavePeer
  <2> HIDE DEF i
  <2>4. /\ peer'[r].connection = None
        /\ \A s \in Requests \ {r} : peer'[s] = peer[s]
    BY <1>1, <2>3 DEF Detached, PeerRecords
  <2>5. evict => gone \in Connections
    BY <1>0, <2>2 DEF ItemInv
  <2>6. \A d \in Connections \ {c} :
           conn'[d] = IF evict /\ d = gone THEN FreeConn ELSE conn[d]
    BY <1>1, <2>1, <2>3, <2>5 DEF FreeConnection
  <2>7. conn'[c].timers = {}
    <3>1. \E x \in ConnRecords : conn'[c] = Parked(x, i)
      BY <1>1, <2>1, <2>3, <2>5 DEF FreeConnection, FreeConn, ConnRecords
    <3> QED  BY <3>1 DEF Parked, ConnRecords
  <2>8. \A s \in Requests \ {r} : Holds(s) =>
           /\ peer[s].connection \in Connections \ {c}
           /\ evict => peer[s].connection # gone
    BY <1>0, <1>2, <2>2, Typed DEF Holds
  <2> QED  BY <2>4, <2>6, <2>7, <2>8 DEF FreeHasNoTimer, FreeConn
<1>4. CASE ClosePeer(r, failed, ok)
  <2>1. CASE c = None
    <3>1. conn' = conn /\ \E b : peer' = [peer EXCEPT ![r].failed = b]
      BY <1>4, <2>1 DEF ClosePeer
    <3> QED  BY <1>1, <2>1, <3>1 DEF FreeHasNoTimer, PeerRecords
  <2>2. CASE c # None
    <3> DEFINE b == peer[r].failed \/ (failed /\ max_cached > 0)
    <3>1. /\ conn' = [conn EXCEPT ![c] = FreeConn]
          /\ peer' = [peer EXCEPT ![r] =
                        [@ EXCEPT !.connection = None, !.pgconn = None, !.failed = b]]
      BY <1>4, <2>2 DEF ClosePeer, FreeConnection
    <3>2. /\ peer'[r].connection = None
          /\ \A s \in Requests \ {r} : peer'[s] = peer[s]
      BY <1>1, <3>1 DEF PeerRecords
    <3> QED  BY <1>1, <1>2, <2>2, <3>1, <3>2 DEF FreeHasNoTimer, FreeConn
  <2> QED  BY <2>1, <2>2
<1> QED  BY <1>3, <1>4 DEF FreePeer

(* A step of one request: the others keep what they have. *)
OthersKept(r) ==
    /\ \A s \in Requests \ {r} :
          /\ phase'[s] = phase[s] /\ peer'[s] = peer[s]
          /\ reply'[s] = reply[s] /\ state'[s] = state[s]
          /\ Holds(s) => conn'[peer[s].connection] = conn[peer[s].connection]
    /\ pc.fn = "loop" \/ pc.r = r
    /\ pc'.fn = "loop" \/ pc'.r = r

(* Such a step preserves the invariant if it does so for the one. *)
LEMMA OwnStep ==
    ASSUME SafeInv, ControlInv, NEW r \in Requests, ControlType', FreeHasNoTimer',
           \A s \in Requests \ {r} :
              /\ phase'[s] = phase[s] /\ peer'[s] = peer[s]
              /\ reply'[s] = reply[s] /\ state'[s] = state[s]
              /\ Holds(s) => conn'[peer[s].connection] = conn[peer[s].connection],
           pc.fn = "loop" \/ pc.r = r, pc'.fn = "loop" \/ pc'.r = r,
           \/ pc'.fn = "loop" /\ AtRest(r)'
           \/ \A s \in Requests \ {r} : AtRest(s),
           IF InFunction(r)' THEN Running(r)' ELSE Waiting(r)'
    PROVE  ControlInv' /\ OthersKept(r)
<1>1. ASSUME NEW s \in Requests \ {r}  PROVE ~InFunction(s)' /\ Waiting(s)'
  <2>1. Waiting(s) /\ ~InFunction(s)'
    BY <1>1 DEF ControlInv, InFunction
  <2> QED  BY <1>1, <2>1 DEF Waiting, Attentive, Timed, HoldsDatabase, Holds
<1>2. OneBetween'
  BY DEF ControlInv, OneBetween, AtRest
<1> QED  BY <1>1, <1>2 DEF ControlInv, FreeHasNoTimer, OthersKept

-----------------------------------------------------------------------------
(* The invariant of control: get_peer and what leads to it. *)

LEMMA PoolTyped ==
    ASSUME SafeInv
    PROVE  /\ conn \in [Connections -> ConnRecords]
           /\ peer \in [Requests -> PeerRecords]
           /\ phase \in [Requests -> Phases]
           /\ \A c \in Connections : conn[c] \in ConnRecords
           /\ \A r \in Requests : peer[r] \in PeerRecords
           /\ None \notin Connections
BY NullAssumption DEF SafeInv, TypeInv, KeepaliveTypeOK

LEMMA ControlInit == WorkerInit => ControlInv
<1> SUFFICES ASSUME WorkerInit  PROVE ControlInv
  OBVIOUS
<1>1. ControlType
  BY DEF WorkerInit, ControlType, Loop, States, Statuses, Replies
<1>2. \A r \in Requests : ~Holds(r) /\ phase[r] = "done" /\ reply[r] = 0 /\ ~InFunction(r)
  BY DEF WorkerInit, Init, Holds, NewPeer, InFunction, Loop
<1>3. OneBetween
  BY <1>2 DEF OneBetween, AtRest, WorkerInit, Loop
<1>4. FreeHasNoTimer
  BY DEF FreeHasNoTimer, WorkerInit, Init, FreeConn
<1> QED  BY <1>1, <1>2, <1>3, <1>4 DEF ControlInv, Waiting

LEMMA ControlHandle ==
    ASSUME SafeInv, ControlInv, NEW r \in Requests, HandleRequest(r)
    PROVE  ControlInv' /\ OthersKept(r)
<1>1. /\ pc = Loop /\ pc' = Loop /\ UNCHANGED conn
      /\ \A s \in Requests : AtRest(s)
      /\ peer' = [peer EXCEPT ![r] = NewPeer] /\ phase' = [phase EXCEPT ![r] = "new"]
  BY DEF HandleRequest, InitPeer, EventLoop, AtRest
<1>2. /\ phase'[r] = "new" /\ reply'[r] = 0
      /\ \A s \in Requests \ {r} :
            /\ phase'[s] = phase[s] /\ peer'[s] = peer[s]
            /\ reply'[s] = reply[s] /\ state'[s] = state[s]
  BY <1>1, PoolTyped DEF HandleRequest, ControlInv, ControlType
<1>3. ControlType' /\ FreeHasNoTimer'
  BY <1>1 DEF HandleRequest, ControlInv, ControlType, States, Statuses, Replies, Loop, FreeHasNoTimer
<1>4. Waiting(r)' /\ ~InFunction(r)'
  BY <1>1, <1>2 DEF Waiting, InFunction, Loop
<1> QED  BY <1>1, <1>2, <1>3, <1>4, OwnStep DEF Loop

(* nginx ends a request that is between two functions, or aborts it. *)
LEMMA ControlNginxFinalizes ==
    ASSUME SafeInv, ControlInv, NEW r \in Requests, NEW ok \in BOOLEAN,
           NEW code \in Replies \ {0}, pc = Loop, phase[r] # "again", NginxFinalizes(r, ok, code)
    PROVE  ControlInv' /\ OthersKept(r)
<1>1. /\ FreePeer(r, FALSE, ok) /\ pc' = Loop /\ phase' = [phase EXCEPT ![r] = "done"]
      /\ reply' = [reply EXCEPT ![r] = code]
      /\ UNCHANGED <<state, status, response>>
  BY DEF NginxFinalizes, FinishPeer
<1>2. /\ phase'[r] = "done"
      /\ \A s \in Requests \ {r} :
            phase'[s] = phase[s] /\ reply'[s] = reply[s] /\ state'[s] = state[s]
  BY <1>1, PoolTyped DEF ControlInv, ControlType
<1>3. /\ \A s \in Requests \ {r} :
            /\ peer'[s] = peer[s]
            /\ Holds(s) => conn'[peer[s].connection] = conn[peer[s].connection]
      /\ FreeHasNoTimer'
  BY <1>1, Freed DEF ControlInv
<1>4. ControlType'
  BY <1>1 DEF ControlInv, ControlType, Loop
<1>5. Waiting(r)' /\ ~InFunction(r)' /\ AtRest(r)'
  BY <1>1, <1>2 DEF Waiting, InFunction, Loop, AtRest
<1> QED  BY <1>1, <1>2, <1>3, <1>4, <1>5, OwnStep DEF Loop

(* When get_peer is called nothing has been answered, and nobody else is     *)
(* between two functions.                                                   *)
LEMMA AtGetPeer ==
    ASSUME SafeInv, ControlInv, NEW r \in Requests, pc = Loop, ~AtRest(r)
    PROVE  /\ \A s \in Requests \ {r} : AtRest(s)
           /\ Waiting(r)
           /\ phase[r] # "again" => reply[r] = 0
BY DEF ControlInv, OneBetween, InFunction, Loop, Waiting, AtRest

LEMMA ControlReuse ==
    ASSUME SafeInv, ControlInv, NEW r \in Requests, GetPeerCached(r)
    PROVE  ControlInv' /\ OthersKept(r)
<1>1. /\ pc = Loop /\ pc' = Run("process_events", r, 0)
      /\ state' = [state EXCEPT ![r] = "db_send_query"]
      /\ UNCHANGED <<status, response, reply, worker>>
      /\ worker = "running" /\ phase[r] = "new"
  BY DEF GetPeerCached, GetPeerSingle, GetPeerMulti, GetPeer, Reuse
<1>2. PICK k \in DOMAIN cache : \E a : Reuse(r, k, a)
  <2>1. CASE GetPeerSingle(r)
    <3>1. cache \in Seq(Items) /\ cache # <<>>
      BY <2>1 DEF SafeInv, TypeInv, KeepaliveTypeOK, GetPeerSingle
    <3>2. 1 \in DOMAIN cache
      BY <3>1
    <3> QED  BY <2>1, <3>2 DEF GetPeerSingle
  <2>2. CASE GetPeerMulti(r)
    BY <2>2 DEF GetPeerMulti, Matches
  <2> QED  BY <2>1, <2>2 DEF GetPeerCached
<1>a. PICK a : Reuse(r, k, a)
  BY <1>2
<1> DEFINE i == cache[k]
           c == item[i].connection
<1>3. i \in Cached
  BY <1>2 DEF SafeInv, TypeInv, KeepaliveTypeOK, Cached, Range
<1>4. c \in Connections /\ conn[c].fd \in PGconns
      /\ \A s \in Requests : Holds(s) => peer[s].connection # c
  BY <1>3 DEF SafeInv, ItemInv, ExclusiveUse
<1>5. /\ conn' = [conn EXCEPT ![c].idle = FALSE]
      /\ peer' = [peer EXCEPT ![r] = Taken(@, i, a)]
      /\ phase' = [phase EXCEPT ![r] = "again"]
  BY <1>a DEF Reuse
<1> HIDE DEF i, c
<1>6. /\ phase'[r] = "again" /\ state'[r] = "db_send_query"
      /\ \A s \in Requests \ {r} :
            /\ phase'[s] = phase[s] /\ peer'[s] = peer[s] /\ reply'[s] = reply[s]
            /\ state'[s] = state[s]
            /\ Holds(s) => conn'[peer[s].connection] = conn[peer[s].connection]
  BY <1>1, <1>4, <1>5, PoolTyped, Typed DEF ControlInv, ControlType, SafeInv, Holds
<1>7. peer'[r].connection = c /\ conn'[c].fd = conn[c].fd
  <2>1. peer'[r].connection = item[i].connection
    BY <1>5, PoolTyped DEF Taken, PeerRecords
  <2> QED  BY <1>4, <1>5, <2>1, PoolTyped DEF c, ConnRecords
<1>8. HoldsDatabase(r)'
  BY <1>4, <1>7, PoolTyped, NullAssumption DEF HoldsDatabase, Holds
<1>9. Running(r)' /\ InFunction(r)'
  BY <1>1, <1>6, <1>8, AtGetPeer DEF Running, InFunction, Run, AtRest
<1>10. ControlType' /\ FreeHasNoTimer'
  <2>1. \A d \in Connections : conn'[d].fd = conn[d].fd /\ conn'[d].timers = conn[d].timers
    BY <1>4, <1>5, PoolTyped DEF ConnRecords
  <2>2. FreeHasNoTimer'
    BY <2>1 DEF ControlInv, FreeHasNoTimer
  <2> QED  BY <1>1, <2>2 DEF ControlInv, ControlType, Run, States
<1> QED  BY <1>1, <1>6, <1>9, <1>10, AtGetPeer, OwnStep DEF Run, Loop, AtRest

(* get_peer connects, or makes a placeholder: the connection was nobody's.   *)
LEMMA ControlNew ==
    ASSUME SafeInv, ControlInv, NEW r \in Requests, GetPeerNew(r) \/ GetPeerNone(r)
    PROVE  ControlInv' /\ OthersKept(r)
<1>1. /\ pc = Loop /\ pc' = Loop /\ phase[r] = "new"
      /\ UNCHANGED <<status, response, reply>>
      /\ state' = state \/ state' = [state EXCEPT ![r] = "db_connect"]
  BY DEF GetPeerNew, GetPeerNone, ConnectPeer, RejectPeer, ConnectNoMemory,
         ConnectDeclined, ConnectInvalid, ConnectBadAdd, MissesCache, GetPeer, requestVars
<1>2. \/ conn' = conn
      \/ \E c \in Connections, x \in ConnRecords :
            conn[c].fd = None /\ x.timers = {} /\ conn' = [conn EXCEPT ![c] = x]
  <2>1. \A f \in PGconns \cup {ZeroFd} :
           [FreeConn EXCEPT !.fd = f] \in ConnRecords /\ [FreeConn EXCEPT !.fd = f].timers = {}
    BY FreeConnType DEF ConnRecords, FreeConn
  <2>2. CASE GetPeerNew(r)
    <3>1. PICK p \in PGconns, c \in GetConnection \ {None} :
             conn' = [conn EXCEPT ![c] = [FreeConn EXCEPT !.fd = p]]
      BY <2>2 DEF GetPeerNew, ConnectPeer
    <3>2. c \in Connections /\ conn[c].fd = None
      BY DEF GetConnection
    <3> QED  BY <2>1, <3>1, <3>2
  <2>3. CASE RejectPeer(r)
    <3>1. PICK c \in GetConnection :
             conn' = IF c = None THEN conn ELSE [conn EXCEPT ![c] = [FreeConn EXCEPT !.fd = ZeroFd]]
      BY <2>3 DEF RejectPeer
    <3>2. c # None => c \in Connections /\ conn[c].fd = None
      BY DEF GetConnection
    <3> QED  BY <2>1, <3>1, <3>2
  <2>4. CASE GetPeerNone(r) /\ ~RejectPeer(r)
    BY <2>4 DEF GetPeerNone, ConnectNoMemory, ConnectDeclined, ConnectInvalid, ConnectBadAdd
  <2> QED  BY <2>2, <2>3, <2>4
<1>3. \E rc \in {"again", "error", "declined"} : \E c, p : Leave(r, c, p, rc)
  <2>1. CASE GetPeerNew(r)
    BY <2>1 DEF GetPeerNew, ConnectPeer
  <2>2. CASE RejectPeer(r)
    BY <2>2 DEF RejectPeer
  <2>3. CASE ConnectNoMemory(r)
    BY <2>3 DEF ConnectNoMemory
  <2>4. CASE ConnectDeclined(r)
    BY <2>4 DEF ConnectDeclined
  <2>5. CASE ConnectInvalid(r)
    <3>1. \E p : Leave(r, None, p, "error")
      BY <2>5 DEF ConnectInvalid
    <3> QED  BY <3>1
  <2>6. CASE ConnectBadAdd(r)
    <3>1. \E c, p : Leave(r, c, p, "error")
      BY <2>6 DEF ConnectBadAdd
    <3> QED  BY <3>1
  <2> QED  BY <2>1, <2>2, <2>3, <2>4, <2>5, <2>6 DEF GetPeerNone
<1>4. /\ phase'[r] \in {"again", "error", "declined"}
      /\ \A s \in Requests \ {r} :
            /\ phase'[s] = phase[s] /\ peer'[s] = peer[s]
            /\ reply'[s] = reply[s] /\ state'[s] = state[s]
  <2>1. PICK rc \in {"again", "error", "declined"} : \E c, p : Leave(r, c, p, rc)
    BY <1>3
  <2>2. /\ phase'[r] = rc
        /\ \A s \in Requests \ {r} : phase'[s] = phase[s] /\ peer'[s] = peer[s]
    BY <2>1, PoolTyped DEF Leave
  <2>3. \A s \in Requests \ {r} : reply'[s] = reply[s] /\ state'[s] = state[s]
    BY <1>1 DEF ControlInv, ControlType
  <2> QED  BY <2>2, <2>3
<1>5. \A s \in Requests \ {r} :
         Holds(s) => conn'[peer[s].connection] = conn[peer[s].connection]
  <2>1. \A s \in Requests : Holds(s) =>
           peer[s].connection \in Connections /\ conn[peer[s].connection].fd # None
    BY Typed DEF SafeInv, PeerInv, Holds
  <2> QED  BY <1>2, <2>1, PoolTyped
<1>6. FreeHasNoTimer'
  BY <1>2, PoolTyped DEF FreeHasNoTimer, ControlInv
<1>7. ControlType'
  BY <1>1 DEF ControlInv, ControlType, States
<1>8. reply'[r] = 0 /\ ~InFunction(r)'
  BY <1>1, AtGetPeer DEF InFunction, Loop, AtRest
<1>9. Waiting(r)'
  <2>1. CASE GetPeerNew(r)
    <3>1. state'[r] = "db_connect"
      BY <2>1 DEF GetPeerNew, ControlInv, ControlType
    <3> QED  BY <3>1, <1>4, <1>8 DEF Waiting
  <2>2. CASE RejectPeer(r)
    <3>1. PICK c \in GetConnection :
             /\ conn' = IF c = None THEN conn ELSE [conn EXCEPT ![c] = [FreeConn EXCEPT !.fd = ZeroFd]]
             /\ Leave(r, c, None, "again")
      BY <2>2 DEF RejectPeer
    <3>2. c # None => c \in Connections /\ conn[c].fd = None
      BY DEF GetConnection
    <3>3. peer'[r].connection = c
      BY <3>1, PoolTyped DEF Leave, PeerRecords
    <3>4. ~HoldsDatabase(r)'
      BY <3>1, <3>2, <3>3, PoolTyped DEF HoldsDatabase, Holds, FreeConn
    <3> QED  BY <3>4, <1>4, <1>8 DEF Waiting
  <2>3. CASE GetPeerNone(r) /\ ~RejectPeer(r)
    <3>1. \E rc \in {"error", "declined"} : \E c, p : Leave(r, c, p, rc)
      <4>1. ConnectNoMemory(r) => Leave(r, None, None, "error")
        BY DEF ConnectNoMemory
      <4>2. ConnectDeclined(r) => Leave(r, None, None, "declined")
        BY DEF ConnectDeclined
      <4>3. ConnectInvalid(r) => \E p : Leave(r, None, p, "error")
        BY DEF ConnectInvalid
      <4>4. ConnectBadAdd(r) => \E c, p : Leave(r, c, p, "error")
        BY DEF ConnectBadAdd
      <4> QED  BY <2>3, <4>1, <4>2, <4>3, <4>4 DEF GetPeerNone
    <3>2. phase'[r] \in {"error", "declined"}
      BY <3>1, PoolTyped DEF Leave
    <3> QED  BY <3>2, <1>8 DEF Waiting
  <2> QED  BY <2>1, <2>2, <2>3
<1> QED  BY <1>1, <1>4, <1>5, <1>6, <1>7, <1>8, <1>9, AtGetPeer, OwnStep DEF Loop, AtRest

(* nginx goes on after get_peer, or finds NULL. *)
LEMMA ControlConnected ==
    ASSUME SafeInv, ControlInv, NEW r \in Requests, Connected(r)
    PROVE  ControlInv' /\ OthersKept(r)
<1>1. pc = Loop /\ pc' = Loop /\ UNCHANGED <<state, status, response, reply, peer>>
  BY DEF Connected, Attach, Crash, requestVars
<1>2. ControlType' /\ ~InFunction(r)'
  BY <1>1 DEF ControlInv, ControlType, InFunction, Loop
<1>3. CASE Attach(r)
  <2> DEFINE c == peer[r].connection
  <2>1. /\ phase[r] = "again" /\ Holds(r) /\ c \in Connections
        /\ conn' = [conn EXCEPT ![c] = Attached(@, r)]
        /\ phase' = [phase EXCEPT ![r] = IF conn[c].fd = ZeroFd THEN "placeholder" ELSE "active"]
    BY <1>3, Typed DEF Attach, Holds, SafeInv
  <2>2. /\ conn'[c].fd = conn[c].fd /\ conn'[c].data = r /\ conn'[c].handler = "upstream"
        /\ conn'[c].timers = conn[c].timers \cup {"write"}
        /\ \A d \in Connections \ {c} : conn'[d] = conn[d]
    BY <2>1, PoolTyped DEF Attached, ConnRecords
  <2>3. conn[c].fd # None
    BY <2>1 DEF SafeInv, PeerInv
  <2>4. FreeHasNoTimer'
    BY <2>1, <2>2, <2>3 DEF FreeHasNoTimer, ControlInv
  <2>5. \A s \in Requests \ {r} :
           /\ phase'[s] = phase[s]
           /\ Holds(s) => conn'[peer[s].connection] = conn[peer[s].connection]
    <3>1. \A s \in Requests \ {r} : Holds(s) => peer[s].connection \in Connections \ {c}
      BY <2>1, Typed DEF SafeInv, ExclusiveUse, Holds
    <3> QED  BY <2>1, <2>2, <3>1, PoolTyped
  <2>6. Waiting(r) /\ reply'[r] = 0 /\ \A s \in Requests \ {r} : AtRest(s)
    BY <1>1, <2>1, AtGetPeer DEF Waiting, AtRest
  <2>7. HoldsDatabase(r)' <=> HoldsDatabase(r)
    BY <1>1, <2>2 DEF HoldsDatabase, Holds
  <2>8. phase'[r] = IF HoldsDatabase(r) THEN "active" ELSE "placeholder"
    BY <2>1, PoolTyped DEF HoldsDatabase
  <2>9. Waiting(r)'
    <3>1. CASE HoldsDatabase(r)
      <4>1. Attentive(r)'
        BY <1>1, <2>2, <2>7, <3>1 DEF Attentive
      <4>2. Timed(r)' /\ state'[r] \in {"db_connect", "db_get_result", "db_get_ack"}
        BY <1>1, <2>1, <2>2, <2>6, <3>1 DEF Waiting, Timed
      <4> QED  BY <2>6, <2>8, <3>1, <4>1, <4>2 DEF Waiting
    <3>2. CASE ~HoldsDatabase(r)
      BY <2>6, <2>8, <3>2 DEF Waiting
    <3> QED  BY <3>1, <3>2
  <2> QED  BY <1>1, <1>2, <2>4, <2>5, <2>6, <2>9, OwnStep DEF Loop
<1>4. CASE Crash(r)
  <2>1. UNCHANGED <<phase, conn>>
    BY <1>4 DEF Crash
  <2>2. \A s \in Requests : Waiting(s)' /\ ~InFunction(s)'
    BY <1>1, <2>1 DEF ControlInv, InFunction, Loop, Waiting, Attentive, Timed, HoldsDatabase, Holds
  <2>3. OneBetween' /\ FreeHasNoTimer'
    BY <1>1, <2>1 DEF ControlInv, OneBetween, AtRest, FreeHasNoTimer
  <2> QED  BY <1>1, <1>2, <2>1, <2>2, <2>3 DEF ControlInv, OthersKept, Loop
<1> QED  BY <1>3, <1>4 DEF Connected

LEMMA ControlDeclined ==
    ASSUME SafeInv, ControlInv, NEW r \in Requests, Declined(r)
    PROVE  ControlInv' /\ OthersKept(r)
<1>1. /\ pc = Loop /\ pc' = Run("finalize", r, 502) /\ phase[r] = "declined"
      /\ FreePeer(r, TRUE, FALSE) /\ phase' = [phase EXCEPT ![r] = "failed"]
      /\ UNCHANGED <<state, status, response, reply>> /\ worker' = "running"
  BY DEF Declined, FailPeer, requestVars, FreePeer
<1>2. /\ phase'[r] = "failed" /\ \A s \in Requests \ {r} : phase'[s] = phase[s]
  BY <1>1, PoolTyped
<1>3. /\ peer'[r].connection = None
      /\ \A s \in Requests \ {r} :
            /\ peer'[s] = peer[s]
            /\ Holds(s) => conn'[peer[s].connection] = conn[peer[s].connection]
      /\ FreeHasNoTimer'
  BY <1>1, Freed DEF ControlInv
<1>4. reply[r] = 0 /\ \A s \in Requests \ {r} : AtRest(s)
  BY <1>1, AtGetPeer DEF AtRest
<1>5. ControlType'
  BY <1>1 DEF ControlInv, ControlType, Run, Replies
<1>6. Running(r)' /\ InFunction(r)'
  BY <1>1, <1>2, <1>3, <1>4 DEF Running, InFunction, Run, Holds
<1> QED  BY <1>1, <1>2, <1>3, <1>4, <1>5, <1>6, OwnStep DEF Run, Loop

LEMMA ControlCleanUp ==
    ASSUME SafeInv, ControlInv, NEW r \in Requests, CleanUpPart(r)
    PROVE  ControlInv' /\ OthersKept(r)
<1> DEFINE c == peer[r].connection
<1>1. /\ pc = Loop /\ pc' = Run("finalize", r, 503) /\ phase[r] = "placeholder"
      /\ Holds(r) /\ c \in Connections
      /\ conn' = [conn EXCEPT ![c] = FreeConn]
      /\ peer' = [peer EXCEPT ![r].connection = None]
      /\ UNCHANGED <<state, status, response, reply, phase>> /\ worker' = "running"
  BY Typed DEF CleanUpPart, DropPlaceholder, requestVars, FreeConnection, Holds, SafeInv
<1>2. reply[r] = 0 /\ \A s \in Requests \ {r} : AtRest(s)
  BY <1>1, AtGetPeer DEF AtRest
<1>3. /\ peer'[r].connection = None
      /\ \A s \in Requests \ {r} : peer'[s] = peer[s]
  BY <1>1, PoolTyped DEF PeerRecords
<1>4. \A s \in Requests \ {r} :
         Holds(s) => conn'[peer[s].connection] = conn[peer[s].connection]
  <2>1. \A s \in Requests \ {r} : Holds(s) => peer[s].connection \in Connections \ {c}
    BY <1>1, Typed DEF SafeInv, ExclusiveUse, Holds
  <2> QED  BY <1>1, <2>1, PoolTyped
<1>5. ControlType' /\ FreeHasNoTimer'
  BY <1>1, PoolTyped DEF ControlInv, ControlType, Run, Replies, FreeHasNoTimer, FreeConn
<1>6. Running(r)' /\ InFunction(r)'
  BY <1>1, <1>2, <1>3 DEF Running, InFunction, Run, Holds
<1> QED  BY <1>1, <1>2, <1>3, <1>4, <1>5, <1>6, OwnStep DEF Run, Loop

-----------------------------------------------------------------------------
(* The invariant of control: ngx_postgres_process_events. *)

(* A processing function changes the timers of its own connection, and the  *)
(* request keeps what it has.                                               *)
LEMMA TimersOnly ==
    ASSUME SafeInv, ControlInv, NEW r \in Requests, pc.r = r, pc.fn = "process_events",
           UNCHANGED <<peer, phase>>, NEW ts, WithTimers(peer[r].connection, ts)
    PROVE  /\ conn'[peer[r].connection].timers = ts
           /\ HoldsDatabase(r)'
           /\ Attentive(r) => Attentive(r)'
           /\ \A s \in Requests \ {r} :
                 Holds(s) => conn'[peer[s].connection] = conn[peer[s].connection]
           /\ FreeHasNoTimer'
<1> DEFINE c == peer[r].connection
<1>1. /\ c \in Connections /\ HoldsDatabase(r) /\ conn[c].fd \in PGconns
      /\ conn[c] \in ConnRecords
  BY RunningHolds, PoolTyped
<1>2. conn' = [conn EXCEPT ![c].timers = ts]
  BY DEF WithTimers
<1>3. /\ conn'[c].timers = ts /\ conn'[c].fd = conn[c].fd
      /\ conn'[c].data = conn[c].data /\ conn'[c].handler = conn[c].handler
      /\ \A d \in Connections \ {c} : conn'[d] = conn[d]
  BY <1>1, <1>2, PoolTyped DEF ConnRecords
<1>4. \A s \in Requests \ {r} : Holds(s) => peer[s].connection \in Connections \ {c}
  BY <1>1, Typed DEF SafeInv, ExclusiveUse, Holds, HoldsDatabase
<1>5. HoldsDatabase(r)' /\ (Attentive(r) => Attentive(r)')
  BY <1>1, <1>3 DEF HoldsDatabase, Holds, Attentive
<1>6. FreeHasNoTimer'
  BY <1>1, <1>3, PoolTyped, NullAssumption DEF FreeHasNoTimer, ControlInv
<1> QED  BY <1>3, <1>4, <1>5, <1>6

LEMMA ProcessingStep ==
    ASSUME SafeInv, ControlInv, NEW r \in Requests, pc.r = r, pc.fn = "process_events",
           UNCHANGED <<peer, phase, reply>>,
           conn' = conn \/ \E ts : WithTimers(peer[r].connection, ts),
           \A s \in Requests \ {r} : state'[s] = state[s],
           ControlType', pc'.fn = "loop" \/ pc'.r = r,
           IF InFunction(r)' THEN Running(r)' ELSE Waiting(r)'
    PROVE  ControlInv' /\ OthersKept(r)
<1>1. /\ \A s \in Requests \ {r} :
            Holds(s) => conn'[peer[s].connection] = conn[peer[s].connection]
      /\ FreeHasNoTimer'
  <2>1. CASE conn' = conn
    BY <2>1 DEF FreeHasNoTimer, ControlInv
  <2>2. CASE \E ts : WithTimers(peer[r].connection, ts)
    BY <2>2, TimersOnly
  <2> QED  BY <2>1, <2>2
<1>2. \A s \in Requests \ {r} : AtRest(s)
  BY DEF ControlInv, OneBetween
<1> QED  BY <1>1, <1>2, OwnStep

(* What a processing function finds. *)
LEMMA Processing ==
    ASSUME SafeInv, ControlInv, NEW r \in Requests, NEW ss, Processes(r, ss)
    PROVE  /\ pc.r = r /\ pc.fn = "process_events"
           /\ UNCHANGED <<peer, phase, reply, worker>>
           /\ HoldsDatabase(r) /\ Running(r) /\ state[r] \in ss /\ worker = "running"
           /\ \/ phase[r] = "active" /\ Attentive(r) /\ Timed(r)
              \/ phase[r] = "again" /\ state[r] = "db_send_query"
<1>1. pc.r = r /\ pc.fn = "process_events" /\ UNCHANGED <<peer, phase, reply, worker>>
      /\ state[r] \in ss /\ worker = "running"
  BY DEF Processes
<1>2. Running(r)
  BY <1>1 DEF ControlInv, InFunction
<1> QED  BY <1>1, <1>2, RunningHolds DEF Running

LEMMA SameConn ==
    ASSUME NEW r \in Requests, UNCHANGED <<peer, conn>>
    PROVE  /\ HoldsDatabase(r)' <=> HoldsDatabase(r)
           /\ Attentive(r)' <=> Attentive(r)
BY DEF HoldsDatabase, Holds, Attentive

LEMMA ControlConnect ==
    ASSUME SafeInv, ControlInv, NEW r \in Requests, Connect(r)
    PROVE  ControlInv' /\ OthersKept(r)
<1> DEFINE c == peer[r].connection
<1>1. Processes(r, {"db_connect"}) /\ UNCHANGED <<status, response>>
  BY DEF Connect
<1>2. /\ pc.r = r /\ pc.fn = "process_events" /\ UNCHANGED <<peer, phase, reply, worker>>
      /\ HoldsDatabase(r) /\ worker = "running" /\ reply[r] = 0 /\ state[r] = "db_connect"
      /\ phase[r] = "active" /\ Attentive(r) /\ Timed(r)
  BY <1>1, Processing DEF Running
<1>3. \/ pc' = Loop /\ UNCHANGED <<state, conn>>
      \/ /\ WithTimers(c, conn[c].timers \ {"write"})
         /\ \/ pc' = Run("next", r, FT_ERROR) /\ UNCHANGED state
            \/ pc' = pc /\ state' = [state EXCEPT ![r] = "db_send_query"]
  BY DEF Connect, Returns, Fails, Runs
<1>4. CASE pc' = Loop /\ UNCHANGED <<state, conn>>
  <2>1. ControlType'
    BY <1>1, <1>2, <1>4 DEF ControlInv, ControlType, Loop
  <2>2. Waiting(r)' /\ ~InFunction(r)'
    BY <1>2, <1>4, SameConn DEF Waiting, InFunction, Loop, Timed
  <2> QED  BY <1>2, <1>4, <2>1, <2>2, ProcessingStep DEF Loop
<1>5. CASE /\ WithTimers(c, conn[c].timers \ {"write"})
           /\ pc' = Run("next", r, FT_ERROR) /\ UNCHANGED state
  <2>1. ControlType'
    BY <1>1, <1>2, <1>5 DEF ControlInv, ControlType, Run, FT_ERROR, FailTypes
  <2>2. Running(r)' /\ InFunction(r)'
    BY <1>2, <1>5, TimersOnly DEF Running, InFunction, Run
  <2> QED  BY <1>2, <1>5, <2>1, <2>2, ProcessingStep DEF Run
<1>6. CASE /\ WithTimers(c, conn[c].timers \ {"write"})
           /\ pc' = pc /\ state' = [state EXCEPT ![r] = "db_send_query"]
  <2>1. /\ state'[r] = "db_send_query"
        /\ \A s \in Requests \ {r} : state'[s] = state[s]
        /\ ControlType'
    BY <1>1, <1>2, <1>6 DEF ControlInv, ControlType, States
  <2>2. Running(r)' /\ InFunction(r)'
    BY <1>2, <1>6, <2>1, TimersOnly DEF Running, InFunction, Timed
  <2> QED  BY <1>2, <1>6, <2>1, <2>2, ProcessingStep
<1> QED  BY <1>3, <1>4, <1>5, <1>6

LEMMA ControlSend ==
    ASSUME SafeInv, ControlInv, NEW r \in Requests, SendQuery(r)
    PROVE  ControlInv' /\ OthersKept(r)
<1> DEFINE c == peer[r].connection
<1>1. Processes(r, {"db_send_query", "db_idle"}) /\ UNCHANGED <<status, response>>
  BY DEF SendQuery
<1>2. /\ pc.r = r /\ pc.fn = "process_events" /\ UNCHANGED <<peer, phase, reply, worker>>
      /\ HoldsDatabase(r) /\ worker = "running" /\ reply[r] = 0
      /\ phase[r] \in {"active", "again"} /\ (phase[r] = "active" => Attentive(r))
  BY <1>1, Processing DEF Running
<1>3. \/ /\ pc' = Loop /\ WithTimers(c, conn[c].timers \cup {"read"})
         /\ state' = [state EXCEPT ![r] = "db_get_result"]
      \/ pc' = Run("next", r, FT_ERROR) /\ UNCHANGED <<state, conn>>
  BY DEF SendQuery, Returns, Fails, Runs, ResultTimer
<1>4. CASE /\ pc' = Loop /\ WithTimers(c, conn[c].timers \cup {"read"})
           /\ state' = [state EXCEPT ![r] = "db_get_result"]
  <2>1. /\ state'[r] = "db_get_result"
        /\ \A s \in Requests \ {r} : state'[s] = state[s]
        /\ ControlType'
    BY <1>1, <1>2, <1>4 DEF ControlInv, ControlType, Loop, States
  <2>2. Timed(r)'
    BY <1>2, <1>4, <2>1, TimersOnly DEF Timed
  <2>3. Waiting(r)' /\ ~InFunction(r)'
    BY <1>2, <1>4, <2>1, <2>2, TimersOnly DEF Waiting, InFunction, Loop
  <2> QED  BY <1>2, <1>4, <2>1, <2>3, ProcessingStep DEF Loop
<1>5. CASE pc' = Run("next", r, FT_ERROR) /\ UNCHANGED <<state, conn>>
  <2>1. ControlType'
    BY <1>1, <1>2, <1>5 DEF ControlInv, ControlType, Run, FT_ERROR, FailTypes
  <2>2. Running(r)' /\ InFunction(r)'
    BY <1>2, <1>5, SameConn DEF Running, InFunction, Run
  <2> QED  BY <1>2, <1>5, <2>1, <2>2, ProcessingStep DEF Run
<1> QED  BY <1>3, <1>4, <1>5

LEMMA ControlResult ==
    ASSUME SafeInv, ControlInv, NEW r \in Requests, GetResult(r)
    PROVE  ControlInv' /\ OthersKept(r)
<1> DEFINE c == peer[r].connection
<1>1. /\ Processes(r, {"db_get_result"})
      /\ WithTimers(c, conn[c].timers \ {"write"})
  BY DEF GetResult
<1>2. /\ pc.r = r /\ pc.fn = "process_events" /\ UNCHANGED <<peer, phase, reply, worker>>
      /\ HoldsDatabase(r) /\ worker = "running" /\ reply[r] = 0 /\ state[r] = "db_get_result"
      /\ phase[r] = "active" /\ Attentive(r) /\ Timed(r)
  BY <1>1, Processing DEF Running
<1>3. /\ conn'[c].timers = conn[c].timers \ {"write"}
      /\ HoldsDatabase(r)' /\ Attentive(r)'
  BY <1>1, <1>2, TimersOnly
<1>4. \/ /\ \/ pc' = Loop \/ pc' = Run("next", r, FT_ERROR) \/ pc' = Run("finalize", r, 500)
         /\ UNCHANGED <<state, status, response>>
      \/ /\ pc' = pc /\ state' = [state EXCEPT ![r] = "db_get_ack"]
         /\ \E x \in Statuses : status' = [status EXCEPT ![r] = x]
         /\ \E q : response' = [response EXCEPT ![r] = q]
  BY DEF GetResult, ProcessResponse, Returns, Fails, Runs
<1>5. CASE /\ \/ pc' = Loop \/ pc' = Run("next", r, FT_ERROR) \/ pc' = Run("finalize", r, 500)
           /\ UNCHANGED <<state, status, response>>
  <2>1. ControlType'
    BY <1>2, <1>5 DEF ControlInv, ControlType, Run, FT_ERROR, FailTypes, Replies, Loop
  <2>2. pc' = Loop => Waiting(r)' /\ ~InFunction(r)'
    BY <1>2, <1>3, <1>5 DEF Waiting, InFunction, Loop, Timed
  <2>3. pc' # Loop => Running(r)' /\ InFunction(r)' /\ pc'.r = r
    BY <1>2, <1>3, <1>5 DEF Running, InFunction, Run
  <2> QED  BY <1>1, <1>2, <1>5, <2>1, <2>2, <2>3, ProcessingStep DEF Loop
<1>6. CASE /\ pc' = pc /\ state' = [state EXCEPT ![r] = "db_get_ack"]
           /\ \E x \in Statuses : status' = [status EXCEPT ![r] = x]
           /\ \E q : response' = [response EXCEPT ![r] = q]
  <2>0. state \in [Requests -> States] /\ state' = [state EXCEPT ![r] = "db_get_ack"]
    BY <1>6 DEF ControlInv, ControlType
  <2>1. /\ state'[r] = "db_get_ack"
        /\ \A s \in Requests \ {r} : state'[s] = state[s]
    BY <2>0
  <2>2. ControlType'
    BY <1>2, <1>6 DEF ControlInv, ControlType, States
  <2>3. Running(r)' /\ InFunction(r)'
    BY <1>2, <1>3, <1>6, <2>1 DEF Running, InFunction, Timed
  <2> QED  BY <1>1, <1>2, <1>6, <2>1, <2>2, <2>3, ProcessingStep
<1> QED  BY <1>4, <1>5, <1>6

LEMMA ControlAck ==
    ASSUME SafeInv, ControlInv, NEW r \in Requests, GetAck(r)
    PROVE  ControlInv' /\ OthersKept(r)
<1> DEFINE c == peer[r].connection
<1>1. /\ Processes(r, {"db_get_ack"}) /\ UNCHANGED <<status, response>>
      /\ conn' = conn \/ WithTimers(c, conn[c].timers \ {"read"})
  BY DEF GetAck
<1>2. /\ pc.r = r /\ pc.fn = "process_events" /\ UNCHANGED <<peer, phase, reply, worker>>
      /\ HoldsDatabase(r) /\ worker = "running" /\ reply[r] = 0 /\ state[r] = "db_get_ack"
      /\ phase[r] = "active" /\ Attentive(r) /\ Timed(r)
  BY <1>1, Processing DEF Running
<1>3. HoldsDatabase(r)' /\ Attentive(r)'
  BY <1>1, <1>2, TimersOnly, SameConn
<1>4. \/ pc' = Loop /\ UNCHANGED <<state, conn>>
      \/ pc' = Run("next", r, FT_ERROR) /\ UNCHANGED state
      \/ /\ \E rc \in Replies \ {0} : pc' = Run("finalize", r, rc)
         /\ state' = state \/ state' = [state EXCEPT ![r] = "db_idle"]
  <2>1. /\ 500 \in Replies \ {0} /\ OK \in Replies \ {0}
        /\ status[r] >= SpecialResponse => status[r] \in Replies \ {0}
    BY DEF ControlInv, ControlType, Statuses, Special, OK, Replies, SpecialResponse
  <2> QED  BY <2>1 DEF GetAck, Returns, Fails, Runs
<1>5. /\ pc' \in [fn : {"loop", "process_events", "next", "finalize"},
                  r : Requests \cup {None}, arg : Int]
      /\ pc'.fn # "loop" => pc'.r \in Requests
      /\ pc'.fn = "next" => pc'.arg \in FailTypes
      /\ pc'.fn = "finalize" => pc'.arg \in Replies \ {0}
  <2>1. Replies \subseteq Int /\ FT_ERROR \in FailTypes \cap Int
    BY DEF Replies, OK, Special, ClientClosed, FT_ERROR, FailTypes
  <2>2. CASE pc' = Loop
    BY <2>2 DEF Loop
  <2>3. CASE pc' = Run("next", r, FT_ERROR)
    BY <2>1, <2>3 DEF Run
  <2>4. ASSUME NEW rc \in Replies \ {0}, pc' = Run("finalize", r, rc)  PROVE <1>5!:
    BY <2>1, <2>4 DEF Run
  <2> QED  BY <1>4, <2>2, <2>3, <2>4
<1>6. ControlType' /\ \A s \in Requests \ {r} : state'[s] = state[s]
  BY <1>1, <1>2, <1>4, <1>5 DEF ControlInv, ControlType, States
<1>7. pc' = Loop => Waiting(r)' /\ ~InFunction(r)'
  <2>0. \A fn \in {"next", "finalize"} : \A x : Run(fn, r, x) # Loop
    BY DEF Loop, Run
  <2>1. pc' = Loop => UNCHANGED <<state, conn>>
    BY <1>4, <2>0
  <2> QED  BY <1>2, <1>3, <2>1 DEF Waiting, InFunction, Loop, Timed
<1>8. pc' # Loop => Running(r)' /\ InFunction(r)' /\ pc'.r = r
  BY <1>2, <1>3, <1>4 DEF Running, InFunction, Run
<1> QED  BY <1>1, <1>2, <1>6, <1>7, <1>8, ProcessingStep DEF Loop

-----------------------------------------------------------------------------
(* The invariant of control: the end of a request, and the event loop. *)

LEMMA ControlUpstreamNext ==
    ASSUME SafeInv, ControlInv, NEW r \in Requests, UpstreamNext(r)
    PROVE  ControlInv' /\ OthersKept(r)
<1>1. /\ pc.r = r /\ pc.fn = "next" /\ FreePeer(r, TRUE, FALSE)
      /\ phase' = [phase EXCEPT ![r] = IF phase[r] = "again" THEN "again" ELSE "failed"]
      /\ UNCHANGED <<state, status, response, reply>> /\ worker' = "running"
  BY DEF UpstreamNext, FailPeer, requestVars, FreePeer
<1>2. /\ phase'[r] \in {"failed", "again"}
      /\ \A s \in Requests \ {r} : phase'[s] = phase[s]
  BY <1>1, PoolTyped
<1>3. /\ peer'[r].connection = None
      /\ \A s \in Requests \ {r} :
            /\ peer'[s] = peer[s]
            /\ Holds(s) => conn'[peer[s].connection] = conn[peer[s].connection]
      /\ FreeHasNoTimer'
  BY <1>1, Freed DEF ControlInv
<1>4. /\ InFunction(r) /\ Running(r) /\ \A s \in Requests \ {r} : AtRest(s)
  BY <1>1 DEF ControlInv, InFunction, OneBetween
<1>5. PICK rc \in Replies \ {0} : pc' = Run("finalize", r, rc)
  BY DEF UpstreamNext, Runs, CodeOf, ClientClosed, Replies
<1>6. ControlType'
  <2>1. rc \in Int
    BY DEF Replies, OK, Special, ClientClosed
  <2> QED  BY <1>1, <1>5, <2>1 DEF ControlInv, ControlType, Run
<1>7. Running(r)' /\ InFunction(r)'
  BY <1>1, <1>2, <1>3, <1>4, <1>5 DEF Running, InFunction, Run, Holds
<1> QED  BY <1>1, <1>2, <1>3, <1>4, <1>5, <1>6, <1>7, OwnStep DEF Run

LEMMA ControlFinalize ==
    ASSUME SafeInv, ControlInv, NEW r \in Requests, FinalizeRequest(r)
    PROVE  ControlInv' /\ OthersKept(r)
<1>1. /\ pc.r = r /\ pc.fn = "finalize" /\ FreePeer(r, FALSE, Acked(r)) /\ pc' = Loop
      /\ phase' = [phase EXCEPT ![r] = IF phase[r] = "again" THEN "again" ELSE "done"]
      /\ reply' = [reply EXCEPT ![r] = pc.arg]
      /\ UNCHANGED <<state, status, response>> /\ Acked(r) \in BOOLEAN
  BY DEF FinalizeRequest, FinishPeer, Returns, Acked
<1>2. /\ phase'[r] \in {"done", "again"}
      /\ \A s \in Requests \ {r} : phase'[s] = phase[s] /\ reply'[s] = reply[s]
  BY <1>1, PoolTyped DEF ControlInv, ControlType
<1>3. /\ peer'[r].connection = None
      /\ \A s \in Requests \ {r} :
            /\ peer'[s] = peer[s]
            /\ Holds(s) => conn'[peer[s].connection] = conn[peer[s].connection]
      /\ FreeHasNoTimer'
  BY <1>1, Freed DEF ControlInv
<1>4. \A s \in Requests \ {r} : AtRest(s)
  BY <1>1 DEF ControlInv, OneBetween
<1>5. ControlType'
  BY <1>1 DEF ControlInv, ControlType, Loop
<1>6. Waiting(r)' /\ ~InFunction(r)'
  BY <1>1, <1>2, <1>3 DEF Waiting, InFunction, Loop, Holds, HoldsDatabase
<1> QED  BY <1>1, <1>2, <1>3, <1>4, <1>5, <1>6, OwnStep DEF Loop

(* An event or a timer of a connection runs a function of its request. *)
LEMMA ControlEvent ==
    ASSUME SafeInv, ControlInv, NEW c \in Connections,
           (\E e \in {"read", "write"} : Deliver(c, e)) \/ (\E t \in {"read", "write"} : TimerExpires(c, t))
    PROVE  ControlInv' /\ \E r \in Requests : OthersKept(r) /\ HoldsDatabase(r) /\ HoldsDatabase(r)'
<1>1. AtLoop /\ (conn[c].handler = "upstream" \/ conn[c].timers # {})
  BY DEF Deliver, TimerExpires
<1>2. PICK r \in Requests : /\ r = conn[c].data /\ peer[r].connection = c
                           /\ phase[r] = "active" /\ Attentive(r) /\ Timed(r)
  BY <1>1, InHands
<1>3. /\ pc = Loop /\ worker = "running" /\ \A s \in Requests : AtRest(s)
  BY <1>1 DEF AtLoop, EventLoop, AtRest
<1>4. Waiting(r) /\ reply[r] = 0
  BY <1>2, <1>3 DEF ControlInv, InFunction, Loop, Waiting
<1>5. /\ UNCHANGED <<peer, phase, worker, state, status, response, reply>>
      /\ \/ conn' = conn /\ pc' = Run("process_events", r, 0)
         \/ conn' = conn /\ pc' = Run("next", r, FT_ERROR)
         \/ /\ \E t : conn' = [conn EXCEPT ![c].timers = conn[c].timers \ {t}]
            /\ pc' = Run("next", r, FT_TIMEOUT)
  <2>1. ASSUME NEW e, Deliver(c, e)  PROVE <1>5!:
    BY <1>2, <2>1 DEF Deliver, keepaliveVars, requestVars, Fails, Runs
  <2>2. ASSUME NEW t, TimerExpires(c, t)  PROVE <1>5!:
    <3>1. /\ conn' = [conn EXCEPT ![c].timers = conn[c].timers \ {t}]
          /\ pc' = Run("next", r, FT_TIMEOUT)
          /\ UNCHANGED <<peer, phase, worker, state, status, response, reply>>
      BY <1>2, <2>2 DEF TimerExpires, WithTimers, requestVars, Runs
    <3> QED  BY <3>1
  <2> QED  BY <2>1, <2>2
<1>6. \/ conn' = conn /\ pc' = Run("process_events", r, 0)
      \/ pc' = Run("next", r, FT_ERROR) \/ pc' = Run("next", r, FT_TIMEOUT)
  BY <1>5
<1>7. \/ conn' = conn
      \/ \E t : conn' = [conn EXCEPT ![c].timers = conn[c].timers \ {t}]
  BY <1>5
<1>8. /\ \A d \in Connections : /\ d # c => conn'[d] = conn[d]
                                /\ conn'[d].fd = conn[d].fd
                                /\ conn'[d].data = conn[d].data
                                /\ conn'[d].handler = conn[d].handler
      /\ conn[c].fd # None
  <2>1. conn[c].fd # None
    BY <1>2 DEF SafeInv, PeerInv, Attentive, HoldsDatabase
  <2> QED  BY <1>7, <2>1, PoolTyped DEF ConnRecords
<1>9. /\ HoldsDatabase(r)' /\ Attentive(r)'
      /\ \A s \in Requests \ {r} :
            Holds(s) => conn'[peer[s].connection] = conn[peer[s].connection]
  <2>1. \A s \in Requests \ {r} : Holds(s) => peer[s].connection \in Connections \ {c}
    BY <1>2, Typed DEF SafeInv, ExclusiveUse, Holds
  <2>2. HoldsDatabase(r)' /\ Attentive(r)'
    BY <1>2, <1>5, <1>8 DEF Attentive, HoldsDatabase, Holds
  <2> QED  BY <1>8, <2>1, <2>2
<1>10. ControlType' /\ FreeHasNoTimer'
  BY <1>2, <1>5, <1>6, <1>8 DEF ControlInv, ControlType, Run, FT_ERROR, FT_TIMEOUT, FailTypes,
                                FreeHasNoTimer
<1>11. pc'.fn = "process_events" => Timed(r)'
  BY <1>2, <1>5 DEF Timed, Run
<1>12. Running(r)' /\ InFunction(r)' /\ pc'.r = r
  BY <1>2, <1>3, <1>4, <1>5, <1>6, <1>9, <1>11 DEF Running, InFunction, Run, Waiting
<1> QED  BY <1>2, <1>3, <1>5, <1>9, <1>10, <1>12, OwnStep DEF Loop, Attentive

(* Idle connections come and go without a request. *)
LEMMA ControlIdle ==
    ASSUME SafeInv, ControlInv,
           Exit \/ \E c \in Connections : CloseIdle(c) \/ IdleReadable(c) \/ IdleWritable(c)
    PROVE  /\ ControlInv'
           /\ \A s \in Requests : Holds(s) => conn'[peer[s].connection] = conn[peer[s].connection]
<1>1. pc = Loop /\ UNCHANGED <<pc, requestVars>> /\ UNCHANGED <<peer, phase>>
  BY DEF Exit, CloseIdle, IdleReadable, IdleWritable, AtLoop, keepaliveVars, CloseHandler, Cleanup
<1>2. \A d \in Connections :
         conn'[d] = conn[d] \/ (conn'[d] = FreeConn /\ \A s \in Requests : Holds(s) => d # peer[s].connection)
  <2>1. CASE UNCHANGED keepaliveVars
    BY <2>1 DEF keepaliveVars
  <2>2. ASSUME NEW c \in Connections, CloseHandler(c)
        PROVE  <1>2
    <3>1. conn' = [conn EXCEPT ![c] = FreeConn] /\ conn[c].handler = "keepalive" /\ EventLoop
      BY <2>2, PoolTyped DEF CloseHandler, FreeConnection
    <3>2. \A r \in Requests : ~(phase[r] = "again" /\ peer[r].connection = c)
      BY <3>1 DEF EventLoop
    <3>3. conn[c].data \in Cached /\ item[conn[c].data].connection = c
      BY <3>1, <3>2 DEF SafeInv, ConnInv
    <3>4. \A s \in Requests : Holds(s) => c # peer[s].connection
      BY <3>3 DEF SafeInv, ExclusiveUse
    <3> QED  BY <3>1, <3>4, PoolTyped
  <2>3. CASE Cleanup
    <3>1. \A i \in Cached : \A s \in Requests : Holds(s) => item[i].connection # peer[s].connection
      BY DEF SafeInv, ExclusiveUse
    <3> QED  BY <2>3, <3>1, PoolTyped DEF Cleanup
  <2> QED  BY <2>1, <2>2, <2>3 DEF Exit, CloseIdle, IdleReadable, IdleWritable
<1>3. \A s \in Requests : Holds(s) => conn'[peer[s].connection] = conn[peer[s].connection]
  BY <1>2, Typed DEF Holds, SafeInv
<1>4. FreeHasNoTimer'
  BY <1>2 DEF FreeHasNoTimer, ControlInv, FreeConn
<1>5. \A s \in Requests : Waiting(s)' /\ ~InFunction(s)'
  BY <1>1, <1>3 DEF ControlInv, InFunction, Loop, Waiting, Attentive, Timed, HoldsDatabase,
                    Holds, requestVars
<1>6. ControlType' /\ OneBetween'
  BY <1>1 DEF ControlInv, ControlType, OneBetween, AtRest, requestVars
<1> QED  BY <1>3, <1>4, <1>5, <1>6 DEF ControlInv

LEMMA ControlSame ==
    ASSUME ControlInv, UNCHANGED <<keepaliveVars, pc, requestVars>>
    PROVE  ControlInv'
<1>1. UNCHANGED <<pc, state, status, response, reply, conn, peer, phase, worker>>
  BY DEF keepaliveVars, requestVars
<1>2. \A r \in Requests : /\ InFunction(r)' <=> InFunction(r)
                          /\ Running(r) => Running(r)'
                          /\ Waiting(r) => Waiting(r)'
  BY <1>1 DEF InFunction, Running, Waiting, Attentive, Timed, HoldsDatabase, Holds
<1>3. ControlType' /\ OneBetween' /\ FreeHasNoTimer'
  BY <1>1 DEF ControlInv, ControlType, OneBetween, AtRest, FreeHasNoTimer
<1> QED  BY <1>2, <1>3 DEF ControlInv

LEMMA ControlStep ==
    ASSUME SafeInv, ControlInv, [WorkerNext]_workerVars
    PROVE  ControlInv'
<1>1. ASSUME NEW r \in Requests, HandleRequest(r) \/ Serve(r) \/ Abort(r)
      PROVE  ControlInv'
  <2>1. CASE HandleRequest(r)
    BY <2>1, ControlHandle
  <2>2. CASE Abort(r) \/ InitFails(r) \/ GetPeerErrs(r)
    <3>1. /\ Acked(r) \in BOOLEAN /\ FALSE \in BOOLEAN
          /\ ClientClosed \in Replies \ {0} /\ 500 \in Replies \ {0}
      BY DEF Acked, ClientClosed, Replies
    <3>2. \E ok \in BOOLEAN, code \in Replies \ {0} :
             pc = Loop /\ phase[r] # "again" /\ NginxFinalizes(r, ok, code)
      BY ZenonT(60), <2>2, <3>1 DEF Abort, InitFails, GetPeerErrs, AtLoop
    <3> QED  BY <3>2, ControlNginxFinalizes
  <2>3. CASE GetPeerCached(r) \/ GetPeerNew(r) \/ GetPeerNone(r)
    BY <2>3, ControlReuse, ControlNew
  <2>4. CASE Connected(r) \/ Declined(r) \/ CleanUpPart(r)
    BY <2>4, ControlConnected, ControlDeclined, ControlCleanUp
  <2>5. CASE Connect(r) \/ SendQuery(r) \/ GetResult(r) \/ GetAck(r)
    BY <2>5, ControlConnect, ControlSend, ControlResult, ControlAck
  <2>6. CASE UpstreamNext(r) \/ FinalizeRequest(r)
    BY <2>6, ControlUpstreamNext, ControlFinalize
  <2> QED  BY <1>1, <2>1, <2>2, <2>3, <2>4, <2>5, <2>6 DEF Serve
<1>2. CASE \E c \in Connections : OnConnection(c)
  BY <1>2, ControlEvent, ControlIdle DEF OnConnection
<1>3. CASE \E p \in PGconns : Network(p)
  <2>1. UNCHANGED <<keepaliveVars, pc, requestVars>>
    BY <1>3 DEF Network, Accept, Refuse, ServerSends, PartArrives, ServerNotes,
                ServerCloses, ResetArrives, Outside
  <2> QED  BY <2>1, ControlSame
<1>4. CASE Exit
  BY <1>4, ControlIdle
<1>5. CASE UNCHANGED workerVars
  BY <1>5, ControlSame DEF workerVars
<1> QED  BY <1>1, <1>2, <1>3, <1>4, <1>5 DEF WorkerNext

-----------------------------------------------------------------------------
(* The theorems *)

LEMMA ControlAlways ==
    ASSUME "ngx_add_event" \notin MayFail
    PROVE  WorkerSafety => [](SafeInv /\ ControlInv)
<1>1. WorkerInit => SafeInv /\ ControlInv
  BY SafeInit, ControlInit DEF WorkerInit
<1>2. SafeInv /\ ControlInv /\ [WorkerNext]_workerVars => (SafeInv /\ ControlInv)'
  BY UsesPool, SafeStep, ControlStep
<1> QED  BY <1>1, <1>2, PTL DEF WorkerSafety

(* What is proved about the pool holds of the worker: each of its steps,    *)
(* through the event handlers, the state functions and the ends of requests, *)
(* is a step of Keepalive or leaves the pool alone.                         *)
THEOREM UsesKeepaliveAlways ==
    ASSUME "ngx_add_event" \notin MayFail
    PROVE  WorkerSafety => UsesKeepalive
<1>1. WorkerInit => Init
  BY DEF WorkerInit
<1>2. SafeInv /\ ControlInv /\ [WorkerNext]_workerVars => [Next]_keepaliveVars
  BY UsesPool
<1> QED  BY <1>1, <1>2, ControlAlways, PTL DEF WorkerSafety, UsesKeepalive, Spec

(* Whatever the servers, the network and the timers do, and however requests *)
(* interleave, a request that waits in the event loop has the connection and *)
(* a timer that will call it back.                                          *)
THEOREM WaitsAreTimed ==
    ASSUME "ngx_add_event" \notin MayFail
    PROVE  WorkerSafety => []EveryWaitIsTimed
<1>1. ControlInv => EveryWaitIsTimed
  <2> SUFFICES ASSUME ControlInv, AtLoop, NEW r \in Requests, phase[r] = "active"
               PROVE  /\ conn[peer[r].connection].handler = "upstream"
                      /\ conn[peer[r].connection].data = r
                      /\ IF state[r] = "db_connect"
                         THEN "write" \in conn[peer[r].connection].timers
                         ELSE "read" \in conn[peer[r].connection].timers
    BY DEF EveryWaitIsTimed
  <2>1. Waiting(r)
    BY DEF ControlInv, InFunction, AtLoop, Loop
  <2> QED  BY <2>1 DEF Waiting, Attentive, Timed
<1> QED  BY <1>1, ControlAlways, PTL

(* Whichever of an answer, a failure, a timer, an abort and the clean-up     *)
(* comes first ends the request, and no other answers it again.             *)
THEOREM AnsweredOnce ==
    ASSUME "ngx_add_event" \notin MayFail
    PROVE  WorkerSafety => OneAnswer
<1> DEFINE Once == \A r \in Requests : reply[r] # 0 =>
              reply'[r] = reply[r] \/ (reply'[r] = 0 /\ phase[r] = "done")
<1>1. SafeInv /\ ControlInv /\ [WorkerNext]_workerVars => [Once]_workerVars
  <2> SUFFICES ASSUME SafeInv, ControlInv, WorkerNext  PROVE Once
    OBVIOUS
  <2>1. ASSUME NEW s \in Requests, HandleRequest(s) \/ Serve(s) \/ Abort(s)  PROVE Once
    <3>1. CASE HandleRequest(s)
      BY <3>1 DEF HandleRequest, InitPeer, ControlInv, ControlType
    <3>2. CASE InitFails(s) \/ GetPeerErrs(s) \/ Abort(s)
      <4>1. /\ phase[s] \in {"new", "error", "active"} /\ pc = Loop
            /\ \E x : reply' = [reply EXCEPT ![s] = x]
        BY ZenonT(60), <3>2 DEF InitFails, GetPeerErrs, Abort, NginxFinalizes, AtLoop
      <4>2. reply[s] = 0
        BY <4>1 DEF ControlInv, InFunction, Loop, Waiting
      <4> QED  BY <4>1, <4>2 DEF ControlInv, ControlType
    <3>3. CASE FinalizeRequest(s)
      <4>1. pc.fn = "finalize" /\ pc.r = s /\ \E x : reply' = [reply EXCEPT ![s] = x]
        BY <3>3 DEF FinalizeRequest
      <4>2. reply[s] = 0
        BY <4>1 DEF ControlInv, InFunction, Running
      <4> QED  BY <4>1, <4>2 DEF ControlInv, ControlType
    <3>4. ASSUME UNCHANGED reply  PROVE Once
      BY <3>4
    <3> QED  BY <2>1, <3>1, <3>2, <3>3, <3>4
             DEF Serve, GetPeerCached, GetPeerNew, GetPeerNone, Connected, Declined, CleanUpPart,
                 Connect, SendQuery, GetResult, GetAck, Processes, UpstreamNext, requestVars
  <2>2. ASSUME UNCHANGED reply  PROVE Once
    BY <2>2
  <2>3. ASSUME NEW c \in Connections, OnConnection(c)  PROVE UNCHANGED reply
    BY <2>3 DEF OnConnection, Deliver, TimerExpires, IdleReadable, IdleWritable, CloseIdle, requestVars
  <2>4. ASSUME NEW p \in PGconns, Network(p)  PROVE UNCHANGED reply
    BY <2>4 DEF Network, Accept, Refuse, ServerSends, PartArrives, ServerNotes,
                ServerCloses, ResetArrives, Outside, requestVars
  <2> QED  BY <2>1, <2>2, <2>3, <2>4 DEF WorkerNext, Exit, requestVars, workerVars
<1> QED  BY <1>1, ControlAlways, PTL DEF WorkerSafety, OneAnswer

=============================================================================
