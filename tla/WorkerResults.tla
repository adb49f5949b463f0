---------------------------- MODULE WorkerResults ----------------------------
(***************************************************************************)
(* Whose result a request is answered with, however many requests share    *)
(* how many connections, and whatever the servers, the network and the     *)
(* timers do.  The invariant says what may be on its way to a request in    *)
(* each state of ngx_postgres_processor.c: in libpq, in the socket and at   *)
(* the server.  Then, on top of it, that the worker is woken up while it    *)
(* connects: what epoll has yet to say of a connection that is being made.  *)
(***************************************************************************)
EXTENDS WorkerProofs

PgRecords == [status : {"closed", "started", "made", "awaiting", "ok", "bad"},
              async : {"idle", "busy", "ready"}, inbuf : Seq(Messages),
              net : {"none", "connecting", "up", "refused", "gone", "resetting"},
              in : Seq(Messages), todo : Seq(Messages)]

Notice == Message("notice", None)
Welcome == Message("welcome", None)

(* Nothing is to come but a notice that nobody asked for. *)
Quiet(x) == x.todo = <<>> /\ x.in \in {<<>>, <<Notice>>}
Clean(x) == x.status = "ok" /\ x.async = "idle" /\ x.inbuf = <<>> /\ Quiet(x)

(* A connection that is being made has had no query. *)
Dialling(x) ==
    /\ x.async = "idle" /\ x.inbuf = <<>>
    /\ \/ x.status \in {"started", "made"} /\ x.in = <<>> /\ x.todo = <<>>
       \/ /\ x.status = "awaiting"
          /\ \/ x.in = <<>> /\ x.todo \in {<<>>, <<Welcome>>}
             \/ x.in = <<Welcome>> /\ x.todo = <<>>

(* The answer to a query of r, or a part of it: "ready" is its end.         *)
AnswerPart(q, k, r) ==
    q[k].to = r /\ q[k].kind \in {"ok", "err", "ready"} /\ (q[k].kind = "ready" => k = Len(q))
Over(q) == q # <<>> /\ q[Len(q)].kind = "ready"
Answering(x, r) ==
    /\ x.status = "ok" /\ x.async = "busy"
    /\ \A k \in DOMAIN x.inbuf : AnswerPart(x.inbuf, k, r)
    /\ \A k \in DOMAIN x.in : (k = 1 /\ x.in[k] = Notice) \/ AnswerPart(x.in, k, r)
    /\ \A k \in DOMAIN x.todo : AnswerPart(x.todo, k, r)
    /\ Over(x.inbuf) => Quiet(x)
    /\ Over(x.in) => x.todo = <<>>

(* What the PGconn of a request holds in each of its states, and that of a  *)
(* cached item.                                                             *)
Says(x, st, r) ==
    /\ st = "db_connect" => Dialling(x)
    /\ st \in {"db_send_query", "db_idle"} => Clean(x)
    /\ st \in {"db_get_result", "db_get_ack"} => Answering(x, r)
Talking(r) ==
    /\ HoldsDatabase(r)
    /\ state[r] = "db_idle" \/ ~InFunction(r) \/ pc.fn = "process_events"

(* The response and the answer of a request. *)
Own(r) ==
    /\ response[r] \in {None, r}
    /\ state[r] \in {"db_get_ack", "db_idle"} => response[r] = r
    /\ pc.fn = "finalize" /\ pc.r = r /\ pc.arg = OK => state[r] = "db_idle"
    /\ reply[r] = OK => state[r] = "db_idle"

Speaks(r) == Talking(r) => Says(pg[peer[r].pgconn], state[r], r)
CachedClean == \A i \in Cached : Clean(pg[item[i].pgconn])

ResultInv ==
    /\ pg \in [PGconns -> PgRecords]
    /\ response \in [Requests -> Requests \cup {None}]
    /\ \A r \in Requests : Speaks(r) /\ Own(r)
    /\ CachedClean

-----------------------------------------------------------------------------
(* libpq *)

LEMMA MessageFacts ==
    /\ Notice \in Messages /\ Welcome \in Messages /\ Notice # Welcome
    /\ Notice.kind = "notice"
    /\ \A k \in {"ok", "err", "ready"}, r \in Requests : Message(k, r) \in Messages
BY DEF Notice, Welcome, Message, Messages

(* A step of PQconnectPoll, and a second one. *)
LEMMA PollSays ==
    ASSUME NEW x \in PgRecords, Dialling(x)
    PROVE  /\ PQconnectPoll(x) \in PgRecords
           /\ \/ Dialling(PQconnectPoll(x)) \/ Clean(PQconnectPoll(x))
              \/ PQconnectPoll(x).status = "bad"
<1> DEFINE y == PQconnectPoll(x)
<1>1. CASE x.status = "started"
  <2>1. y = [x EXCEPT !.status = "made"]
    BY <1>1 DEF PQconnectPoll
  <2> QED  BY <1>1, <2>1 DEF PgRecords, Dialling
<1>2. CASE x.status = "made"
  <2>1. y = [Sent(x, <<Message("welcome", None)>>) EXCEPT !.status = "awaiting"]
    BY <1>2 DEF PQconnectPoll
  <2>2. CASE x.net = "up"
    <3>1. y = [x EXCEPT !.todo = <<Welcome>>, !.status = "awaiting"]
      BY <2>1, <2>2 DEF Sent, Welcome, PgRecords
    <3>2. <<Welcome>> \in Seq(Messages)
      BY MessageFacts
    <3> QED  BY <1>2, <3>1, <3>2 DEF PgRecords, Dialling
  <2>3. CASE x.net # "up"
    <3>1. y = [x EXCEPT !.net = "resetting", !.status = "awaiting"]
      BY <2>1, <2>3 DEF Sent, PgRecords
    <3> QED  BY <1>2, <3>1 DEF PgRecords, Dialling
  <2> QED  BY <2>2, <2>3
<1>3. CASE x.status = "awaiting" /\ x.in # <<>>
  <2>1. y = [x EXCEPT !.status = "ok", !.in = Tail(x.in)]
    BY <1>3 DEF PQconnectPoll
  <2>2. x.in = <<Welcome>> /\ x.todo = <<>> /\ x.async = "idle" /\ x.inbuf = <<>>
    BY <1>3 DEF Dialling
  <2>3. Tail(x.in) = <<>> /\ <<>> \in Seq(Messages)
    BY <2>2, MessageFacts
  <2> QED  BY <2>1, <2>2, <2>3 DEF PgRecords, Clean, Quiet
<1>4. CASE x.status = "awaiting" /\ x.in = <<>> /\ Ended(x)
  <2>1. y = [x EXCEPT !.status = "bad"]
    BY <1>4 DEF PQconnectPoll
  <2> QED  BY <2>1 DEF PgRecords
<1>5. CASE x.status = "awaiting" /\ x.in = <<>> /\ ~Ended(x)
  <2>1. y = x
    BY <1>5 DEF PQconnectPoll
  <2> QED  BY <2>1
<1> QED  BY <1>1, <1>2, <1>3, <1>4, <1>5 DEF Dialling

LEMMA RepollSays ==
    ASSUME NEW x \in PgRecords, Dialling(x), NEW c
    PROVE  /\ Repoll(x, c) \in PgRecords
           /\ Repoll(x, c).status = "ok" => Clean(Repoll(x, c))
           /\ Repoll(x, c).status \notin {"ok", "bad"} => Dialling(Repoll(x, c))
<1>1. ASSUME NEW y \in PgRecords, Dialling(y) \/ Clean(y) \/ y.status = "bad"
      PROVE  /\ y.status = "ok" => Clean(y)
             /\ y.status \notin {"ok", "bad"} => Dialling(y)
  BY <1>1 DEF Dialling, Clean
<1> DEFINE y == PQconnectPoll(x)
<1>2. y \in PgRecords /\ (Dialling(y) \/ Clean(y) \/ y.status = "bad")
  BY PollSays
<1>3. CASE y.status = "made" /\ c \in wready
  <2>1. Repoll(x, c) = PQconnectPoll(y) /\ Dialling(y)
    BY <1>1, <1>2, <1>3 DEF Repoll
  <2> HIDE DEF y
  <2> QED  BY <1>1, <1>2, <2>1, PollSays
<1>4. CASE ~(y.status = "made" /\ c \in wready)
  <2>1. Repoll(x, c) = y
    BY <1>4 DEF Repoll
  <2> HIDE DEF y
  <2> QED  BY <1>1, <1>2, <2>1
<1> QED  BY <1>3, <1>4

(* A query on a clean connection. *)
Queried(x, r, s) == [Sent(x, [k \in DOMAIN s |-> Message(s[k], r)]) EXCEPT !.async = "busy"]

LEMMA QuerySays ==
    ASSUME NEW x \in PgRecords, Clean(x), NEW r \in Requests, NEW s \in Scripts
    PROVE  Queried(x, r, s) \in PgRecords /\ Answering(Queried(x, r, s), r)
<1> DEFINE ms == [k \in DOMAIN s |-> Message(s[k], r)]
           y == [Sent(x, ms) EXCEPT !.async = "busy"]
<1>1. /\ s \in Seq({"ok", "err", "ready"})
      /\ \A k \in DOMAIN s : s[k] = "ready" <=> k = Len(s)
  BY ScriptsAssumption
<1>2. ms \in Seq(Messages) /\ Len(ms) = Len(s) /\ DOMAIN ms = DOMAIN s
  <2>1. \A k \in 1..Len(s) : ms[k] \in Messages
    BY <1>1, MessageFacts
  <2>2. ms = [k \in 1..Len(s) |-> ms[k]] /\ Len(s) \in Nat
    BY <1>1
  <2> HIDE DEF ms
  <2> QED  BY <1>1, <2>1, <2>2
<1>3. \A k \in DOMAIN ms : AnswerPart(ms, k, r)
  <2>1. \A k \in DOMAIN ms : ms[k].to = r /\ ms[k].kind = s[k]
    BY DEF Message
  <2> HIDE DEF ms
  <2> QED  BY <1>1, <1>2, <2>1 DEF AnswerPart
<1> HIDE DEF ms
<1>4. /\ y.status = "ok" /\ y.async = "busy" /\ y.inbuf = <<>> /\ y.in \in {<<>>, <<Notice>>}
      /\ y.todo \in {<<>>, ms} /\ y \in PgRecords
  BY <1>2 DEF Clean, Quiet, Sent, PgRecords
<1>5. ~Over(y.inbuf) /\ ~Over(y.in)
  BY <1>4, MessageFacts DEF Over
<1> HIDE DEF y
<1>6. /\ \A k \in DOMAIN y.inbuf : FALSE
      /\ \A k \in DOMAIN y.in : k = 1 /\ y.in[k] = Notice
      /\ \A k \in DOMAIN y.todo : AnswerPart(y.todo, k, r)
  BY <1>3, <1>4
<1> QED  BY <1>4, <1>5, <1>6 DEF Answering, Queried, y, ms

(* PQconsumeInput takes over some of what has arrived; it does not change   *)
(* what is on its way altogether.                                           *)
LEMMA ConsumeSays ==
    ASSUME NEW x \in PgRecords, NEW r, Answering(x, r), NEW y \in Consumed(x)
    PROVE  y \in PgRecords /\ Answering(y, r)
<1>1. CASE x.in = <<>>
  BY <1>1 DEF Consumed
<1>2. CASE x.in # <<>>
  <2> DEFINE m == Len(x.in)
             l == Len(x.inbuf)
             first == IF Head(x.in).kind = "notice" THEN 2 ELSE 1
  <2>1. PICK n \in 1..m : y = Read(x, n)
    BY <1>2 DEF Consumed
  <2> DEFINE a == SubSeq(x.in, first, n)
             b == SubSeq(x.in, n + 1, m)
  <2>2. /\ x.in \in Seq(Messages) /\ x.inbuf \in Seq(Messages) /\ x.todo \in Seq(Messages)
        /\ m \in Nat /\ l \in Nat /\ n \in 1..m /\ Head(x.in) = x.in[1]
    BY <1>2, <2>1 DEF PgRecords
  <2>3. y = [x EXCEPT !.in = b, !.inbuf = x.inbuf \o a]
    BY <2>1 DEF Read
  <2>4. first \in 1..2 /\ \A k \in first..n : AnswerPart(x.in, k, r)
    <3>1. x.in[1] = Notice \/ AnswerPart(x.in, 1, r)
      BY <2>2 DEF Answering
    <3>2. first = 1 => AnswerPart(x.in, 1, r)
      BY <2>2, <3>1, MessageFacts
    <3>3. \A k \in 1..m : k # 1 => AnswerPart(x.in, k, r)
      BY <2>2 DEF Answering
    <3> QED  BY <2>2, <3>2, <3>3
  <2> HIDE DEF first
  <2>5. /\ a \in Seq(Messages) /\ Len(a) = (IF first <= n THEN n - first + 1 ELSE 0)
        /\ \A k \in 1..(n - first + 1) : a[k] = x.in[first + k - 1]
    <3>1. \A k \in first..n : x.in[k] \in Messages
      BY <2>2, <2>4
    <3> QED  BY <2>2, <2>4, <3>1, SubSeqProperties
  <2>6. /\ b \in Seq(Messages) /\ Len(b) = m - n
        /\ \A k \in 1..(m - n) : b[k] = x.in[n + k]
    <3>1. \A k \in (n + 1)..m : x.in[k] \in Messages
      BY <2>2
    <3>2. /\ b \in Seq(Messages) /\ Len(b) = (IF n + 1 <= m THEN m - (n + 1) + 1 ELSE 0)
          /\ \A k \in 1..(m - (n + 1) + 1) : b[k] = x.in[(n + 1) + k - 1]
      BY <2>2, <3>1, SubSeqProperties
    <3> QED  BY <2>2, <3>2
  <2> HIDE DEF a, b
  <2> DEFINE q == x.inbuf \o a
  <2>7. /\ q \in Seq(Messages) /\ Len(q) = l + Len(a)
        /\ \A k \in 1..(l + Len(a)) : q[k] = IF k <= l THEN x.inbuf[k] ELSE a[k - l]
    BY <2>2, <2>5, ConcatProperties
  <2> HIDE DEF q
  <2>8. y \in PgRecords /\ y.inbuf = q /\ y.in = b
        /\ y.todo = x.todo /\ y.status = x.status /\ y.async = x.async
    BY <2>3, <2>6, <2>7 DEF PgRecords, q
  <2>9. ASSUME NEW k \in 1..Len(b)  PROVE AnswerPart(b, k, r)
    <3>1. AnswerPart(x.in, n + k, r)
      <4>1. n + k \in 1..m /\ n + k # 1
        BY <2>2, <2>6
      <4> QED  BY <2>2, <4>1 DEF Answering
    <3> QED  BY <2>2, <2>6, <3>1 DEF AnswerPart
  <2>10. ASSUME Over(b)  PROVE Over(x.in)
    BY <2>2, <2>6, <2>10 DEF Over
  <2>11. ASSUME Over(x.inbuf)  PROVE q = x.inbuf /\ b = <<>> /\ x.todo = <<>>
    <3>1. x.todo = <<>> /\ x.in = <<Notice>>
      BY <1>2, <2>11 DEF Answering, Quiet
    <3>2. m = 1 /\ n = 1 /\ first = 2
      BY <2>2, <3>1, MessageFacts DEF first
    <3>3. a = <<>> /\ b = <<>>
      BY <2>5, <2>6, <3>2
    <3> QED  BY <2>2, <3>1, <3>3, ConcatEmptySeq DEF q
  <2>12. ASSUME ~Over(x.inbuf)
         PROVE  /\ \A k \in 1..Len(q) : AnswerPart(q, k, r)
                /\ Over(q) => b = <<>> /\ x.todo = <<>>
    <3>1. ASSUME NEW k \in 1..l  PROVE AnswerPart(x.inbuf, k, r) /\ x.inbuf[k].kind # "ready"
      <4>1. AnswerPart(x.inbuf, k, r)
        BY <2>2, <3>1 DEF Answering
      <4> QED  BY <2>2, <2>12, <4>1 DEF AnswerPart, Over
    <3>2. ASSUME NEW k \in 1..Len(a)
          PROVE  /\ AnswerPart(x.in, first + k - 1, r) /\ a[k] = x.in[first + k - 1]
                 /\ a[k].kind = "ready" => k = Len(a) /\ n = m
      <4> DEFINE j == first + k - 1
      <4>1. j \in first..n /\ k \in 1..(n - first + 1) /\ Len(a) = n - first + 1
        BY <2>2, <2>4, <2>5
      <4>2. AnswerPart(x.in, j, r) /\ a[k] = x.in[j]
        BY <2>4, <2>5, <4>1
      <4>3. a[k].kind = "ready" => j = m
        BY <4>2 DEF AnswerPart
      <4>4. j = m => k = Len(a) /\ n = m
        BY <2>2, <2>4, <4>1
      <4> QED  BY <4>2, <4>3, <4>4
    <3>3. ASSUME NEW k \in 1..Len(q)  PROVE AnswerPart(q, k, r)
      <4>0. l \in Nat /\ Len(a) \in Nat /\ k \in 1..(l + Len(a))
        BY <2>2, <2>5, <2>7
      <4>1. CASE k <= l
        <5>1. q[k] = x.inbuf[k] /\ k \in 1..l
          BY <2>7, <4>0, <4>1
        <5>2. AnswerPart(x.inbuf, k, r) /\ x.inbuf[k].kind # "ready"
          BY <3>1, <5>1
        <5> QED  BY <5>1, <5>2 DEF AnswerPart
      <4>2. CASE k > l
        <5>0. k - l \in 1..Len(a) /\ ~(k <= l)
          BY <4>0, <4>2
        <5>1. k - l \in 1..Len(a) /\ q[k] = a[k - l]
          BY ONLY <2>7, <4>0, <5>0
        <5>2. q[k].to = r /\ q[k].kind \in {"ok", "err", "ready"}
          BY <3>2, <5>1 DEF AnswerPart
        <5>3. q[k].kind = "ready" => k - l = Len(a)
          BY <3>2, <5>1
        <5>4. k - l = Len(a) => k = Len(q)
          BY <2>7, <4>0
        <5> QED  BY <5>2, <5>3, <5>4 DEF AnswerPart
      <4> QED  BY <4>0, <4>1, <4>2
    <3>4. ASSUME Over(q)  PROVE b = <<>> /\ x.todo = <<>>
      <4>1. Len(a) \in Nat /\ q # <<>> /\ Len(q) \in Nat /\ q[Len(q)].kind = "ready"
        BY <2>5, <2>7, <3>4 DEF Over
      <4>2. Len(a) # 0
        BY <2>2, <2>7, <3>1, <4>1
      <4>3. q[Len(q)] = a[Len(a)] /\ Len(a) \in 1..Len(a)
        BY <2>2, <2>7, <4>1, <4>2
      <4>4. n = m /\ x.in[m] = a[Len(a)]
        <5>1. a[Len(a)].kind = "ready"
          BY <4>1, <4>3
        <5>2. n = m /\ a[Len(a)] = x.in[first + Len(a) - 1]
          BY <3>2, <4>3, <5>1
        <5>3. first + Len(a) - 1 = n
          BY <2>2, <2>4, <2>5, <4>1, <4>3
        <5> QED  BY <5>2, <5>3
      <4>5. Over(x.in)
        BY <1>2, <4>1, <4>3, <4>4 DEF Over
      <4> QED  BY <2>2, <2>6, <4>4, <4>5 DEF Answering
    <3> QED  BY <3>3, <3>4
  <2>13. \A k \in DOMAIN q : AnswerPart(q, k, r)
    BY <2>2, <2>7, <2>11, <2>12 DEF Answering
  <2>14. Over(q) => b = <<>> /\ x.todo = <<>>
    BY <2>11, <2>12
  <2> QED  BY <2>6, <2>7, <2>8, <2>9, <2>10, <2>13, <2>14 DEF Answering, Quiet
<1> QED  BY <1>1, <1>2

(* PQisBusy and PQgetResult, while the answer to r is awaited. *)
LEMMA ParseSays ==
    ASSUME NEW x \in PgRecords, NEW r, Answering(x, r)
    PROVE  LET z == Parsed(x)
           IN  /\ z \in PgRecords /\ ResultTaken(z) \in PgRecords
               /\ z.async = "busy" => Answering(z, r)
               /\ z.async = "ready" =>
                     /\ PQgetResult(z).kind \in {"ok", "err"} /\ PQgetResult(z).to = r
                     /\ Answering(ResultTaken(z), r)
               /\ z.async = "idle" =>
                     /\ PQgetResult(z).kind = "null"
                     /\ ResultTaken(z) = z /\ Clean(z)
<1> DEFINE z == Parsed(x)
           t == Tail(x.inbuf)
<1>1. CASE x.inbuf = <<>>
  <2>1. z = x /\ ResultTaken(z) = z /\ x.async = "busy"
    BY <1>1 DEF Parsed, ResultTaken, Answering
  <2> QED  BY <2>1
<1>2. CASE x.inbuf # <<>>
  <2>1. /\ x.inbuf \in Seq(Messages) /\ t \in Seq(Messages) /\ Head(x.inbuf) = x.inbuf[1]
        /\ 1 \in DOMAIN x.inbuf /\ Len(t) = Len(x.inbuf) - 1 /\ Len(x.inbuf) \in Nat
        /\ \A k \in 1..Len(t) : t[k] = x.inbuf[k + 1]
    BY <1>2, HeadTailProperties DEF PgRecords
  <2> HIDE DEF t
  <2>2. AnswerPart(x.inbuf, 1, r) /\ x.async = "busy" /\ x.status = "ok"
    BY <2>1 DEF Answering
  <2>3. CASE x.inbuf[1].kind = "ready"
    <3>1. z = [x EXCEPT !.async = "idle", !.inbuf = t]
      BY <1>2, <2>1, <2>2, <2>3 DEF Parsed, t
    <3>2. t = <<>> /\ Quiet(x)
      BY <2>1, <2>2, <2>3, <1>2 DEF AnswerPart, Answering, Over
    <3>3. z \in PgRecords /\ Clean(z)
      BY <2>1, <2>2, <3>1, <3>2 DEF PgRecords, Clean, Quiet
    <3>4. z.async = "idle" /\ PQgetResult(z).kind = "null" /\ ResultTaken(z) = z
      BY <3>3 DEF PQgetResult, ResultTaken, Clean, Message
    <3> QED  BY <3>3, <3>4, ZenonT(30)
  <2>4. CASE x.inbuf[1].kind # "ready"
    <3>1. z = [x EXCEPT !.async = "ready"]
      BY <1>2, <2>1, <2>2, <2>4 DEF Parsed
    <3>2. z \in PgRecords /\ z.async = "ready" /\ z.inbuf = x.inbuf
      BY <3>1 DEF PgRecords
    <3>3. PQgetResult(z).kind \in {"ok", "err"} /\ PQgetResult(z).to = r
      BY <2>1, <2>2, <2>4, <3>2 DEF PQgetResult, AnswerPart
    <3>4. ResultTaken(z) = [x EXCEPT !.inbuf = t]
      BY <2>2, <3>1, <3>2 DEF ResultTaken, PgRecords, t
    <3>5. ResultTaken(z) \in PgRecords
      BY <2>1, <3>4 DEF PgRecords
    <3> DEFINE y == ResultTaken(z)
    <3>6. y.inbuf = t /\ y.in = x.in /\ y.todo = x.todo /\ y.status = "ok" /\ y.async = "busy"
      BY <2>2, <3>4 DEF PgRecords
    <3> HIDE DEF y
    <3>7. ASSUME NEW k \in 1..Len(t)  PROVE AnswerPart(t, k, r)
      <4>1. k + 1 \in DOMAIN x.inbuf /\ t[k] = x.inbuf[k + 1] /\ (k + 1 = Len(x.inbuf) => k = Len(t))
        BY <2>1
      <4>2. AnswerPart(x.inbuf, k + 1, r)
        BY <4>1 DEF Answering
      <4> QED  BY <4>1, <4>2 DEF AnswerPart
    <3>8. ASSUME Over(t)  PROVE Over(x.inbuf)
      <4>1. Len(t) \in 1..Len(t) /\ Len(t) + 1 = Len(x.inbuf)
        BY <2>1, <3>8 DEF Over
      <4> QED  BY <1>2, <2>1, <3>8, <4>1 DEF Over
    <3>9. Answering(y, r)
      BY <2>1, <3>6, <3>7, <3>8 DEF Answering, Quiet
    <3> HIDE DEF z
    <3>10. /\ z \in PgRecords /\ y \in PgRecords /\ z.async = "ready"
           /\ PQgetResult(z).kind \in {"ok", "err"} /\ PQgetResult(z).to = r
           /\ Answering(y, r)
      BY <3>2, <3>3, <3>5, <3>9 DEF y
    <3> QED  BY <3>10 DEF y, z
  <2> QED  BY <2>3, <2>4
<1> QED  BY <1>1, <1>2

(* What an idle connection reads is at most a notice. *)
LEMMA IdleSays ==
    ASSUME NEW x \in PgRecords, Clean(x), NEW y \in Consumed(x)
    PROVE  Parsed(y) = y /\ y \in PgRecords /\ Clean(y)
<1>1. CASE x.in = <<>>
  BY <1>1 DEF Consumed, Parsed, Clean
<1>2. CASE x.in # <<>>
  <2>1. x.in = <<Notice>> /\ x.inbuf = <<>>
    BY <1>2 DEF Clean, Quiet
  <2>2. y = Read(x, 1)
    BY <1>2, <2>1 DEF Consumed
  <2>3. Head(x.in).kind = "notice" /\ x.in \in Seq(Messages) /\ Len(x.in) = 1
    BY <2>1, MessageFacts
  <2>4. SubSeq(x.in, 2, 1) = <<>>
    BY <2>3, SubSeqEmpty
  <2>5. y = [x EXCEPT !.in = SubSeq(x.in, 2, 1), !.inbuf = x.inbuf \o SubSeq(x.in, 2, 1)]
    <3>1. 1 + 1 = 2
      OBVIOUS
    <3> QED  BY <2>2, <2>3, <3>1 DEF Read
  <2>6. <<>> \o <<>> = <<>> /\ <<>> \in Seq(Messages)
    BY ConcatEmptySeq
  <2>7. y \in PgRecords /\ Clean(y)
    BY <2>1, <2>4, <2>5, <2>6 DEF PgRecords, Clean, Quiet
  <2> QED  BY <2>7 DEF Parsed, Clean
<1> QED  BY <1>1, <1>2

-----------------------------------------------------------------------------
(* The servers and the network *)

Carries(x, y) ==
    /\ y \in PgRecords
    /\ Dialling(x) => Dialling(y)
    /\ Clean(x) => Clean(y)
    /\ \A r \in Requests : Answering(x, r) => Answering(y, r)

(* The next message of the server arrives. *)
LEMMA ArrivalCarries ==
    ASSUME NEW x \in PgRecords, x.todo # <<>>
    PROVE  Carries(x, [x EXCEPT !.in = Append(x.in, Head(x.todo)), !.todo = Tail(x.todo)])
<1> DEFINE q == Append(x.in, Head(x.todo))
           t == Tail(x.todo)
           y == [x EXCEPT !.in = q, !.todo = t]
           m == Len(x.in)
<1>1. /\ x.in \in Seq(Messages) /\ x.todo \in Seq(Messages) /\ m \in Nat
      /\ q \in Seq(Messages) /\ Len(q) = m + 1 /\ q[m + 1] = Head(x.todo)
      /\ \A k \in 1..m : q[k] = x.in[k]
      /\ Head(x.todo) = x.todo[1] /\ Head(x.todo) \in Messages
  BY DEF PgRecords
<1>2. /\ t \in Seq(Messages) /\ Len(t) = Len(x.todo) - 1 /\ Len(x.todo) \in Nat \ {0}
      /\ \A k \in 1..Len(t) : t[k] = x.todo[k + 1]
  BY <1>1, HeadTailProperties
<1>3. y \in PgRecords
  BY <1>1, <1>2 DEF PgRecords
<1>4. ASSUME Dialling(x)  PROVE Dialling(y)
  <2>1. x.status = "awaiting" /\ x.in = <<>> /\ x.todo = <<Welcome>>
    BY <1>4 DEF Dialling
  <2>2. q = <<Welcome>> /\ t = <<>>
    BY <1>1, <1>2, <2>1
  <2> HIDE DEF q, t
  <2> QED  BY <1>4, <2>1, <2>2 DEF Dialling, PgRecords
<1>5. ~Clean(x)
  BY DEF Clean, Quiet
<1>6. ASSUME NEW r \in Requests, Answering(x, r)  PROVE Answering(y, r)
  <2> HIDE DEF q, t
  <2>1. /\ y.inbuf = x.inbuf /\ y.in = q /\ y.todo = t /\ y.status = "ok" /\ y.async = "busy"
        /\ \A k \in DOMAIN x.inbuf : AnswerPart(x.inbuf, k, r)
    BY <1>6 DEF Answering, PgRecords
  <2>2. ~Over(x.inbuf) /\ ~Over(x.in)
    BY <1>6 DEF Answering, Quiet
  <2>3. AnswerPart(x.todo, 1, r)
    BY <1>1, <1>2, <1>6 DEF Answering
  <2>4. ASSUME NEW k \in 1..(m + 1)  PROVE (k = 1 /\ q[k] = Notice) \/ AnswerPart(q, k, r)
    <3>1. CASE k = m + 1
      BY <1>1, <2>3, <3>1 DEF AnswerPart
    <3>2. CASE k # m + 1
      <4>1. k \in 1..m /\ q[k] = x.in[k] /\ Len(q) # k
        BY <1>1, <3>2
      <4>2. (k = 1 /\ x.in[k] = Notice) \/ AnswerPart(x.in, k, r)
        BY <1>1, <1>6, <4>1 DEF Answering
      <4>3. AnswerPart(x.in, k, r) => x.in[k].kind # "ready"
        BY <1>1, <2>2, <4>1 DEF AnswerPart, Over
      <4> QED  BY <4>1, <4>2, <4>3 DEF AnswerPart
    <3> QED  BY <3>1, <3>2
  <2>5. ASSUME NEW k \in 1..Len(t)  PROVE AnswerPart(t, k, r)
    <3>1. k + 1 \in DOMAIN x.todo /\ t[k] = x.todo[k + 1] /\ (k + 1 = Len(x.todo) => k = Len(t))
      BY <1>1, <1>2
    <3>2. AnswerPart(x.todo, k + 1, r)
      BY <1>6, <3>1 DEF Answering
    <3> QED  BY <3>1, <3>2 DEF AnswerPart
  <2>6. ASSUME Over(q)  PROVE t = <<>>
    BY <1>1, <1>2, <2>3, <2>6 DEF Over, AnswerPart
  <2>7. \A k \in DOMAIN q : (k = 1 /\ q[k] = Notice) \/ AnswerPart(q, k, r)
    BY <1>1, <2>4
  <2>8. \A k \in DOMAIN t : AnswerPart(t, k, r)
    BY <1>2, <2>5
  <2> HIDE DEF y
  <2> QED  BY <2>1, <2>2, <2>6, <2>7, <2>8 DEF Answering
<1> QED  BY <1>3, <1>4, <1>5, <1>6 DEF Carries

LEMMA NetworkCarries ==
    ASSUME NEW p \in PGconns, pg \in [PGconns -> PgRecords], Network(p)
    PROVE  /\ UNCHANGED <<keepaliveVars, pc, requestVars>>
           /\ \A q \in PGconns : Carries(pg[q], pg'[q])
           /\ pg' \in [PGconns -> PgRecords]
<1> DEFINE x == pg[p]
<1>0. UNCHANGED <<keepaliveVars, pc, requestVars>>
  BY DEF Network, Outside, Accept, Refuse, ServerSends, PartArrives, ServerNotes,
         ServerCloses, ResetArrives
<1>1. x \in PgRecords /\ \A q \in PGconns : Carries(pg[q], pg[q])
  BY DEF Carries
<1>2. \A n \in {"up", "refused", "gone"} :
         [x EXCEPT !.net = n] \in PgRecords /\ Carries(x, [x EXCEPT !.net = n])
  BY ZenonT(60), <1>1 DEF Carries, PgRecords, Dialling, Clean, Quiet, Answering
<1>3. Carries(x, [x EXCEPT !.net = "gone", !.todo = <<>>])
  <2> DEFINE y == [x EXCEPT !.net = "gone", !.todo = <<>>]
  <2>1. /\ y \in PgRecords /\ y.in = x.in /\ y.inbuf = x.inbuf /\ y.todo = <<>>
        /\ y.status = x.status /\ y.async = x.async
    <3>1. <<>> \in Seq(Messages)
      OBVIOUS
    <3> HIDE DEF x
    <3> QED  BY <1>1, <3>1 DEF PgRecords
  <2> HIDE DEF y
  <2>2. \A r \in Requests : Answering(x, r) => Answering(y, r)
    BY <2>1 DEF Answering, Quiet
  <2>3. (Dialling(x) => Dialling(y)) /\ (Clean(x) => Clean(y))
    BY <2>1 DEF Dialling, Clean, Quiet
  <2> QED  BY <2>1, <2>2, <2>3 DEF Carries, y
<1>4. ASSUME x.status = "ok", x.todo = <<>>, x.in = <<>>
      PROVE  Carries(x, [x EXCEPT !.in = <<Notice>>])
  <2> DEFINE y == [x EXCEPT !.in = <<Notice>>]
  <2>1. /\ y \in PgRecords /\ y.in = <<Notice>> /\ y.inbuf = x.inbuf /\ y.todo = <<>>
        /\ y.status = "ok" /\ y.async = x.async
    <3>1. <<Notice>> \in Seq(Messages)
      BY MessageFacts
    <3> HIDE DEF x
    <3> QED  BY <1>1, <1>4, <3>1 DEF PgRecords
  <2> HIDE DEF y
  <2>2. ~Over(y.in)
    BY <2>1, MessageFacts DEF Over
  <2>3. \A r \in Requests : Answering(x, r) => Answering(y, r)
    BY <1>4, <2>1, <2>2 DEF Answering, Quiet
  <2>4. (Dialling(x) => Dialling(y)) /\ (Clean(x) => Clean(y))
    BY <1>4, <2>1 DEF Dialling, Clean, Quiet
  <2> QED  BY <2>1, <2>3, <2>4 DEF Carries, y
<1>5. PICK y : Carries(x, y) /\ pg' = [pg EXCEPT ![p] = y]
  <2>1. CASE Accept(p) \/ Refuse(p) \/ ResetArrives(p)
    <3>1. \E n \in {"up", "refused", "gone"} : pg' = [pg EXCEPT ![p].net = n]
      BY <2>1 DEF Accept, Refuse, ResetArrives
    <3>2. PICK n \in {"up", "refused", "gone"} : pg' = [pg EXCEPT ![p] = [x EXCEPT !.net = n]]
      BY <3>1
    <3> QED  BY <1>2, <3>2
  <2>2. CASE ServerSends(p)
    <3>1. /\ pg' = [pg EXCEPT ![p] = [x EXCEPT !.in = Append(x.in, Head(x.todo)), !.todo = Tail(x.todo)]]
          /\ x.todo # <<>>
      BY <1>1, <2>2 DEF ServerSends, PgRecords
    <3> QED  BY <1>1, <3>1, ArrivalCarries
  <2>3. CASE PartArrives(p)
    <3>1. pg' = [pg EXCEPT ![p] = x]
      BY <2>3 DEF PartArrives
    <3> QED  BY <1>1, <3>1
  <2>4. CASE ServerNotes(p)
    <3>1. /\ pg' = [pg EXCEPT ![p] = [x EXCEPT !.in = <<Notice>>]]
          /\ x.status = "ok" /\ x.todo = <<>> /\ x.in = <<>>
      BY <2>4 DEF ServerNotes, Notice
    <3> QED  BY <1>4, <3>1
  <2>5. CASE ServerCloses(p)
    <3>1. pg' = [pg EXCEPT ![p] = [x EXCEPT !.net = "gone", !.todo = <<>>]]
      BY <2>5 DEF ServerCloses
    <3> QED  BY <1>3, <3>1
  <2> QED  BY <2>1, <2>2, <2>3, <2>4, <2>5 DEF Network
<1> HIDE DEF x
<1>6. pg' \in [PGconns -> PgRecords]
  BY <1>5 DEF Carries
<1>7. \A q \in PGconns : Carries(pg[q], pg'[q])
  BY <1>1, <1>5 DEF x
<1> QED  BY <1>0, <1>6, <1>7

-----------------------------------------------------------------------------
(* What a step leaves to the requests it is not about. *)

(* No two users have the same PGconn. *)
LEMMA OwnPGconn ==
    ASSUME SafeInv, NEW r \in Requests, HoldsDatabase(r)
    PROVE  /\ peer[r].pgconn \in PGconns /\ dialled[peer[r].pgconn] # None
           /\ \A s \in Requests : s # r /\ HoldsDatabase(s) => peer[s].pgconn # peer[r].pgconn
           /\ \A i \in Cached : item[i].pgconn # peer[r].pgconn
<1>0. TypeInv /\ ExclusiveUse /\ PeerInv /\ ItemInv /\ ConnInv
  BY DEF SafeInv
<1>1. \A s \in Requests : HoldsDatabase(s) =>
         /\ peer[s].connection \in Connections /\ peer[s].pgconn \in PGconns
         /\ conn[peer[s].connection].fd = peer[s].pgconn
  BY <1>0, Typed DEF PeerInv, HoldsDatabase, Holds
<1>2. \A i \in Cached : /\ item[i].connection \in Connections /\ item[i].pgconn \in PGconns
                        /\ conn[item[i].connection].fd = item[i].pgconn
  BY <1>0 DEF ItemInv
<1>3. \A c, d \in Connections : conn[c].fd \in PGconns /\ conn[c].fd = conn[d].fd => c = d
  BY <1>0 DEF ConnInv
<1>4. dialled[peer[r].pgconn] # None
  BY <1>0, <1>1 DEF ConnInv
<1>5. ASSUME NEW s \in Requests, s # r, HoldsDatabase(s)
      PROVE  peer[s].pgconn # peer[r].pgconn
  <2>1. peer[s].connection # peer[r].connection
    BY <1>0, <1>5 DEF ExclusiveUse, HoldsDatabase
  <2> QED  BY <1>1, <1>3, <1>5, <2>1
<1>6. ASSUME NEW i \in Cached  PROVE item[i].pgconn # peer[r].pgconn
  <2>1. peer[r].connection # item[i].connection
    BY <1>0 DEF ExclusiveUse, HoldsDatabase
  <2> QED  BY <1>1, <1>2, <1>3, <2>1
<1> QED  BY <1>1, <1>4, <1>5, <1>6

AllOpen ==
    /\ \A r \in Requests : HoldsDatabase(r) =>
          peer[r].pgconn \in PGconns /\ dialled[peer[r].pgconn] # None
    /\ \A i \in Cached : item[i].pgconn \in PGconns /\ dialled[item[i].pgconn] # None

LEMMA CachedPGconn ==
    ASSUME SafeInv, NEW i \in Cached
    PROVE  item[i].pgconn \in PGconns /\ dialled[item[i].pgconn] # None
BY DEF SafeInv, ItemInv, ConnInv

(* A request whose own state, connection and PGconn stay. *)
LEMMA OtherSpeaks ==
    ASSUME ResultInv, NEW s \in Requests,
           peer'[s] = peer[s], state'[s] = state[s], reply'[s] = reply[s], response'[s] = response[s],
           Holds(s) => conn'[peer[s].connection] = conn[peer[s].connection],
           ~InFunction(s), ~InFunction(s)',
           HoldsDatabase(s) => pg'[peer[s].pgconn] = pg[peer[s].pgconn]
    PROVE  Speaks(s)' /\ Own(s)'
<1>1. HoldsDatabase(s)' <=> HoldsDatabase(s)
  BY DEF HoldsDatabase, Holds
<1>2. Speaks(s) /\ Own(s)
  BY DEF ResultInv
<1>3. Speaks(s)'
  BY <1>1, <1>2 DEF Speaks, Talking
<1>4. Own(s)'
  BY <1>2 DEF Own, InFunction
<1> QED  BY <1>3, <1>4

LEMMA OneSpeaks ==
    ASSUME ResultInv, NEW r \in Requests, OthersKept(r),
           pg' \in [PGconns -> PgRecords], response' \in [Requests -> Requests \cup {None}],
           \A s \in Requests \ {r} :
              /\ response'[s] = response[s]
              /\ HoldsDatabase(s) => pg'[peer[s].pgconn] = pg[peer[s].pgconn],
           CachedClean', Speaks(r)', Own(r)'
    PROVE  ResultInv'
<1>1. ASSUME NEW s \in Requests \ {r}  PROVE Speaks(s)' /\ Own(s)'
  <2>1. ~InFunction(s) /\ ~InFunction(s)'
    BY DEF OthersKept, InFunction
  <2> QED  BY <2>1, OtherSpeaks DEF OthersKept
<1> QED  BY <1>1 DEF ResultInv

(* A state function has the connection of its request to itself. *)
LEMMA ProcessSays ==
    ASSUME SafeInv, ControlInv, ResultInv, NEW r \in Requests, NEW ss, Processes(r, ss)
    PROVE  /\ peer[r].pgconn \in PGconns /\ pg[peer[r].pgconn] \in PgRecords
           /\ Says(pg[peer[r].pgconn], state[r], r)
<1>1. pc.r = r /\ pc.fn = "process_events" /\ HoldsDatabase(r)
  BY Processing
<1> QED  BY <1>1, OwnPGconn DEF ResultInv, Speaks, Talking

LEMMA ProcessSpeaks ==
    ASSUME SafeInv, ControlInv, ResultInv, NEW r \in Requests, NEW ss, Processes(r, ss),
           OthersKept(r), NEW x \in PgRecords, pg' = [pg EXCEPT ![peer[r].pgconn] = x],
           response' = response \/ response' = [response EXCEPT ![r] = r],
           \/ pc'.fn \in {"next", "finalize"} /\ pc'.r = r /\ state'[r] # "db_idle"
           \/ Says(x, state'[r], r),
           Own(r)'
    PROVE  ResultInv'
<1> DEFINE p == peer[r].pgconn
<1>1. /\ HoldsDatabase(r) /\ UNCHANGED <<cache, item, peer>>
  BY Processing DEF Processes, poolVars
<1>2. /\ p \in PGconns
      /\ \A s \in Requests \ {r} : HoldsDatabase(s) => peer[s].pgconn # p /\ peer[s].pgconn \in PGconns
      /\ \A i \in Cached : item[i].pgconn # p /\ item[i].pgconn \in PGconns
  BY <1>1, OwnPGconn, CachedPGconn
<1>3. pg' \in [PGconns -> PgRecords] /\ pg'[p] = x /\ \A q \in PGconns \ {p} : pg'[q] = pg[q]
  BY <1>2 DEF ResultInv
<1>4. /\ response' \in [Requests -> Requests \cup {None}]
      /\ \A s \in Requests \ {r} : response'[s] = response[s]
  BY DEF ResultInv
<1>5. Speaks(r)'
  BY <1>1, <1>3 DEF Speaks, Talking, InFunction
<1>6. CachedClean'
  BY <1>1, <1>2, <1>3 DEF ResultInv, CachedClean, Cached
<1>7. \A s \in Requests \ {r} : HoldsDatabase(s) => pg'[peer[s].pgconn] = pg[peer[s].pgconn]
  BY <1>2, <1>3
<1> QED  BY <1>3, <1>4, <1>5, <1>6, <1>7, OneSpeaks

LEMMA PGconnsOpen == SafeInv => AllOpen
BY OwnPGconn, CachedPGconn DEF AllOpen

(* PQfinish takes only the connections that nobody has any more. *)
LEMMA ReleasedKeeps ==
    ASSUME SafeInv', ResultInv, Released
    PROVE  /\ pg' \in [PGconns -> PgRecords]
           /\ \A s \in Requests : HoldsDatabase(s)' => pg'[peer'[s].pgconn] = pg[peer'[s].pgconn]
           /\ \A i \in Cached' : pg'[item'[i].pgconn] = pg[item'[i].pgconn]
<1>1. pg' = [p \in PGconns |-> IF dialled'[p] = None THEN NoPG ELSE pg[p]]
  BY DEF Released
<1>2. NoPG \in PgRecords
  BY DEF NoPG, PgRecords
<1>3. AllOpen'
  BY PGconnsOpen, PTL
<1> QED  BY <1>1, <1>2, <1>3 DEF ResultInv, AllOpen

-----------------------------------------------------------------------------
(* The state functions *)

LEMMA OwnNow ==
    ASSUME NEW r \in Requests, reply'[r] = 0, response'[r] \in {None, r},
           state'[r] \in {"db_get_ack", "db_idle"} => response'[r] = r,
           \/ pc'.fn # "finalize" \/ pc'.arg # OK \/ state'[r] = "db_idle"
    PROVE  Own(r)'
BY DEF Own, OK

LEMMA ResultConnect ==
    ASSUME SafeInv, ControlInv, ResultInv, NEW r \in Requests, Connect(r)
    PROVE  ResultInv'
<1> DEFINE p == peer[r].pgconn
           x == Repoll(pg[p], peer[r].connection)
<1>1. /\ Processes(r, {"db_connect"}) /\ pg' = [pg EXCEPT ![p] = x]
      /\ \/ x.status \notin {"ok", "bad"} /\ pc' = Loop /\ UNCHANGED state
         \/ x.status = "bad" /\ pc' = Run("next", r, FT_ERROR) /\ UNCHANGED state
         \/ x.status = "ok" /\ state' = [state EXCEPT ![r] = "db_send_query"] /\ UNCHANGED pc
      /\ UNCHANGED <<status, response>>
  BY DEF Connect, Returns, Fails, Runs
<1>2. /\ pc.r = r /\ pc.fn = "process_events" /\ state[r] = "db_connect" /\ reply[r] = 0
      /\ UNCHANGED reply /\ state \in [Requests -> States]
  BY <1>1, Processing DEF Running, ControlInv, ControlType
<1>3. OthersKept(r)
  BY ControlConnect
<1>4. pg[p] \in PgRecords /\ Dialling(pg[p])
  BY <1>1, <1>2, ProcessSays DEF Says
<1>5. /\ x \in PgRecords
      /\ x.status = "ok" => Clean(x)
      /\ x.status \notin {"ok", "bad"} => Dialling(x)
  BY <1>4, RepollSays
<1> HIDE DEF x
<1>6. \/ pc'.fn = "next" /\ pc'.r = r /\ state'[r] = "db_connect"
      \/ pc'.fn # "finalize" /\ state'[r] = "db_connect" /\ Says(x, state'[r], r)
      \/ pc'.fn # "finalize" /\ state'[r] = "db_send_query" /\ Says(x, state'[r], r)
  BY <1>1, <1>2, <1>5 DEF Loop, Run, Says
<1>7. Own(r)'
  <2>1. response'[r] \in {None, r}
    BY <1>1 DEF ResultInv, Own
  <2> QED  BY <1>2, <1>6, <2>1, OwnNow
<1> QED  BY <1>1, <1>3, <1>5, <1>6, <1>7, ProcessSpeaks

LEMMA ResultSend ==
    ASSUME SafeInv, ControlInv, ResultInv, NEW r \in Requests, SendQuery(r)
    PROVE  ResultInv'
<1> DEFINE p == peer[r].pgconn
<1>1. Processes(r, {"db_send_query", "db_idle"}) /\ UNCHANGED <<status, response>>
  BY DEF SendQuery
<1>2. \/ /\ \E s \in Scripts : pg' = [pg EXCEPT ![p] = Queried(pg[p], r, s)]
         /\ state' = [state EXCEPT ![r] = "db_get_result"] /\ pc' = Loop
      \/ UNCHANGED <<pg, state>> /\ pc' = Run("next", r, FT_ERROR)
  BY DEF SendQuery, Returns, Fails, Runs, Queried
<1>3. /\ pc.r = r /\ pc.fn = "process_events" /\ reply[r] = 0
      /\ state[r] = "db_send_query"
      /\ UNCHANGED reply /\ state \in [Requests -> States]
  BY <1>1, Processing DEF Running, ControlInv, ControlType
<1>4. OthersKept(r)
  BY ControlSend
<1>5. /\ p \in PGconns /\ pg[p] \in PgRecords /\ Clean(pg[p]) /\ pg \in [PGconns -> PgRecords]
  BY <1>1, <1>3, ProcessSays DEF Says, ResultInv
<1> DEFINE Outcome(x) ==
         /\ pg' = [pg EXCEPT ![p] = x]
         /\ \/ Answering(x, r) /\ state'[r] = "db_get_result" /\ pc' = Loop
            \/ state'[r] = "db_send_query" /\ pc' = Run("next", r, FT_ERROR)
<1>6. PICK x \in PgRecords : Outcome(x)
  <2>1. ASSUME NEW s \in Scripts, pg' = [pg EXCEPT ![p] = Queried(pg[p], r, s)],
               state' = [state EXCEPT ![r] = "db_get_result"], pc' = Loop
        PROVE  \E x \in PgRecords : Outcome(x)
    <3>1. Queried(pg[p], r, s) \in PgRecords /\ Answering(Queried(pg[p], r, s), r)
      BY <1>5, QuerySays
    <3>2. state'[r] = "db_get_result"
      BY <1>3, <2>1
    <3> QED  BY <2>1, <3>1, <3>2
  <2>2. CASE UNCHANGED <<pg, state>> /\ pc' = Run("next", r, FT_ERROR)
    <3>1. pg' = [pg EXCEPT ![p] = pg[p]]
      BY <1>5, <2>2
    <3> QED  BY <1>3, <1>5, <2>2, <3>1
  <2> QED  BY <1>2, <2>1, <2>2
<1>7. \/ pc'.fn = "next" /\ pc'.r = r /\ state'[r] = "db_send_query"
      \/ pc'.fn = "loop" /\ state'[r] = "db_get_result" /\ Says(x, state'[r], r)
  BY <1>6 DEF Loop, Run, Says
<1>8. Own(r)'
  <2>1. response'[r] \in {None, r}
    BY <1>1 DEF ResultInv, Own
  <2> QED  BY <1>3, <1>7, <2>1, OwnNow
<1> QED  BY <1>1, <1>4, <1>6, <1>7, <1>8, ProcessSpeaks

(* What the two functions that read have in hand. *)
LEMMA ReadSays ==
    ASSUME NEW w \in PgRecords, NEW r, Answering(w, r),
           NEW x \in {Parsed(y) : y \in Consumed(w)}
    PROVE  /\ x \in PgRecords /\ ResultTaken(x) \in PgRecords
           /\ \/ x.async = "busy" /\ Answering(x, r)
              \/ /\ x.async # "busy" /\ PQgetResult(x).kind \in {"ok", "err"}
                 /\ PQgetResult(x).to = r /\ Answering(ResultTaken(x), r)
              \/ x.async # "busy" /\ PQgetResult(x).kind = "null" /\ Clean(ResultTaken(x))
<1>1. PICK y \in Consumed(w) : x = Parsed(y)
  OBVIOUS
<1>2. y \in PgRecords /\ Answering(y, r)
  BY ConsumeSays
<1>3. x \in PgRecords => x.async \in {"idle", "busy", "ready"}
  BY DEF PgRecords
<1>4. /\ x \in PgRecords /\ ResultTaken(x) \in PgRecords
      /\ x.async = "busy" => Answering(x, r)
      /\ x.async = "ready" =>
            /\ PQgetResult(x).kind \in {"ok", "err"} /\ PQgetResult(x).to = r
            /\ Answering(ResultTaken(x), r)
      /\ x.async = "idle" =>
            /\ PQgetResult(x).kind = "null"
            /\ ResultTaken(x) = x /\ Clean(x)
  BY <1>1, <1>2, ParseSays
<1> QED  BY <1>3, <1>4

LEMMA ResultResult ==
    ASSUME SafeInv, ControlInv, ResultInv, NEW r \in Requests, GetResult(r)
    PROVE  ResultInv'
<1> DEFINE p == peer[r].pgconn
<1>1. Processes(r, {"db_get_result"})
  BY DEF GetResult
<1>2. /\ pc.r = r /\ pc.fn = "process_events" /\ reply[r] = 0
      /\ state[r] = "db_get_result"
      /\ UNCHANGED reply /\ state \in [Requests -> States]
  BY <1>1, Processing DEF Running, ControlInv, ControlType
<1>3. OthersKept(r)
  BY ControlResult
<1>4. /\ p \in PGconns /\ pg[p] \in PgRecords /\ Answering(pg[p], r) /\ pg \in [PGconns -> PgRecords]
      /\ response[r] \in {None, r} /\ response \in [Requests -> Requests \cup {None}]
  BY <1>1, <1>2, ProcessSays DEF Says, ResultInv, Own
<1> DEFINE Outcome(x) ==
         /\ pg' = [pg EXCEPT ![p] = x]
         /\ \/ /\ pc' \in {Run("next", r, FT_ERROR), Run("finalize", r, 500)}
               /\ UNCHANGED <<state, response>>
            \/ pc' = Loop /\ UNCHANGED <<state, response>> /\ Answering(x, r)
            \/ /\ UNCHANGED pc /\ response' = [response EXCEPT ![r] = r]
               /\ state' = [state EXCEPT ![r] = "db_get_ack"] /\ Answering(x, r)
<1>5. PICK x \in PgRecords : Outcome(x)
  <2>1. CASE pc' = Run("next", r, FT_ERROR) /\ UNCHANGED <<pg, state, response>>
    <3>1. pg' = [pg EXCEPT ![p] = pg[p]]
      BY <1>4, <2>1
    <3> QED  BY <1>4, <2>1, <3>1
  <2>2. ASSUME NEW x \in {Parsed(y) : y \in Consumed(pg[p])},
               IF x.async = "busy"
               THEN pg' = [pg EXCEPT ![p] = x] /\ pc' = Loop /\ UNCHANGED <<state, response>>
               ELSE /\ pg' = [pg EXCEPT ![p] = ResultTaken(x)]
                    /\ \/ PQgetResult(x).kind = "ok" /\ ProcessResponse(r, PQgetResult(x).to)
                       \/ /\ PQgetResult(x).kind # "ok"
                          /\ pc' \in {Run("next", r, FT_ERROR), Run("finalize", r, 500)}
                          /\ UNCHANGED <<state, response>>
        PROVE  \E z \in PgRecords : Outcome(z)
    <3>1. /\ x \in PgRecords /\ ResultTaken(x) \in PgRecords
          /\ \/ x.async = "busy" /\ Answering(x, r)
             \/ /\ x.async # "busy" /\ PQgetResult(x).kind \in {"ok", "err"}
                /\ PQgetResult(x).to = r /\ Answering(ResultTaken(x), r)
             \/ x.async # "busy" /\ PQgetResult(x).kind = "null" /\ Clean(ResultTaken(x))
      BY <1>4, ReadSays
    <3>2. CASE x.async = "busy"
      BY <2>2, <3>1, <3>2
    <3>3. CASE x.async # "busy" /\ PQgetResult(x).kind # "ok"
      BY <2>2, <3>1, <3>3
    <3>4. CASE x.async # "busy" /\ PQgetResult(x).kind = "ok"
      <4>1. /\ PQgetResult(x).to = r /\ Answering(ResultTaken(x), r)
            /\ ProcessResponse(r, r) /\ pg' = [pg EXCEPT ![p] = ResultTaken(x)]
        BY <2>2, <3>1, <3>4
      <4>2. \/ pc' = Run("next", r, FT_ERROR) /\ UNCHANGED <<state, response>>
            \/ /\ UNCHANGED pc /\ response' = [response EXCEPT ![r] = r]
               /\ state' = [state EXCEPT ![r] = "db_get_ack"]
        BY <4>1 DEF ProcessResponse, Fails, Runs
      <4> QED  BY <3>1, <4>1, <4>2
    <3> QED  BY <3>2, <3>3, <3>4
  <2>3. \/ pc' = Run("next", r, FT_ERROR) /\ UNCHANGED <<pg, state, response>>
        \/ \E x \in {Parsed(y) : y \in Consumed(pg[p])} :
               IF x.async = "busy"
               THEN pg' = [pg EXCEPT ![p] = x] /\ pc' = Loop /\ UNCHANGED <<state, response>>
               ELSE /\ pg' = [pg EXCEPT ![p] = ResultTaken(x)]
                    /\ \/ PQgetResult(x).kind = "ok" /\ ProcessResponse(r, PQgetResult(x).to)
                       \/ /\ PQgetResult(x).kind # "ok"
                          /\ pc' \in {Run("next", r, FT_ERROR), Run("finalize", r, 500)}
                          /\ UNCHANGED <<state, response>>
    BY ZenonT(60) DEF GetResult, Returns, Fails, Runs
  <2> QED  BY <2>1, <2>2, <2>3
<1>6. \/ /\ pc'.fn \in {"next", "finalize"} /\ pc'.r = r /\ pc'.arg # OK /\ state'[r] = "db_get_result"
         /\ response' = response
      \/ /\ pc'.fn = "loop" /\ state'[r] = "db_get_result" /\ Says(x, state'[r], r)
         /\ response' = response
      \/ /\ pc'.fn = "process_events" /\ state'[r] = "db_get_ack" /\ Says(x, state'[r], r)
         /\ response' = [response EXCEPT ![r] = r]
  BY <1>2, <1>5 DEF Loop, Run, Says, OK, FT_ERROR
<1>7. Own(r)'
  <2>1. response'[r] \in {None, r} /\ (state'[r] = "db_get_ack" => response'[r] = r)
    BY <1>4, <1>6
  <2> QED  BY <1>2, <1>6, <2>1, OwnNow
<1> QED  BY <1>1, <1>3, <1>5, <1>6, <1>7, ProcessSpeaks

LEMMA ResultAck ==
    ASSUME SafeInv, ControlInv, ResultInv, NEW r \in Requests, GetAck(r)
    PROVE  ResultInv'
<1> DEFINE p == peer[r].pgconn
           code == IF status[r] >= SpecialResponse THEN status[r] ELSE OK
           Outcome(x) ==
              /\ pg' = [pg EXCEPT ![p] = x]
              /\ \/ /\ pc' \in {Run("next", r, FT_ERROR), Run("finalize", r, 500)}
                    /\ UNCHANGED state
                 \/ pc' = Loop /\ UNCHANGED state /\ Answering(x, r)
                 \/ /\ pc' = Run("finalize", r, code) /\ Clean(x)
                    /\ state' = [state EXCEPT ![r] = "db_idle"]
<1>1. Processes(r, {"db_get_ack"}) /\ UNCHANGED <<status, response>>
  BY DEF GetAck
<1>2. /\ pc.r = r /\ pc.fn = "process_events" /\ reply[r] = 0
      /\ state[r] = "db_get_ack"
      /\ UNCHANGED reply /\ state \in [Requests -> States]
  BY <1>1, Processing DEF Running, ControlInv, ControlType
<1>3. OthersKept(r)
  BY ControlAck
<1>4. /\ p \in PGconns /\ pg[p] \in PgRecords /\ Answering(pg[p], r) /\ pg \in [PGconns -> PgRecords]
      /\ response[r] = r
  BY <1>1, <1>2, ProcessSays DEF Says, ResultInv, Own
<1>5. PICK x \in PgRecords : Outcome(x)
  <2>1. CASE pc' = Run("next", r, FT_ERROR) /\ UNCHANGED <<pg, state>>
    <3>1. pg' = [pg EXCEPT ![p] = pg[p]]
      BY <1>4, <2>1
    <3> QED  BY <1>4, <2>1, <3>1
  <2>2. ASSUME NEW x \in {Parsed(y) : y \in Consumed(pg[p])},
               IF x.async = "busy"
               THEN pg' = [pg EXCEPT ![p] = x] /\ pc' = Loop /\ UNCHANGED state
               ELSE /\ pg' = [pg EXCEPT ![p] = ResultTaken(x)]
                    /\ IF PQgetResult(x).kind # "null"
                       THEN pc' = Run("finalize", r, 500) /\ UNCHANGED state
                       ELSE pc' = Run("finalize", r, code) /\ state' = [state EXCEPT ![r] = "db_idle"]
        PROVE  \E z \in PgRecords : Outcome(z)
    <3> HIDE DEF code
    <3>1. /\ x \in PgRecords /\ ResultTaken(x) \in PgRecords
          /\ \/ x.async = "busy" /\ Answering(x, r)
             \/ x.async # "busy" /\ PQgetResult(x).kind \in {"ok", "err"}
             \/ x.async # "busy" /\ PQgetResult(x).kind = "null" /\ Clean(ResultTaken(x))
      BY <1>4, ReadSays
    <3>2. CASE x.async = "busy"
      BY <2>2, <3>1, <3>2
    <3>3. CASE x.async # "busy" /\ PQgetResult(x).kind # "null"
      BY <2>2, <3>1, <3>3
    <3>4. CASE x.async # "busy" /\ PQgetResult(x).kind = "null"
      BY <2>2, <3>1, <3>4
    <3> QED  BY <3>2, <3>3, <3>4
  <2>3. \/ pc' = Run("next", r, FT_ERROR) /\ UNCHANGED <<pg, state>>
        \/ \E x \in {Parsed(y) : y \in Consumed(pg[p])} :
               IF x.async = "busy"
               THEN pg' = [pg EXCEPT ![p] = x] /\ pc' = Loop /\ UNCHANGED state
               ELSE /\ pg' = [pg EXCEPT ![p] = ResultTaken(x)]
                    /\ IF PQgetResult(x).kind # "null"
                       THEN pc' = Run("finalize", r, 500) /\ UNCHANGED state
                       ELSE pc' = Run("finalize", r, code) /\ state' = [state EXCEPT ![r] = "db_idle"]
    BY ZenonT(60) DEF GetAck, Returns, Fails, Runs
  <2> QED  BY <2>1, <2>2, <2>3
<1>6. \/ pc'.fn \in {"next", "finalize"} /\ pc'.r = r /\ pc'.arg # OK /\ state'[r] = "db_get_ack"
      \/ pc'.fn = "loop" /\ state'[r] = "db_get_ack" /\ Says(x, state'[r], r)
      \/ state'[r] = "db_idle" /\ Says(x, state'[r], r)
  <2> HIDE DEF code
  <2> QED  BY <1>2, <1>5 DEF Loop, Run, Says, OK, FT_ERROR
<1>7. Own(r)'
  <2>1. response'[r] = r /\ reply'[r] = 0
    BY <1>1, <1>2, <1>4
  <2> QED  BY <1>6, <2>1, OwnNow
<1> QED  BY <1>1, <1>3, <1>5, <1>6, <1>7, ProcessSpeaks

-----------------------------------------------------------------------------
(* A request and the pool *)

(* The connection a request gives back is kept only if the server has       *)
(* acknowledged the query, and then it is clean.                            *)
LEMMA KeptIsClean ==
    ASSUME SafeInv, ResultInv, NEW r \in Requests, NEW failed \in BOOLEAN, NEW ok \in BOOLEAN,
           FreePeer(r, failed, ok), ok => state[r] = "db_idle" /\ phase[r] = "active"
    PROVE  \A i \in Cached' : Clean(pg[item'[i].pgconn])
<1> DEFINE p == peer[r].pgconn
<1>0. TypeInv /\ CachedClean
  BY DEF SafeInv, ResultInv
<1>1. CASE SavePeer(r, failed, ok)
  <2> DEFINE evict == free = <<>>
             i == IF evict THEN cache[Len(cache)] ELSE free[1]
  <2>1. /\ ok /\ Holds(r) /\ max_cached > 0 /\ worker = "running" /\ worker' = worker
        /\ cache' = InsertHead(IF evict THEN RemoveIndex(cache, Len(cache)) ELSE cache, i)
        /\ free' = IF evict THEN free ELSE Tail(free)
        /\ item' = [item EXCEPT ![i] = [connection |-> peer[r].connection, pgconn |-> p,
                                        sockaddr |-> peer[r].sockaddr]]
    BY <1>1 DEF SavePeer, FreePeer, Holds
  <2>2. HoldsDatabase(r)
    BY <2>1 DEF SafeInv, PeerInv, HoldsDatabase, HoldsPlaceholder
  <2>3. Clean(pg[p])
    BY <2>1, <2>2 DEF ResultInv, Speaks, Talking, Says
  <2>4. QueueInv /\ item \in [Items -> ItemRecords] /\ MaxCached > 0
    BY <1>0, <2>1, PoolAssumption DEF QueueInv, TypeInv, KeepaliveTypeOK
  <2>5. i \in Items /\ Cached' \subseteq Cached \cup {i} /\ Cached \subseteq Items
    <3>1. CASE evict
      <4>1. cache # <<>>
        BY <2>1, <2>4, <3>1, NoneFree
      <4>2. Cached' = Cached /\ i \in Cached
        BY <2>1, <2>4, <3>1, <4>1, RotateItem
      <4> QED  BY <1>0, <4>2, Typed
    <3>2. CASE ~evict
      <4>1. Cached' = Cached \cup {free[1]} /\ free[1] \in Items
        BY <2>1, <2>4, <3>2, PutItem
      <4> QED  BY <1>0, <3>2, <4>1, Typed
    <3> QED  BY <3>1, <3>2
  <2> HIDE DEF i
  <2>6. item'[i].pgconn = p /\ \A j \in Items \ {i} : item'[j] = item[j]
    BY <2>1, <2>4, <2>5
  <2> QED  BY <1>0, <2>3, <2>5, <2>6 DEF CachedClean
<1>2. CASE ClosePeer(r, failed, ok)
  <2>1. UNCHANGED <<cache, item>>
    BY <1>2 DEF ClosePeer
  <2> QED  BY <1>0, <2>1 DEF CachedClean, Cached
<1> QED  BY <1>1, <1>2 DEF FreePeer

(* The end of what a request has to do with its connection. *)
LEMMA ReleaseSpeaks ==
    ASSUME SafeInv, SafeInv', ControlInv, ResultInv, NEW r \in Requests, OthersKept(r),
           NEW failed \in BOOLEAN, NEW ok \in BOOLEAN,
           FreePeer(r, failed, ok), ok => state[r] = "db_idle" /\ phase[r] = "active",
           Released, UNCHANGED <<state, response>>, Own(r)'
    PROVE  ResultInv'
<1>1. peer'[r].connection = None
  BY Freed DEF ControlInv
<1>2. Speaks(r)'
  BY <1>1 DEF Speaks, Talking, HoldsDatabase, Holds
<1>3. /\ pg' \in [PGconns -> PgRecords]
      /\ \A s \in Requests : HoldsDatabase(s)' => pg'[peer'[s].pgconn] = pg[peer'[s].pgconn]
      /\ \A i \in Cached' : pg'[item'[i].pgconn] = pg[item'[i].pgconn]
  BY ReleasedKeeps
<1>4. CachedClean'
  BY <1>3, KeptIsClean DEF CachedClean
<1>5. \A s \in Requests \ {r} : HoldsDatabase(s) => pg'[peer[s].pgconn] = pg[peer[s].pgconn]
  BY <1>3 DEF OthersKept, HoldsDatabase, Holds
<1>6. response' \in [Requests -> Requests \cup {None}]
  BY DEF ResultInv
<1> QED  BY <1>2, <1>3, <1>4, <1>5, <1>6, OneSpeaks

LEMMA ResultEnds ==
    ASSUME SafeInv, SafeInv', ControlInv, ResultInv, NEW r \in Requests,
           \/ Declined(r) \/ UpstreamNext(r) \/ FinalizeRequest(r)
           \/ InitFails(r) \/ GetPeerErrs(r) \/ Abort(r)
    PROVE  ResultInv'
<1>0. Own(r) /\ (Acked(r) <=> state[r] = "db_idle") /\ Acked(r) \in BOOLEAN
      /\ reply \in [Requests -> Replies]
  BY DEF ResultInv, Acked, ControlInv, ControlType
<1>1. CASE Declined(r) \/ UpstreamNext(r)
  <2>1. /\ FreePeer(r, TRUE, FALSE) /\ Released /\ UNCHANGED <<state, response, reply>>
        /\ pc'.fn = "finalize" => pc'.arg # OK
    <3>1. Run("finalize", r, 502).arg # OK
      BY DEF Run, OK
    <3>2. \A ft : \A broken \in BOOLEAN : Run("finalize", r, CodeOf(r, ft, broken)).arg # OK
      BY DEF Run, OK, CodeOf, ClientClosed
    <3>3. \/ pc' = Run("finalize", r, 502)
          \/ \E broken \in BOOLEAN : pc' = Run("finalize", r, CodeOf(r, pc.arg, broken))
      BY <1>1 DEF Declined, UpstreamNext, Runs
    <3>4. FreePeer(r, TRUE, FALSE) /\ Released /\ UNCHANGED <<state, response, reply>>
      BY <1>1 DEF Declined, UpstreamNext, FailPeer, requestVars
    <3> QED  BY ZenonT(60), <3>1, <3>2, <3>3, <3>4
  <2>2. OthersKept(r)
    BY <1>1, ControlDeclined, ControlUpstreamNext
  <2>3. Own(r)'
    BY <1>0, <2>1 DEF Own
  <2> QED  BY <2>1, <2>2, <2>3, ReleaseSpeaks
<1>2. CASE FinalizeRequest(r)
  <2>1. /\ FinishPeer(r, Acked(r)) /\ Released /\ UNCHANGED <<state, response>>
        /\ reply' = [reply EXCEPT ![r] = pc.arg] /\ pc' = Loop
        /\ pc.fn = "finalize" /\ pc.r = r
    BY <1>2 DEF FinalizeRequest, Returns
  <2>2. OthersKept(r)
    BY <1>2, ControlFinalize
  <2>3. Own(r)'
    BY <1>0, <2>1 DEF Own, Loop
  <2> QED  BY <1>0, <2>1, <2>2, <2>3, ReleaseSpeaks DEF FinishPeer
<1>3. CASE InitFails(r) \/ GetPeerErrs(r) \/ Abort(r)
  <2>1. PICK ok \in BOOLEAN, code \in {500, ClientClosed} :
           /\ pc = Loop /\ phase[r] # "again" /\ NginxFinalizes(r, ok, code)
           /\ ok => state[r] = "db_idle"
    BY ZenonT(60), <1>0, <1>3 DEF InitFails, GetPeerErrs, Abort, AtLoop
  <2>2. code \in Replies \ {0} /\ code # OK
    BY DEF Replies, ClientClosed, OK
  <2>3. OthersKept(r)
    BY <2>1, <2>2, ControlNginxFinalizes
  <2>4. /\ FinishPeer(r, ok) /\ Released /\ UNCHANGED <<state, response>>
        /\ reply' = [reply EXCEPT ![r] = code] /\ pc' = Loop
    BY <2>1 DEF NginxFinalizes
  <2>5. Own(r)'
    BY <1>0, <2>2, <2>4 DEF Own, Loop
  <2> QED  BY <2>1, <2>3, <2>4, <2>5, ReleaseSpeaks DEF FinishPeer
<1> QED  BY <1>1, <1>2, <1>3

LEMMA ConnectedKeeps ==
    ASSUME SafeInv, NEW r \in Requests, Connected(r)
    PROVE  /\ peer' = peer /\ (HoldsDatabase(r)' => HoldsDatabase(r))
           /\ \A c \in Connections : conn'[c].fd = conn[c].fd
<1>1. CASE Attach(r)
  <2>1. /\ peer[r].connection \in Connections /\ conn[peer[r].connection] \in ConnRecords
        /\ conn \in [Connections -> ConnRecords]
    BY <1>1, PoolTyped DEF Attach, PeerRecords
  <2>2. conn' = [conn EXCEPT ![peer[r].connection] = Attached(@, r)] /\ peer' = peer
    BY <1>1 DEF Attach
  <2>3. \A c \in Connections : conn'[c].fd = conn[c].fd
    BY <2>1, <2>2 DEF Attached, ConnRecords
  <2> QED  BY <2>1, <2>2, <2>3 DEF HoldsDatabase, Holds
<1>2. CASE Crash(r)
  BY <1>2 DEF Crash, HoldsDatabase, Holds
<1> QED  BY <1>1, <1>2 DEF Connected

LEMMA NoneHeld ==
    ASSUME SafeInv, SafeInv', NEW r \in Requests, GetPeerNone(r)
    PROVE  ~HoldsDatabase(r)'
<1>0. TypeInv
  BY DEF SafeInv
<1>1. peer[r] \in PeerRecords /\ peer \in [Requests -> PeerRecords] /\ conn \in [Connections -> ConnRecords]
  BY PoolTyped
<1>2. CASE RejectPeer(r)
  <2>1. PICK c \in GetConnection :
           /\ conn' = IF c = None THEN conn ELSE [conn EXCEPT ![c] = [FreeConn EXCEPT !.fd = ZeroFd]]
           /\ Leave(r, c, None, "again")
    BY <1>2 DEF RejectPeer
  <2>2. peer'[r].connection = c /\ (c # None => c \in Connections)
    BY <1>0, <2>1, LeaveFacts DEF GetConnection
  <2> QED  BY <1>1, <2>1, <2>2 DEF HoldsDatabase, Holds, FreeConn
<1>3. CASE ConnectNoMemory(r) \/ ConnectDeclined(r)
  <2>1. peer'[r].connection = None
    BY <1>0, <1>3, LeaveFacts DEF ConnectNoMemory, ConnectDeclined
  <2> QED  BY <2>1 DEF HoldsDatabase, Holds
<1>4. CASE ConnectInvalid(r) \/ ConnectBadAdd(r)
  <2>1. \E c, p : Leave(r, c, p, "error")
    BY <1>4 DEF ConnectInvalid, ConnectBadAdd
  <2>2. phase'[r] = "error"
    BY <1>0, <2>1, LeaveFacts
  <2> QED  BY <2>2 DEF HoldsDatabase, SafeInv, PeerInv
<1> QED  BY <1>2, <1>3, <1>4 DEF GetPeerNone

LEMMA ResultBegins ==
    ASSUME SafeInv, SafeInv', ControlInv, ResultInv, NEW r \in Requests,
           HandleRequest(r) \/ Connected(r) \/ GetPeerNone(r)
    PROVE  ResultInv'
<1>0. /\ Speaks(r) /\ Own(r) /\ CachedClean
      /\ pg \in [PGconns -> PgRecords] /\ response \in [Requests -> Requests \cup {None}]
  BY DEF ResultInv
<1>1. UNCHANGED <<cache, item, pg, pc>> /\ OthersKept(r) /\ pc = Loop
  BY ControlHandle, ControlConnected, ControlNew
     DEF HandleRequest, InitPeer, Connected, Attach, Crash, GetPeerNone, ioVars, poolVars,
         RejectPeer, ConnectNoMemory, ConnectDeclined, ConnectInvalid, ConnectBadAdd, MissesCache
<1>2. CachedClean'
  BY <1>0, <1>1 DEF CachedClean, Cached
<1>3. CASE HandleRequest(r)
  <2>1. /\ peer' = [peer EXCEPT ![r] = NewPeer]
        /\ state' = [state EXCEPT ![r] = "db_connect"]
        /\ response' = [response EXCEPT ![r] = None]
        /\ reply' = [reply EXCEPT ![r] = 0]
    BY <1>3 DEF HandleRequest, InitPeer
  <2>2. peer \in [Requests -> PeerRecords] /\ state \in [Requests -> States] /\ reply \in [Requests -> Replies]
    BY PoolTyped DEF ControlInv, ControlType
  <2>3. Speaks(r)'
    BY <2>1, <2>2 DEF Speaks, Talking, HoldsDatabase, Holds, NewPeer
  <2>4. Own(r)'
    BY <1>0, <1>1, <2>1, <2>2, OwnNow DEF Loop
  <2>5. response' \in [Requests -> Requests \cup {None}] /\ \A s \in Requests \ {r} : response'[s] = response[s]
    BY <1>0, <2>1
  <2> QED  BY <1>0, <1>1, <1>2, <2>3, <2>4, <2>5, OneSpeaks
<1>4. CASE Connected(r) \/ GetPeerNone(r)
  <2>1. UNCHANGED <<state, response, reply>>
    BY <1>4 DEF Connected, GetPeerNone, requestVars
  <2>2. Own(r)'
    BY <1>0, <1>1, <2>1 DEF Own
  <2>3. Speaks(r)'
    <3>1. CASE Connected(r)
      <4>1. peer' = peer /\ (HoldsDatabase(r)' => HoldsDatabase(r))
        BY <3>1, ConnectedKeeps
      <4> QED  BY <1>0, <1>1, <2>1, <4>1 DEF Speaks, Talking, InFunction, Loop
    <3>2. CASE GetPeerNone(r)
      <4>1. ~HoldsDatabase(r)'
        BY <3>2, NoneHeld
      <4> QED  BY <4>1 DEF Speaks, Talking
    <3> QED  BY <1>4, <3>1, <3>2
  <2> QED  BY <1>0, <1>1, <1>2, <2>1, <2>2, <2>3, OneSpeaks
<1> QED  BY <1>3, <1>4

(* A connection from the cache is clean, and the request takes it as it is. *)
LEMMA ResultReuses ==
    ASSUME SafeInv, ControlInv, ResultInv, NEW r \in Requests, GetPeerCached(r)
    PROVE  ResultInv'
<1>0. /\ CachedClean /\ Own(r)
      /\ pg \in [PGconns -> PgRecords] /\ response \in [Requests -> Requests \cup {None}]
  BY DEF ResultInv
<1>1. PICK k \in DOMAIN cache : \E a : Reuse(r, k, a)
  <2>1. CASE GetPeerSingle(r)
    <3>1. cache # <<>> /\ cache \in Seq(Items)
      BY <2>1 DEF GetPeerSingle, SafeInv, TypeInv, KeepaliveTypeOK
    <3>2. 1 \in DOMAIN cache
      BY <3>1
    <3> QED  BY <2>1, <3>2 DEF GetPeerSingle
  <2>2. CASE GetPeerMulti(r)
    BY <2>2 DEF GetPeerMulti, Matches
  <2> QED  BY <2>1, <2>2 DEF GetPeerCached
<1>2. /\ state' = [state EXCEPT ![r] = "db_send_query"] /\ UNCHANGED <<response, reply, pg, item>>
      /\ pc' = Run("process_events", r, 0) /\ pc = Loop
      /\ worker = "running" /\ phase[r] = "new" /\ state \in [Requests -> States]
  BY <1>1 DEF GetPeerCached, ioVars, Reuse, GetPeerSingle, GetPeerMulti, GetPeer, ControlInv, ControlType
<1>9. reply[r] = 0
  BY <1>2, AtGetPeer DEF AtRest
<1>3. OthersKept(r)
  BY ControlReuse
<1>4. cache[k] \in Cached /\ Cached' = Cached \ {cache[k]}
  <2>1. QueueInv
    BY DEF SafeInv, TypeInv, KeepaliveTypeOK, QueueInv
  <2>2. cache' = RemoveIndex(cache, k) /\ free' = InsertHead(free, cache[k])
    BY <1>1 DEF Reuse
  <2>3. cache[k] \in Cached
    BY <1>1, <2>1 DEF QueueInv, Cached, Range
  <2> QED  BY <1>1, <1>2, <2>1, <2>2, <2>3, TakeItem
<1>5. peer'[r].pgconn = item[cache[k]].pgconn
  BY <1>1, PoolTyped DEF Reuse, Taken, PeerRecords
<1>6. Speaks(r)'
  BY <1>0, <1>2, <1>4, <1>5 DEF CachedClean, Speaks, Says
<1>7. CachedClean'
  BY <1>0, <1>2, <1>4 DEF CachedClean
<1>8. Own(r)'
  BY <1>0, <1>2, <1>9, OwnNow DEF Own, Run
<1> QED  BY <1>0, <1>2, <1>3, <1>6, <1>7, <1>8, OneSpeaks

LEMMA ResultDials ==
    ASSUME SafeInv, ControlInv, ResultInv, NEW r \in Requests, GetPeerNew(r)
    PROVE  ResultInv'
<1> DEFINE x == [NoPG EXCEPT !.status = "started", !.net = "connecting"]
<1>0. /\ CachedClean /\ Own(r)
      /\ pg \in [PGconns -> PgRecords] /\ response \in [Requests -> Requests \cup {None}]
  BY DEF ResultInv
<1>1. PICK p \in PGconns \ Open : \E c : Leave(r, c, p, "again")
  BY DEF GetPeerNew, ConnectPeer
<1>2. /\ state' = [state EXCEPT ![r] = "db_connect"] /\ UNCHANGED <<response, reply, item, cache, pc>>
      /\ pg' = [pg EXCEPT ![peer'[r].pgconn] = x]
      /\ pc = Loop /\ phase[r] = "new" /\ state \in [Requests -> States]
  BY DEF GetPeerNew, ConnectPeer, MissesCache, GetPeer, ControlInv, ControlType
<1>3. OthersKept(r)
  BY ControlNew
<1>4. peer'[r].pgconn = p /\ reply[r] = 0
  BY <1>1, <1>2, LeaveFacts, AtGetPeer DEF SafeInv, AtRest
<1>5. x \in PgRecords /\ Dialling(x)
  <2>1. NoPG \in PgRecords
    BY DEF NoPG, PgRecords
  <2>2. NoPG.async = "idle" /\ NoPG.inbuf = <<>> /\ NoPG.in = <<>> /\ NoPG.todo = <<>>
    BY DEF NoPG
  <2>3. /\ x.status = "started" /\ x.async = "idle" /\ x.inbuf = <<>>
        /\ x.in = <<>> /\ x.todo = <<>>
    BY <2>1, <2>2 DEF PgRecords
  <2>4. x \in PgRecords
    BY <2>1 DEF PgRecords
  <2> QED  BY <2>3, <2>4 DEF Dialling
<1> HIDE DEF x
<1>6. pg' \in [PGconns -> PgRecords] /\ pg'[p] = x /\ \A q \in PGconns : q # p => pg'[q] = pg[q]
  BY <1>0, <1>2, <1>4, <1>5
<1>7. Speaks(r)'
  BY <1>2, <1>4, <1>5, <1>6 DEF Speaks, Says
<1>8. CachedClean'
  BY <1>0, <1>2, <1>6, CachedPGconn DEF CachedClean, Cached, Open
<1>9. Own(r)'
  BY <1>0, <1>2, <1>4, OwnNow DEF Own, Loop
<1>10. \A s \in Requests \ {r} : HoldsDatabase(s) => pg'[peer[s].pgconn] = pg[peer[s].pgconn]
  BY <1>6, OwnPGconn DEF Open
<1> QED  BY <1>0, <1>2, <1>3, <1>6, <1>7, <1>8, <1>9, <1>10, OneSpeaks

(* The placeholder of a rejected request is not a database connection. *)
LEMMA ResultCleanUp ==
    ASSUME SafeInv, SafeInv', ControlInv, ResultInv, NEW r \in Requests, CleanUpPart(r)
    PROVE  ResultInv'
<1>1. /\ peer' = [peer EXCEPT ![r].connection = None] /\ UNCHANGED <<item, cache, state, response, reply>>
      /\ Released /\ pc' = Run("finalize", r, 503)
  BY DEF CleanUpPart, DropPlaceholder, requestVars, poolVars
<1>2. OthersKept(r)
  BY ControlCleanUp
<1>3. /\ pg' \in [PGconns -> PgRecords]
      /\ \A s \in Requests : HoldsDatabase(s)' => pg'[peer'[s].pgconn] = pg[peer'[s].pgconn]
      /\ \A i \in Cached' : pg'[item'[i].pgconn] = pg[item'[i].pgconn]
  BY <1>1, ReleasedKeeps
<1>4. Speaks(r)'
  <2>1. peer'[r].connection = None
    BY <1>1, PoolTyped DEF PeerRecords
  <2> QED  BY <2>1 DEF Speaks, Talking, HoldsDatabase, Holds
<1>5. CachedClean' /\ response' \in [Requests -> Requests \cup {None}]
  BY <1>1, <1>3 DEF ResultInv, CachedClean, Cached
<1>6. Own(r)'
  BY <1>1 DEF ResultInv, Own, Run, OK
<1>7. \A s \in Requests \ {r} : HoldsDatabase(s) => pg'[peer[s].pgconn] = pg[peer[s].pgconn]
  BY <1>2, <1>3 DEF OthersKept, HoldsDatabase, Holds
<1> QED  BY <1>1, <1>2, <1>3, <1>4, <1>5, <1>6, <1>7, OneSpeaks

-----------------------------------------------------------------------------
(* Events, the network, and the end of the worker *)

LEMMA ResultEvent ==
    ASSUME SafeInv, ControlInv, ResultInv, NEW c \in Connections,
           (\E e \in {"read", "write"} : Deliver(c, e)) \/ (\E t \in {"read", "write"} : TimerExpires(c, t))
    PROVE  ResultInv'
<1>1. PICK r \in Requests : OthersKept(r) /\ HoldsDatabase(r) /\ HoldsDatabase(r)'
  BY ControlEvent
<1>2. /\ pc = Loop /\ UNCHANGED <<requestVars, pg, cache, item, peer>>
      /\ \E s, a : pc' \in {Run("next", s, a), Run("process_events", s, a)}
  BY DEF Deliver, TimerExpires, AtLoop, Fails, Runs, keepaliveVars, poolVars, ioVars
<1>3. pc.fn = "loop" /\ pc'.fn # "finalize"
  BY <1>2 DEF Loop, Run
<1>4. /\ Speaks(r) /\ Own(r) /\ CachedClean
      /\ pg' \in [PGconns -> PgRecords] /\ response' \in [Requests -> Requests \cup {None}]
      /\ UNCHANGED <<state, response, reply>>
  BY <1>2 DEF ResultInv, requestVars
<1>5. Speaks(r)'
  BY <1>1, <1>2, <1>3, <1>4 DEF Speaks, Talking, InFunction
<1>6. Own(r)'
  BY <1>3, <1>4 DEF Own
<1>7. CachedClean'
  BY <1>2, <1>4 DEF CachedClean, Cached
<1> QED  BY <1>1, <1>2, <1>4, <1>5, <1>6, <1>7, OneSpeaks

(* A step of no request, between two events. *)
LEMMA NoneSpeaks ==
    ASSUME ResultInv, pc = Loop, UNCHANGED <<pc, peer, requestVars>>,
           \A s \in Requests : Holds(s) => conn'[peer[s].connection] = conn[peer[s].connection],
           pg' \in [PGconns -> PgRecords], CachedClean',
           \A s \in Requests : HoldsDatabase(s) => pg'[peer[s].pgconn] = pg[peer[s].pgconn]
    PROVE  ResultInv'
<1>1. UNCHANGED <<state, response, reply>>
  BY DEF requestVars
<1>2. \A s \in Requests : Speaks(s)' /\ Own(s)'
  BY <1>1, OtherSpeaks DEF InFunction, Loop
<1> QED  BY <1>1, <1>2 DEF ResultInv

LEMMA ResultIdle ==
    ASSUME SafeInv, SafeInv', ControlInv, ResultInv,
           Exit \/ \E c \in Connections : CloseIdle(c) \/ IdleReadable(c) \/ IdleWritable(c)
    PROVE  ResultInv'
<1>0. pc = Loop /\ UNCHANGED <<pc, peer, requestVars, item>> /\ EventLoop
  BY DEF Exit, CloseIdle, IdleReadable, IdleWritable, AtLoop, CloseHandler, Cleanup, keepaliveVars, poolVars
<1>1. \A s \in Requests : Holds(s) => conn'[peer[s].connection] = conn[peer[s].connection]
  BY ControlIdle
<1>2. CachedClean /\ pg \in [PGconns -> PgRecords] /\ ItemInv /\ ConnInv /\ TypeInv
  BY DEF ResultInv, SafeInv
<1>3. ASSUME Released, Cached' \subseteq Cached  PROVE ResultInv'
  <2>1. /\ pg' \in [PGconns -> PgRecords]
        /\ \A s \in Requests : HoldsDatabase(s)' => pg'[peer'[s].pgconn] = pg[peer'[s].pgconn]
        /\ \A i \in Cached' : pg'[item'[i].pgconn] = pg[item'[i].pgconn]
    BY <1>3, ReleasedKeeps
  <2>2. CachedClean'
    BY <1>0, <1>2, <1>3, <2>1 DEF CachedClean
  <2>3. \A s \in Requests : HoldsDatabase(s) => pg'[peer[s].pgconn] = pg[peer[s].pgconn]
    BY <1>0, <1>1, <2>1 DEF HoldsDatabase, Holds
  <2> QED  BY <1>0, <1>1, <2>1, <2>2, <2>3, NoneSpeaks
<1>4. ASSUME NEW c \in Connections, CloseHandler(c)  PROVE Cached' \subseteq Cached
  <2>1. PICK k \in DOMAIN cache : cache' = RemoveIndex(cache, k) /\ free' = InsertHead(free, cache[k])
    BY <1>4 DEF CloseHandler
  <2>2. QueueInv /\ worker = "running"
    BY <1>0, <1>2 DEF QueueInv, TypeInv, KeepaliveTypeOK, EventLoop
  <2> QED  BY <2>1, <2>2, TakeItem
<1>5. ASSUME NEW c \in Connections, CloseIdle(c)  PROVE ResultInv'
  BY <1>3, <1>4, <1>5 DEF CloseIdle
<1>6. CASE Exit
  <2>1. cache' = cache \/ cache' = <<>>
    BY <1>6 DEF Exit, Cleanup
  <2>2. Cached' \subseteq Cached
    BY <2>1 DEF Cached, Range
  <2> QED  BY <1>3, <1>6, <2>2 DEF Exit
<1>7. ASSUME NEW c \in Connections, IdleWritable(c)  PROVE ResultInv'
  <2>1. UNCHANGED <<pg, cache>>
    BY <1>7 DEF IdleWritable, keepaliveVars, poolVars
  <2>2. CachedClean'
    BY <1>0, <1>2, <2>1 DEF CachedClean, Cached
  <2> QED  BY <1>0, <1>1, <1>2, <2>1, <2>2, NoneSpeaks
<1>8. ASSUME NEW c \in Connections, IdleReadable(c)  PROVE ResultInv'
  <2> DEFINE p == conn[c].fd
  <2>1. CASE CloseHandler(c) /\ Released
    BY <1>3, <1>4, <2>1
  <2>2. CASE ~(CloseHandler(c) /\ Released)
    <3>1. PICK y \in Consumed(pg[p]) :
             /\ pg' = [pg EXCEPT ![p] = Parsed(y)] /\ UNCHANGED cache
             /\ conn[c].handler = "keepalive"
      BY <1>8, <2>2 DEF IdleReadable, keepaliveVars, poolVars
    <3>2. PICK i \in Cached : p = item[i].pgconn
      <4>1. conn[c].handler = "keepalive" => conn[c].idle
        BY <1>0, <1>2 DEF ConnInv, EventLoop
      <4> QED  BY <1>2, <3>1, <4>1 DEF ConnInv, ItemInv
    <3>3. p \in PGconns /\ Clean(pg[p])
      BY <1>2, <3>2, CachedPGconn DEF CachedClean
    <3>4. Parsed(y) \in PgRecords /\ Clean(Parsed(y))
      BY <1>2, <3>1, <3>3, IdleSays
    <3>5. /\ pg' \in [PGconns -> PgRecords] /\ Clean(pg'[p])
          /\ \A q \in PGconns : q # p => pg'[q] = pg[q]
      BY <1>2, <3>1, <3>3, <3>4
    <3>6. CachedClean'
      BY <1>0, <1>2, <3>1, <3>5, CachedPGconn DEF CachedClean, Cached
    <3>7. \A s \in Requests : HoldsDatabase(s) => pg'[peer[s].pgconn] = pg[peer[s].pgconn]
      BY <3>2, <3>5, OwnPGconn
    <3> QED  BY <1>0, <1>1, <3>5, <3>6, <3>7, NoneSpeaks
  <2> QED  BY <2>1, <2>2
<1> QED  BY <1>5, <1>6, <1>7, <1>8

LEMMA ResultNetwork ==
    ASSUME SafeInv, ResultInv, NEW p \in PGconns, Network(p)
    PROVE  ResultInv'
<1>1. /\ UNCHANGED <<keepaliveVars, pc, requestVars>>
      /\ \A q \in PGconns : Carries(pg[q], pg'[q])
      /\ pg' \in [PGconns -> PgRecords]
  BY NetworkCarries DEF ResultInv
<1>2. UNCHANGED <<cache, item, conn, peer, pc, state, response, reply>>
  BY <1>1 DEF keepaliveVars, poolVars, requestVars
<1>3. ASSUME NEW r \in Requests  PROVE Speaks(r)' /\ Own(r)'
  <2>1. Own(r)'
    BY <1>2 DEF ResultInv, Own
  <2>2. ASSUME Talking(r)'  PROVE Says(pg'[peer[r].pgconn], state[r], r)
    <3>1. Talking(r)
      BY <1>2, <2>2 DEF Talking, HoldsDatabase, Holds, InFunction
    <3>2. Says(pg[peer[r].pgconn], state[r], r) /\ peer[r].pgconn \in PGconns
      BY <3>1, OwnPGconn DEF ResultInv, Speaks, Talking
    <3> QED  BY <1>1, <3>2 DEF Says, Carries
  <2> QED  BY <1>2, <2>1, <2>2 DEF Speaks
<1>4. CachedClean'
  BY <1>1, <1>2, CachedPGconn DEF ResultInv, CachedClean, Cached, Carries
<1> QED  BY <1>1, <1>2, <1>3, <1>4 DEF ResultInv

LEMMA ResultSame == ResultInv /\ UNCHANGED workerVars => ResultInv'
<1> SUFFICES ASSUME ResultInv, UNCHANGED workerVars  PROVE ResultInv'
  OBVIOUS
<1>1. UNCHANGED <<cache, item, conn, peer, pc, state, response, reply, pg>>
  BY DEF workerVars, keepaliveVars, poolVars, requestVars, ioVars
<1>2. \A r \in Requests : Speaks(r)' /\ Own(r)'
  BY <1>1 DEF ResultInv, Speaks, Own, Talking, HoldsDatabase, Holds, InFunction
<1> QED  BY <1>1, <1>2 DEF ResultInv, CachedClean, Cached

-----------------------------------------------------------------------------
(* The results *)

LEMMA ResultInit == WorkerInit => ResultInv
<1> SUFFICES ASSUME WorkerInit  PROVE ResultInv
  OBVIOUS
<1>1. pg \in [PGconns -> PgRecords]
  BY DEF WorkerInit, NoPG, PgRecords
<1>2. response = [r \in Requests |-> None] /\ \A r \in Requests : state[r] = "db_connect" /\ reply[r] = 0
  BY DEF WorkerInit
<1>3. \A r \in Requests : ~Holds(r)
  BY DEF WorkerInit, Init, Holds, NewPeer
<1>4. Cached = {} /\ pc = Loop
  BY DEF WorkerInit, Init, Cached, Range
<1>5. \A r \in Requests : Speaks(r) /\ Own(r)
  BY <1>2, <1>3, <1>4 DEF Speaks, Talking, HoldsDatabase, Own, OK, Loop
<1> QED  BY <1>1, <1>2, <1>4, <1>5 DEF ResultInv, CachedClean

LEMMA ResultStep ==
    ASSUME SafeInv, SafeInv', ControlInv, ResultInv, [WorkerNext]_workerVars
    PROVE  ResultInv'
<1>1. ASSUME NEW r \in Requests, HandleRequest(r) \/ Serve(r) \/ Abort(r)
      PROVE  ResultInv'
  <2>1. CASE HandleRequest(r) \/ Connected(r) \/ GetPeerNone(r)
    BY <2>1, ResultBegins
  <2>2. CASE GetPeerCached(r) \/ GetPeerNew(r) \/ CleanUpPart(r)
    BY <2>2, ResultReuses, ResultDials, ResultCleanUp
  <2>3. CASE Connect(r) \/ SendQuery(r) \/ GetResult(r) \/ GetAck(r)
    BY <2>3, ResultConnect, ResultSend, ResultResult, ResultAck
  <2>4. CASE \/ Declined(r) \/ UpstreamNext(r) \/ FinalizeRequest(r)
             \/ InitFails(r) \/ GetPeerErrs(r) \/ Abort(r)
    BY <2>4, ResultEnds
  <2> QED  BY <1>1, <2>1, <2>2, <2>3, <2>4 DEF Serve
<1>2. CASE \E c \in Connections : OnConnection(c)
  BY <1>2, ResultEvent, ResultIdle DEF OnConnection
<1>3. CASE \E p \in PGconns : Network(p)
  BY <1>3, ResultNetwork
<1>4. CASE Exit
  BY <1>4, ResultIdle
<1>5. CASE UNCHANGED workerVars
  BY <1>5, ResultSame
<1> QED  BY <1>1, <1>2, <1>3, <1>4, <1>5 DEF WorkerNext

LEMMA ResultAlways ==
    ASSUME "ngx_add_event" \notin MayFail
    PROVE  WorkerSafety => []ResultInv
<1>1. WorkerInit => ResultInv
  BY ResultInit
<1>2. SafeInv /\ SafeInv' /\ ControlInv /\ ResultInv /\ [WorkerNext]_workerVars => ResultInv'
  BY ResultStep
<1> QED  BY <1>1, <1>2, ControlAlways, PTL DEF WorkerSafety

(* Whatever a connection has been through, with however many requests, it is *)
(* put into the cache, and stays there, only with nothing of an answer left. *)
THEOREM CachedAreClean ==
    ASSUME "ngx_add_event" \notin MayFail
    PROVE  WorkerSafety => []CachedIsClean
<1>1. ResultInv => CachedIsClean
  <2> SUFFICES ASSUME ResultInv, NEW i \in Cached
               PROVE  /\ Clean(pg[item[i].pgconn])
                      /\ \A k \in DOMAIN pg[item[i].pgconn].in : pg[item[i].pgconn].in[k].kind = "notice"
    BY DEF CachedIsClean, Clean, Quiet
  <2>1. Clean(pg[item[i].pgconn])
    BY DEF ResultInv, CachedClean
  <2>2. \A k \in DOMAIN pg[item[i].pgconn].in : pg[item[i].pgconn].in[k] = Notice
    BY <2>1, MessageFacts DEF Clean, Quiet
  <2> QED  BY <2>1, <2>2, MessageFacts
<1> QED  BY <1>1, ResultAlways, PTL

(* The response a client gets is the result of its own query, acknowledged   *)
(* by the server, whoever had the connection before and whatever the servers *)
(* sent, for any number of requests, connections and servers.               *)
THEOREM ResultsAreOwn ==
    ASSUME "ngx_add_event" \notin MayFail
    PROVE  WorkerSafety => []OwnResult
<1>1. ResultInv => OwnResult
  BY DEF ResultInv, Own, OwnResult
<1> QED  BY <1>1, ResultAlways, PTL

-----------------------------------------------------------------------------
(* The worker is woken up while it connects *)

(* What epoll has yet to say of a connection that is being made, es, while   *)
(* no function runs for it; wr is write->ready.                             *)
Asleep(x, es, wr) ==
    /\ x.net # "none"
    /\ x.net = "connecting" => x.status = "started" /\ es = {} /\ ~wr
    /\ x.net = "refused" => x.status = "started"
    /\ x.status = "started" => x.net = "connecting" \/ "write" \in es
    /\ x.status = "made" => "write" \in es
    /\ x.status = "awaiting" =>
          x.net = "resetting" \/ "read" \in es \/ (x.net = "up" /\ x.in = <<>>)

(* And while its state function runs: an event has been delivered, so the   *)
(* server has answered, and if it was not "write" that one is yet to come.  *)
Called(x, es, wr) ==
    /\ x.net \in {"up", "gone", "resetting"}
    /\ x.status \in {"started", "made"} => "write" \in es \/ wr

Wakeful(x, es, wr, called) == IF called THEN Called(x, es, wr) ELSE Asleep(x, es, wr)
Wakes(r) ==
    LET c == peer[r].connection
    IN  Talking(r) /\ state[r] = "db_connect" =>
           Wakeful(pg[peer[r].pgconn], events[c], c \in wready, InFunction(r))

(* A connection starts without events. *)
EpollInv ==
    /\ events \in [Connections -> SUBSET {"read", "write"}]
    /\ wready \subseteq Connections
    /\ \A c \in Connections : conn[c].fd = None => events[c] = {} /\ c \notin wready

WakeInv == EpollInv /\ \A r \in Requests : Wakes(r)

(* PQconnectPoll, once or twice, leaves the worker something to wait for. *)
LEMMA PollSleeps ==
    ASSUME NEW x \in PgRecords, Dialling(x), NEW es, NEW wr \in BOOLEAN, Called(x, es, wr),
           NEW y, y = PQconnectPoll(x)
    PROVE  /\ y.status = "made" => x.status = "started" /\ Dialling(y) /\ Called(y, es, wr)
           /\ y.status = "made" /\ ~wr => Asleep(y, es, wr)
           /\ y.status \notin {"made", "ok", "bad"} => Asleep(y, es, wr)
<1>1. CASE x.status = "started"
  <2>1. y = [x EXCEPT !.status = "made"]
    BY <1>1 DEF PQconnectPoll
  <2>2. y.status = "made" /\ y.net = x.net /\ y.in = x.in /\ y.todo = x.todo
        /\ y.async = x.async /\ y.inbuf = x.inbuf
    BY <2>1 DEF PgRecords
  <2> QED  BY <1>1, <2>2 DEF Dialling, Called, Asleep
<1>2. CASE x.status = "made"
  <2>1. y = [Sent(x, <<Welcome>>) EXCEPT !.status = "awaiting"]
    BY <1>2 DEF PQconnectPoll, Welcome
  <2>2. /\ y.status = "awaiting" /\ y.in = x.in
        /\ x.net = "up" => y.net = "up"
        /\ x.net # "up" => y.net = "resetting"
    BY <2>1 DEF Sent, PgRecords
  <2>3. x.in = <<>>
    BY <1>2 DEF Dialling
  <2> QED  BY <2>2, <2>3 DEF Asleep
<1>3. CASE x.status = "awaiting"
  <2>1. CASE x.in # <<>>
    <3>1. y = [x EXCEPT !.status = "ok", !.in = Tail(x.in)]
      BY <1>3, <2>1 DEF PQconnectPoll
    <3>2. y.status = "ok"
      BY <3>1 DEF PgRecords
    <3> QED  BY <3>2
  <2>2. CASE x.in = <<>> /\ Ended(x)
    <3>1. y = [x EXCEPT !.status = "bad"]
      BY <1>3, <2>2 DEF PQconnectPoll
    <3>2. y.status = "bad"
      BY <3>1 DEF PgRecords
    <3> QED  BY <3>2
  <2>3. CASE x.in = <<>> /\ ~Ended(x)
    <3>1. y = x
      BY <1>3, <2>3 DEF PQconnectPoll
    <3>2. x.net = "up"
      BY <2>3 DEF Called, Ended
    <3> QED  BY <1>3, <2>3, <3>1, <3>2 DEF Asleep
  <2> QED  BY <2>1, <2>2, <2>3
<1> QED  BY <1>1, <1>2, <1>3 DEF Dialling

LEMMA RepollSleeps ==
    ASSUME NEW x \in PgRecords, Dialling(x), NEW c, NEW es, Called(x, es, c \in wready),
           Repoll(x, c).status \notin {"ok", "bad"}
    PROVE  Asleep(Repoll(x, c), es, c \in wready)
<1> DEFINE wr == c \in wready
           y == PQconnectPoll(x)
<1>0. wr \in BOOLEAN
  OBVIOUS
<1>1. /\ y.status = "made" => Dialling(y) /\ Called(y, es, wr)
      /\ y.status = "made" /\ ~wr => Asleep(y, es, wr)
      /\ y.status \notin {"made", "ok", "bad"} => Asleep(y, es, wr)
  BY <1>0, PollSleeps
<1>2. y \in PgRecords
  BY PollSays
<1> HIDE DEF y
<1>3. CASE y.status = "made" /\ wr
  <2>1. Repoll(x, c) = PQconnectPoll(y)
    BY <1>3 DEF Repoll, y
  <2> DEFINE z == PQconnectPoll(y)
  <2>2. /\ z.status = "made" => y.status = "started"
        /\ z.status \notin {"made", "ok", "bad"} => Asleep(z, es, wr)
    BY <1>0, <1>1, <1>2, <1>3, PollSleeps
  <2> HIDE DEF z
  <2> QED  BY <1>3, <2>1, <2>2 DEF z
<1>4. CASE ~(y.status = "made" /\ wr)
  <2>1. Repoll(x, c) = y
    BY <1>4 DEF Repoll, y
  <2> QED  BY <1>1, <1>4, <2>1
<1> QED  BY <1>3, <1>4

(* A step of the server or the network is an event, and takes none back. *)
Moves(x, y, es, fs) ==
    /\ y.status = x.status /\ es \subseteq fs
    /\ \/ x.net = "connecting" /\ y.net \in {"up", "refused"} /\ "write" \in fs
       \/ x.net \in {"up", "resetting"} /\ y.net \in {"up", "gone"} /\ "read" \in fs

MovesAlong(p) ==
    \E y, fs : /\ pg' = [pg EXCEPT ![p] = y]
               /\ events' = [events EXCEPT ![ConnOf(p)] = fs]
               /\ fs \subseteq {"read", "write"}
               /\ Moves(pg[p], y, events[ConnOf(p)], fs)

LEMMA MovesWake ==
    ASSUME NEW x, NEW y, NEW es, NEW fs, NEW wr, NEW called,
           Moves(x, y, es, fs), Wakeful(x, es, wr, called)
    PROVE  Wakeful(y, fs, wr, called)
BY DEF Moves, Wakeful, Asleep, Called

LEMMA NetworkMoves ==
    ASSUME pg \in [PGconns -> PgRecords], events \in [Connections -> SUBSET {"read", "write"}],
           NEW p \in PGconns, Network(p), ConnOf(p) \in Connections
    PROVE  MovesAlong(p)
<1> DEFINE x == pg[p]
           es == events[ConnOf(p)]
<1>1. x \in PgRecords /\ es \subseteq {"read", "write"}
  OBVIOUS
<1>2. ASSUME NEW y, NEW more \in SUBSET {"read", "write"},
             pg' = [pg EXCEPT ![p] = y], Notify(p, more), y.status = x.status,
             \/ x.net = "connecting" /\ y.net \in {"up", "refused"} /\ "write" \in more
             \/ x.net \in {"up", "resetting"} /\ y.net \in {"up", "gone"} /\ "read" \in more
      PROVE  MovesAlong(p)
  <2>1. events' = [events EXCEPT ![ConnOf(p)] = es \cup more]
    BY <1>2 DEF Notify
  <2>2. Moves(x, y, es, es \cup more) /\ es \cup more \subseteq {"read", "write"}
    BY <1>1, <1>2 DEF Moves
  <2> QED  BY <1>2, <2>1, <2>2 DEF MovesAlong
<1>3. ASSUME Readable(p), NEW y, pg' = [pg EXCEPT ![p] = y], y.status = x.status,
             x.net = "up", y.net \in {"up", "gone"}
      PROVE  MovesAlong(p)
  <2>1. CASE Notify(p, {"read"})
    BY <1>2, <1>3, <2>1
  <2>2. CASE Notify(p, {"read", "write"})
    BY <1>2, <1>3, <2>2
  <2> QED  BY <1>3, <2>1, <2>2 DEF Readable
<1>4. CASE Accept(p) \/ Refuse(p) \/ ResetArrives(p)
  <2>1. CASE Accept(p)
    <3>1. pg' = [pg EXCEPT ![p] = [x EXCEPT !.net = "up"]] /\ x.net = "connecting" /\ Notify(p, {"write"})
      BY <2>1 DEF Accept
    <3>2. [x EXCEPT !.net = "up"].status = x.status /\ [x EXCEPT !.net = "up"].net = "up"
      BY <1>1 DEF PgRecords
    <3> HIDE DEF x
    <3> QED  BY <1>2, <3>1, <3>2
  <2>2. CASE Refuse(p)
    <3>1. pg' = [pg EXCEPT ![p] = [x EXCEPT !.net = "refused"]] /\ x.net = "connecting"
          /\ Notify(p, {"read", "write"})
      BY <2>2 DEF Refuse
    <3>2. [x EXCEPT !.net = "refused"].status = x.status /\ [x EXCEPT !.net = "refused"].net = "refused"
      BY <1>1 DEF PgRecords
    <3> HIDE DEF x
    <3> QED  BY <1>2, <3>1, <3>2
  <2>3. CASE ResetArrives(p)
    <3>1. pg' = [pg EXCEPT ![p] = [x EXCEPT !.net = "gone"]] /\ x.net = "resetting"
          /\ Notify(p, {"read", "write"})
      BY <2>3 DEF ResetArrives
    <3>2. [x EXCEPT !.net = "gone"].status = x.status /\ [x EXCEPT !.net = "gone"].net = "gone"
      BY <1>1 DEF PgRecords
    <3> HIDE DEF x
    <3> QED  BY <1>2, <3>1, <3>2
  <2> QED  BY <1>4, <2>1, <2>2, <2>3
<1>5. CASE ServerSends(p)
  <2>1. /\ pg' = [pg EXCEPT ![p] = [x EXCEPT !.in = Append(x.in, Head(x.todo)), !.todo = Tail(x.todo)]]
        /\ x.net = "up" /\ Readable(p)
    BY <1>1, <1>5 DEF ServerSends, PgRecords
  <2>2. /\ [x EXCEPT !.in = Append(x.in, Head(x.todo)), !.todo = Tail(x.todo)].status = x.status
        /\ [x EXCEPT !.in = Append(x.in, Head(x.todo)), !.todo = Tail(x.todo)].net = x.net
    BY <1>1 DEF PgRecords
  <2> HIDE DEF x
  <2> QED  BY <1>3, <2>1, <2>2
<1>6. CASE PartArrives(p)
  <2>1. pg' = [pg EXCEPT ![p] = x] /\ x.net = "up" /\ Readable(p)
    BY <1>6 DEF PartArrives
  <2> HIDE DEF x
  <2> QED  BY <1>3, <2>1
<1>7. CASE ServerNotes(p)
  <2>1. pg' = [pg EXCEPT ![p] = [x EXCEPT !.in = <<Notice>>]] /\ x.net = "up" /\ Readable(p)
    BY <1>7 DEF ServerNotes, Notice
  <2>2. [x EXCEPT !.in = <<Notice>>].status = x.status /\ [x EXCEPT !.in = <<Notice>>].net = x.net
    BY <1>1 DEF PgRecords
  <2> HIDE DEF x
  <2> QED  BY <1>3, <2>1, <2>2
<1>8. CASE ServerCloses(p)
  <2>1. pg' = [pg EXCEPT ![p] = [x EXCEPT !.net = "gone", !.todo = <<>>]] /\ x.net = "up" /\ Readable(p)
    BY <1>8 DEF ServerCloses
  <2>2. /\ [x EXCEPT !.net = "gone", !.todo = <<>>].status = x.status
        /\ [x EXCEPT !.net = "gone", !.todo = <<>>].net = "gone"
    BY <1>1 DEF PgRecords
  <2> HIDE DEF x
  <2> QED  BY <1>3, <2>1, <2>2
<1> QED  BY <1>4, <1>5, <1>6, <1>7, <1>8 DEF Network

(* A request whose own state, connection, PGconn and events stay. *)
SameIO(s) ==
    LET c == peer[s].connection
    IN  /\ pg'[peer[s].pgconn] = pg[peer[s].pgconn]
        /\ events'[c] = events[c]
        /\ c \in wready' <=> c \in wready

LEMMA OtherWakes ==
    ASSUME NEW s \in Requests, Wakes(s), peer'[s] = peer[s], state'[s] = state[s],
           Holds(s) => conn'[peer[s].connection] = conn[peer[s].connection],
           ~InFunction(s), ~InFunction(s)',
           HoldsDatabase(s) => SameIO(s)
    PROVE  Wakes(s)'
<1>1. HoldsDatabase(s)' <=> HoldsDatabase(s)
  BY DEF HoldsDatabase, Holds
<1> QED  BY <1>1 DEF Wakes, Talking, SameIO, Wakeful, Asleep, Called

LEMMA OneWakes ==
    ASSUME WakeInv, NEW r \in Requests, OthersKept(r), EpollInv',
           \A s \in Requests \ {r} : HoldsDatabase(s) => SameIO(s),
           Wakes(r)'
    PROVE  WakeInv'
<1>1. ASSUME NEW s \in Requests \ {r}  PROVE Wakes(s)'
  <2>1. ~InFunction(s) /\ ~InFunction(s)'
    BY DEF OthersKept, InFunction
  <2> QED  BY <2>1, OtherWakes DEF OthersKept, WakeInv
<1> QED  BY <1>1 DEF WakeInv

(* A step that neither delivers nor frees. *)
LEMMA EpollSame ==
    ASSUME EpollInv, UNCHANGED <<events, wready>>,
           \A c \in Connections : conn'[c].fd = None => conn[c].fd = None
    PROVE  EpollInv'
BY DEF EpollInv

ConnectionsOpen ==
    \A s \in Requests : HoldsDatabase(s) =>
       peer[s].connection \in Connections /\ conn[peer[s].connection].fd # None

LEMMA HeldOpen == SafeInv => ConnectionsOpen
BY Typed DEF ConnectionsOpen, SafeInv, PeerInv, HoldsDatabase, Holds

(* With an ngx_connection_t goes what was to be said of it. *)
LEMMA ReleasedWakes ==
    ASSUME SafeInv', ResultInv, EpollInv, Released
    PROVE  /\ EpollInv'
           /\ \A s \in Requests : HoldsDatabase(s)' /\ peer'[s] = peer[s] => SameIO(s)
<1>1. /\ events' = [c \in Connections |-> IF conn'[c].fd = None THEN {} ELSE events[c]]
      /\ wready' = {c \in wready : conn'[c].fd # None}
  BY DEF Released
<1>2. EpollInv'
  BY <1>1 DEF EpollInv
<1>3. ConnectionsOpen'
  BY HeldOpen, PTL
<1>4. \A s \in Requests : HoldsDatabase(s)' => pg'[peer'[s].pgconn] = pg[peer'[s].pgconn]
  BY ReleasedKeeps
<1>5. ASSUME NEW s \in Requests, HoldsDatabase(s)', peer'[s] = peer[s]  PROVE SameIO(s)
  <2>1. peer[s].connection \in Connections /\ conn'[peer[s].connection].fd # None
    BY <1>3, <1>5 DEF ConnectionsOpen
  <2> QED  BY <1>1, <1>4, <1>5, <2>1 DEF SameIO
<1> QED  BY <1>2, <1>5

LEMMA ReleaseWakes ==
    ASSUME SafeInv', ResultInv, WakeInv, NEW r \in Requests, OthersKept(r), Released,
           peer'[r].connection = None
    PROVE  WakeInv'
<1>1. Wakes(r)'
  BY DEF Wakes, Talking, HoldsDatabase, Holds
<1>2. \A s \in Requests \ {r} : HoldsDatabase(s) => SameIO(s)
  BY ReleasedWakes DEF WakeInv, OthersKept, HoldsDatabase, Holds
<1> QED  BY <1>1, <1>2, ReleasedWakes, OneWakes DEF WakeInv

LEMMA WakeEnds ==
    ASSUME SafeInv, SafeInv', ControlInv, ResultInv, WakeInv, NEW r \in Requests,
           \/ Declined(r) \/ UpstreamNext(r) \/ FinalizeRequest(r)
           \/ InitFails(r) \/ GetPeerErrs(r) \/ Abort(r) \/ CleanUpPart(r)
    PROVE  WakeInv'
<1>0. Acked(r) \in BOOLEAN /\ FreeHasNoTimer
  BY DEF Acked, ControlInv
<1>1. CASE Declined(r) \/ UpstreamNext(r)
  <2>1. FreePeer(r, TRUE, FALSE) /\ Released
    BY <1>1 DEF Declined, UpstreamNext, FailPeer
  <2> QED  BY <1>0, <1>1, <2>1, Freed, ControlDeclined, ControlUpstreamNext, ReleaseWakes
<1>2. CASE FinalizeRequest(r)
  <2>1. FreePeer(r, FALSE, Acked(r)) /\ Released
    BY <1>2 DEF FinalizeRequest, FinishPeer
  <2> QED  BY <1>0, <1>2, <2>1, Freed, ControlFinalize, ReleaseWakes
<1>3. CASE InitFails(r) \/ GetPeerErrs(r) \/ Abort(r)
  <2>1. PICK ok \in BOOLEAN, code \in {500, ClientClosed} :
           pc = Loop /\ phase[r] # "again" /\ NginxFinalizes(r, ok, code)
    BY ZenonT(60), <1>0, <1>3 DEF InitFails, GetPeerErrs, Abort, AtLoop
  <2>2. code \in Replies \ {0}
    BY DEF Replies, ClientClosed
  <2>3. OthersKept(r)
    BY <2>1, <2>2, ControlNginxFinalizes
  <2>4. FreePeer(r, FALSE, ok) /\ Released
    BY <2>1 DEF NginxFinalizes, FinishPeer
  <2> QED  BY <1>0, <2>3, <2>4, Freed, ReleaseWakes
<1>4. CASE CleanUpPart(r)
  <2>1. peer' = [peer EXCEPT ![r].connection = None] /\ Released
    BY <1>4 DEF CleanUpPart, DropPlaceholder
  <2>2. peer'[r].connection = None
    BY <2>1, PoolTyped DEF PeerRecords
  <2> QED  BY <1>4, <2>1, <2>2, ControlCleanUp, ReleaseWakes
<1> QED  BY <1>1, <1>2, <1>3, <1>4

LEMMA WakeBegins ==
    ASSUME SafeInv, SafeInv', ControlInv, WakeInv, NEW r \in Requests,
           HandleRequest(r) \/ Connected(r) \/ GetPeerNone(r) \/ GetPeerCached(r)
    PROVE  WakeInv'
<1>1. UNCHANGED <<pg, events, wready>>
  BY DEF HandleRequest, Connected, GetPeerNone, GetPeerCached, ioVars
<1>2. OthersKept(r)
  <2>1. CASE GetPeerCached(r)
    BY <2>1, ControlReuse
  <2>2. CASE ~GetPeerCached(r)
    BY <2>2, ControlHandle, ControlConnected, ControlNew
  <2> QED  BY <2>1, <2>2
<1>3. \A c \in Connections : conn'[c].fd = None => conn[c].fd = None
  <2>1. CASE HandleRequest(r)
    BY <2>1 DEF HandleRequest, InitPeer
  <2>2. CASE Connected(r)
    BY <2>2, ConnectedKeeps
  <2>3. CASE GetPeerCached(r)
    <3>1. \E d : conn' = [conn EXCEPT ![d].idle = FALSE]
      BY <2>3 DEF GetPeerCached, GetPeerSingle, GetPeerMulti, Reuse
    <3> QED  BY <3>1, PoolTyped DEF ConnRecords
  <2>4. CASE GetPeerNone(r)
    <3>1. conn' = conn \/ \E d \in Connections : \E x : conn[d].fd = None /\ conn' = [conn EXCEPT ![d] = x]
      BY <2>4 DEF GetPeerNone, RejectPeer, ConnectNoMemory, ConnectDeclined, ConnectInvalid,
                  ConnectBadAdd, GetConnection
    <3> QED  BY <3>1, PoolTyped
  <2> QED  BY <2>1, <2>2, <2>3, <2>4
<1>4. \A s \in Requests : SameIO(s)
  BY <1>1 DEF SameIO
<1>5. Wakes(r)'
  <2>1. CASE HandleRequest(r)
    <3>1. peer'[r].connection = None
      BY <2>1, PoolTyped DEF HandleRequest, InitPeer, NewPeer
    <3> QED  BY <3>1 DEF Wakes, Talking, HoldsDatabase, Holds
  <2>2. CASE Connected(r)
    <3>1. peer' = peer /\ (HoldsDatabase(r)' => HoldsDatabase(r)) /\ UNCHANGED <<pc, state>>
      BY <2>2, ConnectedKeeps DEF Connected, requestVars
    <3> QED  BY <1>1, <3>1 DEF WakeInv, Wakes, Talking, InFunction
  <2>3. CASE GetPeerNone(r)
    BY <2>3, NoneHeld DEF Wakes, Talking
  <2>4. CASE GetPeerCached(r)
    <3>1. state'[r] = "db_send_query"
      BY <2>4 DEF GetPeerCached, ControlInv, ControlType
    <3> QED  BY <3>1 DEF Wakes
  <2> QED  BY <2>1, <2>2, <2>3, <2>4
<1> QED  BY <1>1, <1>2, <1>3, <1>4, <1>5, EpollSame, OneWakes DEF WakeInv

(* A new connection waits for the answer of the server. *)
LEMMA WakeDials ==
    ASSUME SafeInv, ControlInv, ResultInv, WakeInv, NEW r \in Requests, GetPeerNew(r)
    PROVE  WakeInv'
<1> DEFINE x == [NoPG EXCEPT !.status = "started", !.net = "connecting"]
<1>1. PICK p \in PGconns \ Open, c \in GetConnection \ {None} :
         Leave(r, c, p, "again") /\ conn' = [conn EXCEPT ![c] = [FreeConn EXCEPT !.fd = p]]
  BY DEF GetPeerNew, ConnectPeer
<1>2. /\ state' = [state EXCEPT ![r] = "db_connect"]
      /\ pg' = [pg EXCEPT ![peer'[r].pgconn] = x]
      /\ UNCHANGED <<pc, events, wready>> /\ pc = Loop
      /\ pg \in [PGconns -> PgRecords] /\ EpollInv
  BY DEF GetPeerNew, ResultInv, WakeInv
<1>3. OthersKept(r)
  BY ControlNew
<1>4. peer'[r].pgconn = p /\ peer'[r].connection = c
  BY <1>1, LeaveFacts DEF SafeInv
<1>5. c \in Connections /\ conn[c].fd = None
  BY DEF GetConnection
<1>6. x.status = "started" /\ x.net = "connecting"
  BY DEF NoPG
<1> HIDE DEF x
<1>7. pg'[p] = x /\ \A q \in PGconns : q # p => pg'[q] = pg[q]
  BY <1>2, <1>4
<1>8. Wakes(r)'
  <2>1. ~InFunction(r)' /\ events'[c] = {} /\ c \notin wready'
    BY <1>2, <1>5 DEF InFunction, Loop, EpollInv
  <2>2. Asleep(x, events'[c], c \in wready')
    BY <1>6, <2>1 DEF Asleep
  <2> QED  BY <1>4, <1>7, <2>1, <2>2 DEF Wakes, Wakeful
<1>9. \A s \in Requests \ {r} : HoldsDatabase(s) => SameIO(s)
  <2>1. \A s \in Requests : HoldsDatabase(s) => peer[s].pgconn \in PGconns /\ peer[s].pgconn # p
    BY OwnPGconn DEF Open
  <2> QED  BY <1>2, <1>7, <2>1 DEF SameIO
<1>10. EpollInv'
  <2>1. \A d \in Connections : conn'[d].fd = None => conn[d].fd = None
    BY <1>1, <1>5, PoolTyped
  <2> QED  BY <1>2, <2>1, EpollSame
<1> QED  BY <1>3, <1>8, <1>9, <1>10, OneWakes

(* The state functions: all but the first leave "db_connect" behind. *)
LEMMA WakeProcess ==
    ASSUME SafeInv, ControlInv, ResultInv, WakeInv, NEW r \in Requests,
           Connect(r) \/ SendQuery(r) \/ GetResult(r) \/ GetAck(r)
    PROVE  WakeInv'
<1> DEFINE p == peer[r].pgconn
           c == peer[r].connection
<1>1. PICK ss : Processes(r, ss)
  BY DEF Connect, SendQuery, GetResult, GetAck
<1>2. OthersKept(r)
  BY ControlConnect, ControlSend, ControlResult, ControlAck
<1>3. /\ pc.r = r /\ pc.fn = "process_events" /\ HoldsDatabase(r)
      /\ UNCHANGED <<peer, events, wready>>
      /\ p \in PGconns /\ pg[p] \in PgRecords /\ Says(pg[p], state[r], r)
      /\ pg \in [PGconns -> PgRecords] /\ state \in [Requests -> States]
  BY <1>1, Processing, ProcessSays DEF Processes, ResultInv, ControlInv, ControlType
<1>4. \A q \in PGconns \ {p} : pg'[q] = pg[q]
  <2>1. CASE Connect(r)
    <3>1. \E x : pg' = [pg EXCEPT ![p] = x]
      BY <2>1 DEF Connect
    <3> QED  BY <1>3, <3>1
  <2>2. CASE SendQuery(r)
    <3>1. pg' = pg \/ \E x : pg' = [pg EXCEPT ![p] = x]
      BY <2>2 DEF SendQuery
    <3> QED  BY <1>3, <3>1
  <2>3. CASE GetResult(r)
    <3>1. pg' = pg \/ \E x : pg' = [pg EXCEPT ![p] = x]
      BY <2>3, ZenonT(60) DEF GetResult
    <3> QED  BY <1>3, <3>1
  <2>4. CASE GetAck(r)
    <3>1. pg' = pg \/ \E x : pg' = [pg EXCEPT ![p] = x]
      BY <2>4, ZenonT(60) DEF GetAck
    <3> QED  BY <1>3, <3>1
  <2> QED  BY <2>1, <2>2, <2>3, <2>4
<1>5. \A s \in Requests \ {r} : HoldsDatabase(s) => SameIO(s)
  <2>1. \A s \in Requests \ {r} : HoldsDatabase(s) => peer[s].pgconn \in PGconns \ {p}
    BY <1>3, OwnPGconn
  <2> QED  BY <1>3, <1>4, <2>1 DEF SameIO
<1>6. EpollInv'
  <2>1. \A d \in Connections : conn'[d].fd = conn[d].fd
    <3> DEFINE Timers == conn' = conn \/ \E ts : conn' = [conn EXCEPT ![c].timers = ts]
    <3>1. Connect(r) => Timers
      BY DEF Connect, WithTimers
    <3>2. SendQuery(r) => Timers
      BY DEF SendQuery, WithTimers
    <3>3. GetResult(r) => Timers
      BY DEF GetResult, WithTimers
    <3>4. GetAck(r) => Timers
      BY ZenonT(60) DEF GetAck, WithTimers
    <3>5. Timers
      BY <3>1, <3>2, <3>3, <3>4
    <3>6. conn \in [Connections -> ConnRecords]
      BY PoolTyped
    <3>7. ASSUME NEW ts, conn' = [conn EXCEPT ![c].timers = ts], NEW d \in Connections
          PROVE  conn'[d].fd = conn[d].fd
      <4>1. [conn[d] EXCEPT !.timers = ts].fd = conn[d].fd
        BY <3>6 DEF ConnRecords
      <4> QED  BY <3>6, <3>7, <4>1
    <3> QED  BY <3>5, <3>7
  <2> QED  BY <1>3, <2>1, EpollSame DEF WakeInv
<1>7. Wakes(r)'
  <2>1. CASE Connect(r)
    <3> DEFINE x == Repoll(pg[p], c)
    <3>1. /\ state[r] = "db_connect" /\ pg' = [pg EXCEPT ![p] = x]
          /\ \/ x.status \notin {"ok", "bad"} /\ pc' = Loop
             \/ x.status = "bad" /\ pc' = Run("next", r, FT_ERROR)
             \/ x.status = "ok" /\ state' = [state EXCEPT ![r] = "db_send_query"]
      BY <2>1 DEF Connect, Processes, Returns, Fails, Runs
    <3>2. Dialling(pg[p]) /\ Called(pg[p], events[c], c \in wready)
      BY <1>3, <3>1 DEF Says, WakeInv, Wakes, Wakeful, Talking, InFunction
    <3>3. x.status \notin {"ok", "bad"} => Asleep(x, events[c], c \in wready)
      BY <1>3, <3>2, RepollSleeps
    <3> HIDE DEF x
    <3>4. pg'[p] = x
      BY <1>3, <3>1
    <3>5. CASE x.status \notin {"ok", "bad"} /\ pc' = Loop
      <4>1. ~InFunction(r)'
        BY <3>5 DEF InFunction, Loop
      <4> QED  BY <1>3, <3>3, <3>4, <3>5, <4>1 DEF Wakes, Wakeful
    <3>6. CASE pc' = Run("next", r, FT_ERROR) \/ state' = [state EXCEPT ![r] = "db_send_query"]
      <4>1. (InFunction(r)' /\ pc'.fn = "next") \/ state'[r] = "db_send_query"
        BY <1>3, <3>6 DEF InFunction, Run
      <4> QED  BY <3>1, <1>3, <4>1 DEF Wakes, Talking
    <3> QED  BY <3>1, <3>5, <3>6
  <2>2. CASE SendQuery(r) \/ GetResult(r) \/ GetAck(r)
    <3> DEFINE Beyond == \/ state' = state
                         \/ state' = [state EXCEPT ![r] = "db_get_result"]
                         \/ state' = [state EXCEPT ![r] = "db_get_ack"]
                         \/ state' = [state EXCEPT ![r] = "db_idle"]
    <3>1. state[r] # "db_connect"
      BY <2>2 DEF SendQuery, GetResult, GetAck, Processes
    <3>2. SendQuery(r) => Beyond
      BY DEF SendQuery
    <3>3. GetResult(r) => Beyond
      BY ZenonT(60) DEF GetResult, ProcessResponse
    <3>4. GetAck(r) => Beyond
      BY ZenonT(60) DEF GetAck
    <3>5. state'[r] # "db_connect"
      BY <1>3, <2>2, <3>1, <3>2, <3>3, <3>4
    <3> QED  BY <3>5 DEF Wakes
  <2> QED  BY <2>1, <2>2
<1> QED  BY SMTT(40), <1>2, <1>5, <1>6, <1>7, OneWakes

LEMMA WakeEvent ==
    ASSUME SafeInv, ControlInv, ResultInv, WakeInv, NEW c \in Connections,
           (\E e \in {"read", "write"} : Deliver(c, e)) \/ (\E t \in {"read", "write"} : TimerExpires(c, t))
    PROVE  WakeInv'
<1> DEFINE x == pg[conn[c].fd]
<1>0. AtLoop /\ (conn[c].handler = "upstream" \/ conn[c].timers # {})
  BY DEF Deliver, TimerExpires
<1>1. PICK r \in Requests : /\ r = conn[c].data /\ peer[r].connection = c /\ HoldsDatabase(r)
                            /\ conn[c].fd = peer[r].pgconn /\ conn[c].fd # None
                            /\ pc = Loop
  <2>1. /\ conn[c].data \in Requests /\ peer[conn[c].data].connection = c
        /\ Attentive(conn[c].data)
    BY <1>0, InHands
  <2> QED  BY <1>0, <2>1 DEF Attentive, AtLoop, SafeInv, PeerInv, HoldsDatabase
<1>2. OthersKept(r)
  <2>1. PICK s \in Requests : OthersKept(s)
    BY ControlEvent
  <2>2. \E fn \in {"process_events", "next"} : \E a : pc' = Run(fn, r, a)
    BY <1>1 DEF Deliver, TimerExpires, Fails, Runs
  <2>3. pc'.r = r /\ pc'.fn # "loop"
    BY <2>2 DEF Run
  <2> QED  BY <2>1, <2>3 DEF OthersKept
<1>3. ~InFunction(r) /\ UNCHANGED <<pg, peer, state>>
  BY <1>1 DEF InFunction, Loop, Deliver, TimerExpires, keepaliveVars, requestVars, ioVars
<1>4. \A s \in Requests \ {r} : HoldsDatabase(s) => peer[s].connection # c
  BY <1>1 DEF SafeInv, ExclusiveUse, HoldsDatabase
<1>5. ASSUME NEW t, TimerExpires(c, t)  PROVE WakeInv'
  <2>1. /\ UNCHANGED <<events, wready>> /\ pc' = Run("next", r, FT_TIMEOUT)
        /\ conn' = [conn EXCEPT ![c].timers = conn[c].timers \ {t}]
    BY <1>1, <1>5 DEF TimerExpires, WithTimers, Runs, ioVars
  <2>2. Wakes(r)'
    BY <2>1 DEF Wakes, Talking, InFunction, Run
  <2>3. \A d \in Connections : conn'[d].fd = conn[d].fd
    BY <2>1, PoolTyped DEF ConnRecords
  <2>4. EpollInv' /\ \A s \in Requests : SameIO(s)
    BY <1>3, <2>1, <2>3, EpollSame DEF SameIO, WakeInv
  <2> QED  BY <1>1, <1>2, <2>2, <2>4, OneWakes
<1>6. ASSUME NEW e \in {"read", "write"}, Deliver(c, e)  PROVE WakeInv'
  <2>1. /\ e \in events[c] /\ events' = [events EXCEPT ![c] = events[c] \ {e}]
        /\ wready' = IF e = "write" THEN wready \cup {c} ELSE wready
        /\ conn' = conn
        /\ \/ pc' = Run("next", r, FT_ERROR)
           \/ x.net # "refused" /\ pc' = Run("process_events", r, 0)
    BY <1>1, <1>6 DEF Deliver, Fails, Runs, keepaliveVars
  <2>2. EpollInv
    BY DEF WakeInv
  <2>3. EpollInv'
    BY <1>1, <2>1, <2>2 DEF EpollInv
  <2>4. \A s \in Requests \ {r} : HoldsDatabase(s) => SameIO(s)
    <3>1. ASSUME NEW s \in Requests \ {r}, HoldsDatabase(s)  PROVE SameIO(s)
      <4>1. peer[s].connection \in Connections \ {c}
        BY <1>4, <3>1, Typed DEF SafeInv, HoldsDatabase, Holds
      <4> QED  BY <1>3, <2>1, <2>2, <4>1 DEF SameIO, EpollInv
    <3> QED  BY <3>1
  <2>5. Wakes(r)'
    <3>1. CASE pc' = Run("next", r, FT_ERROR)
      BY <3>1 DEF Wakes, Talking, InFunction, Run
    <3>2. CASE x.net # "refused" /\ pc' = Run("process_events", r, 0) /\ state[r] = "db_connect"
      <4>1. Talking(r)
        BY <1>1, <1>3 DEF Talking
      <4>2. Asleep(x, events[c], c \in wready)
        BY <1>1, <1>3, <3>2, <4>1 DEF WakeInv, Wakes, Wakeful
      <4>3. x \in PgRecords
        BY <1>1, OwnPGconn DEF ResultInv
      <4>4. x.net \in {"none", "connecting", "up", "refused", "gone", "resetting"}
        BY <4>3 DEF PgRecords
      <4>5. x.status \in {"started", "made"} => "write" \in events[c]
        BY <2>1, <4>2 DEF Asleep
      <4>6. "write" \in events[c] => "write" \in events'[c] \/ c \in wready'
        BY <2>1, <2>2 DEF EpollInv
      <4>7. Called(x, events'[c], c \in wready')
        BY <2>1, <3>2, <4>2, <4>4, <4>5, <4>6 DEF Called, Asleep
      <4>8. InFunction(r)'
        BY <2>1, <3>2 DEF InFunction, Run
      <4>9. peer'[r].connection = c /\ pg'[peer'[r].pgconn] = x
        BY <1>1, <1>3
      <4> HIDE DEF x
      <4> QED  BY <4>7, <4>8, <4>9 DEF Wakes, Wakeful
    <3>3. CASE state[r] # "db_connect"
      BY <1>3, <3>3 DEF Wakes
    <3> QED  BY <2>1, <3>1, <3>2, <3>3
  <2> QED  BY <1>1, <1>2, <2>3, <2>4, <2>5, OneWakes
<1> QED  BY <1>5, <1>6

(* A step of no request, between two events. *)
LEMMA NoneWakes ==
    ASSUME WakeInv, pc = Loop, UNCHANGED <<pc, peer, state>>,
           \A s \in Requests : Holds(s) => conn'[peer[s].connection] = conn[peer[s].connection],
           EpollInv', \A s \in Requests : HoldsDatabase(s) => SameIO(s)
    PROVE  WakeInv'
<1>1. \A s \in Requests : Wakes(s)'
  BY OtherWakes DEF InFunction, Loop, WakeInv
<1> QED  BY <1>1 DEF WakeInv

LEMMA WakeIdle ==
    ASSUME SafeInv, SafeInv', ControlInv, ResultInv, WakeInv,
           Exit \/ \E c \in Connections : CloseIdle(c) \/ IdleReadable(c) \/ IdleWritable(c)
    PROVE  WakeInv'
<1>0. pc = Loop /\ UNCHANGED <<pc, peer, state>> /\ EventLoop
  BY DEF Exit, CloseIdle, IdleReadable, IdleWritable, AtLoop, CloseHandler, Cleanup,
         keepaliveVars, poolVars, requestVars
<1>1. \A s \in Requests : Holds(s) => conn'[peer[s].connection] = conn[peer[s].connection]
  BY ControlIdle
<1>2. EpollInv /\ pg \in [PGconns -> PgRecords] /\ ConnInv /\ ItemInv /\ ExclusiveUse
  BY DEF WakeInv, ResultInv, SafeInv
<1>3. CASE Released
  <2>1. \A s \in Requests : HoldsDatabase(s) => HoldsDatabase(s)' /\ peer'[s] = peer[s]
    BY <1>0, <1>1 DEF HoldsDatabase, Holds
  <2>2. EpollInv' /\ \A s \in Requests : HoldsDatabase(s) => SameIO(s)
    BY <1>2, <1>3, <2>1, ReleasedWakes
  <2> QED  BY <1>0, <1>1, <2>2, NoneWakes
<1>4. ASSUME NEW c \in Connections, conn[c].handler = "keepalive", conn' = conn,
             NEW e, events' = [events EXCEPT ![c] = events[c] \ {e}],
             wready' \in {wready, wready \cup {c}},
             \A q \in PGconns : q # conn[c].fd => pg'[q] = pg[q]
      PROVE  WakeInv'
  <2>1. PICK i \in Cached : item[i].connection = c /\ item[i].pgconn = conn[c].fd
    <3>1. conn[c].idle
      BY <1>0, <1>2, <1>4 DEF ConnInv, EventLoop
    <3> QED  BY <1>2, <3>1 DEF ConnInv, ItemInv
  <2>2. EpollInv'
    BY <1>2, <1>4 DEF EpollInv, ConnInv
  <2>3. ASSUME NEW s \in Requests, HoldsDatabase(s)  PROVE SameIO(s)
    <3>1. /\ peer[s].connection \in Connections /\ peer[s].connection # c
          /\ peer[s].pgconn \in PGconns /\ peer[s].pgconn # conn[c].fd
      BY <1>2, <2>1, <2>3, OwnPGconn, Typed DEF SafeInv, ExclusiveUse, HoldsDatabase, Holds
    <3> QED  BY <1>2, <1>4, <3>1 DEF SameIO, EpollInv
  <2> QED  BY <1>0, <1>1, <2>2, <2>3, NoneWakes
<1>5. ASSUME NEW c \in Connections, IdleWritable(c)  PROVE WakeInv'
  BY <1>4, <1>5 DEF IdleWritable, keepaliveVars
<1>6. ASSUME NEW c \in Connections, IdleReadable(c), ~Released  PROVE WakeInv'
  <2>1. /\ conn[c].handler = "keepalive" /\ conn' = conn /\ wready' = wready
        /\ events' = [events EXCEPT ![c] = events[c] \ {"read"}]
        /\ \E y : pg' = [pg EXCEPT ![conn[c].fd] = y]
    BY <1>6, ZenonT(60) DEF IdleReadable, keepaliveVars
  <2> QED  BY <1>2, <1>4, <2>1
<1> QED  BY <1>3, <1>5, <1>6 DEF Exit, CloseIdle

LEMMA ConnOfOpen ==
    ASSUME SafeInv, NEW p \in Open
    PROVE  p \in PGconns /\ ConnOf(p) \in Connections /\ conn[ConnOf(p)].fd = p /\ p # None
<1>1. \E c \in Connections : conn[c].fd = p
  BY DEF Open, SafeInv, ConnInv
<1> QED  BY <1>1, NullAssumption DEF ConnOf, Open

LEMMA WakeNetwork ==
    ASSUME SafeInv, ResultInv, WakeInv, NEW p \in PGconns, Network(p)
    PROVE  WakeInv'
<1> DEFINE d == ConnOf(p)
<1>1. /\ UNCHANGED <<conn, peer, pc, state, wready>> /\ p \in Open
      /\ pg \in [PGconns -> PgRecords] /\ EpollInv
  BY DEF Network, Outside, Accept, Refuse, ServerSends, PartArrives, ServerNotes,
         ServerCloses, ResetArrives, keepaliveVars, requestVars, ResultInv, WakeInv
<1>2. d \in Connections /\ conn[d].fd = p /\ p # None
  BY <1>1, ConnOfOpen
<1>3. PICK y, fs : /\ pg' = [pg EXCEPT ![p] = y]
                   /\ events' = [events EXCEPT ![d] = fs]
                   /\ fs \subseteq {"read", "write"}
                   /\ Moves(pg[p], y, events[d], fs)
  BY <1>1, <1>2, NetworkMoves DEF MovesAlong, EpollInv
<1> HIDE DEF d
<1>4. EpollInv'
  BY <1>1, <1>2, <1>3 DEF EpollInv
<1>5. ASSUME NEW r \in Requests  PROVE Wakes(r)'
  <2> DEFINE c == peer[r].connection
  <2> SUFFICES ASSUME Talking(r), state[r] = "db_connect"
               PROVE  Wakeful(pg'[peer[r].pgconn], events'[c], c \in wready, InFunction(r))
    BY <1>1 DEF Wakes, Talking, HoldsDatabase, Holds, InFunction
  <2>1. Wakeful(pg[peer[r].pgconn], events[c], c \in wready, InFunction(r))
    BY DEF WakeInv, Wakes
  <2>2. c \in Connections /\ conn[c].fd = peer[r].pgconn /\ peer[r].pgconn \in PGconns
    BY OwnPGconn, Typed DEF Talking, SafeInv, PeerInv, HoldsDatabase, Holds
  <2>3. CASE peer[r].pgconn = p
    <3>1. c = d
      BY <1>2, <2>2, <2>3 DEF SafeInv, ConnInv
    <3>2. pg'[peer[r].pgconn] = y /\ events'[c] = fs
      BY <1>1, <1>2, <1>3, <2>3, <3>1 DEF EpollInv
    <3> QED  BY <1>3, <2>1, <2>3, <3>1, <3>2, MovesWake
  <2>4. CASE peer[r].pgconn # p
    <3>1. pg'[peer[r].pgconn] = pg[peer[r].pgconn] /\ events'[c] = events[c]
      BY <1>1, <1>2, <1>3, <2>2, <2>4 DEF EpollInv
    <3> QED  BY <2>1, <3>1
  <2> QED  BY <2>3, <2>4
<1> QED  BY <1>4, <1>5 DEF WakeInv

LEMMA WakeSame == WakeInv /\ UNCHANGED workerVars => WakeInv'
<1> SUFFICES ASSUME WakeInv, UNCHANGED workerVars  PROVE WakeInv'
  OBVIOUS
<1>1. UNCHANGED <<conn, peer, pc, state, pg, events, wready>>
  BY DEF workerVars, keepaliveVars, requestVars, ioVars
<1>2. EpollInv'
  BY <1>1 DEF WakeInv, EpollInv
<1>3. \A r \in Requests : Wakes(r)'
  BY <1>1 DEF WakeInv, Wakes, Talking, HoldsDatabase, Holds, InFunction
<1> QED  BY <1>2, <1>3 DEF WakeInv

LEMMA WakeInit == WorkerInit => WakeInv
<1> SUFFICES ASSUME WorkerInit  PROVE WakeInv
  OBVIOUS
<1>1. EpollInv
  BY DEF WorkerInit, EpollInv
<1>2. \A r \in Requests : ~Holds(r)
  BY DEF WorkerInit, Init, Holds, NewPeer
<1> QED  BY <1>1, <1>2 DEF WakeInv, Wakes, Talking, HoldsDatabase

LEMMA WakeStep ==
    ASSUME SafeInv, SafeInv', ControlInv, ResultInv, WakeInv, [WorkerNext]_workerVars
    PROVE  WakeInv'
<1>1. ASSUME NEW r \in Requests, HandleRequest(r) \/ Serve(r) \/ Abort(r)
      PROVE  WakeInv'
  <2>1. CASE HandleRequest(r) \/ Connected(r) \/ GetPeerNone(r) \/ GetPeerCached(r)
    BY <2>1, WakeBegins
  <2>2. CASE GetPeerNew(r)
    BY <2>2, WakeDials
  <2>3. CASE Connect(r) \/ SendQuery(r) \/ GetResult(r) \/ GetAck(r)
    BY <2>3, WakeProcess
  <2>4. CASE \/ Declined(r) \/ UpstreamNext(r) \/ FinalizeRequest(r)
             \/ InitFails(r) \/ GetPeerErrs(r) \/ Abort(r) \/ CleanUpPart(r)
    BY <2>4, WakeEnds
  <2> QED  BY <1>1, <2>1, <2>2, <2>3, <2>4 DEF Serve
<1>2. CASE \E c \in Connections : OnConnection(c)
  BY <1>2, WakeEvent, WakeIdle DEF OnConnection
<1>3. CASE \E p \in PGconns : Network(p)
  BY <1>3, WakeNetwork
<1>4. CASE Exit
  BY <1>4, WakeIdle
<1>5. CASE UNCHANGED workerVars
  BY <1>5, WakeSame
<1> QED  BY <1>1, <1>2, <1>3, <1>4, <1>5 DEF WorkerNext

(* What is left of the type of pc. *)
PcInv ==
    /\ pc.fn = "loop" => pc = Loop
    /\ pc.fn = "process_events" => pc.arg = 0

LEMMA PcStep ==
    ASSUME PcInv, [WorkerNext]_workerVars
    PROVE  PcInv'
<1> DEFINE Goes == \/ pc' = pc \/ pc' = Loop
                   \/ \E r : pc' = Run("process_events", r, 0)
                   \/ \E fn \in {"next", "finalize"} : \E r, a : pc' = Run(fn, r, a)
<1>1. ASSUME NEW r \in Requests, HandleRequest(r) \/ Serve(r) \/ Abort(r)
      PROVE  Goes
  <2>1. CASE \/ HandleRequest(r) \/ GetPeerCached(r) \/ GetPeerNew(r) \/ GetPeerNone(r)
             \/ Connected(r) \/ Declined(r) \/ CleanUpPart(r) \/ Connect(r) \/ SendQuery(r)
    BY <2>1 DEF HandleRequest, GetPeerCached, GetPeerNew, GetPeerNone, Connected, Declined,
                CleanUpPart, Connect, SendQuery, Returns, Fails, Runs
  <2>2. CASE \/ InitFails(r) \/ GetPeerErrs(r) \/ Abort(r) \/ UpstreamNext(r) \/ FinalizeRequest(r)
    BY <2>2 DEF InitFails, GetPeerErrs, Abort, NginxFinalizes, UpstreamNext, FinalizeRequest,
                Returns, Runs
  <2>3. CASE GetResult(r)
    <3>1. pc' = pc \/ pc' = Loop \/ \E fn \in {"next", "finalize"} : \E a : pc' = Run(fn, r, a)
      BY <2>3, ZenonT(60) DEF GetResult, ProcessResponse, Returns, Fails, Runs
    <3> QED  BY <3>1
  <2>4. CASE GetAck(r)
    <3>1. pc' = pc \/ pc' = Loop \/ \E fn \in {"next", "finalize"} : \E a : pc' = Run(fn, r, a)
      BY <2>4, ZenonT(60) DEF GetAck, Returns, Fails, Runs
    <3> QED  BY <3>1
  <2> QED  BY <1>1, <2>1, <2>2, <2>3, <2>4 DEF Serve
<1>2. ASSUME NEW c \in Connections, OnConnection(c)  PROVE Goes
  <2>1. ASSUME NEW e, Deliver(c, e)  PROVE Goes
    BY <2>1 DEF Deliver, Fails, Runs
  <2>2. ASSUME NEW t, TimerExpires(c, t)  PROVE Goes
    BY <2>2 DEF TimerExpires, Runs
  <2>3. CASE IdleReadable(c) \/ IdleWritable(c) \/ CloseIdle(c)
    BY <2>3 DEF IdleReadable, IdleWritable, CloseIdle
  <2> QED  BY <1>2, <2>1, <2>2, <2>3 DEF OnConnection
<1>3. ASSUME NEW p \in PGconns, Network(p)  PROVE Goes
  <2>1. UNCHANGED pc
    BY <1>3 DEF Network, Outside, Accept, Refuse, ServerSends, PartArrives, ServerNotes,
                ServerCloses, ResetArrives
  <2> QED  BY <2>1
<1>4. Exit \/ UNCHANGED workerVars => Goes
  BY DEF Exit, workerVars
<1>5. Goes
  BY <1>1, <1>2, <1>3, <1>4 DEF WorkerNext
<1> QED  BY <1>5 DEF PcInv, Loop, Run

LEMMA WakeAlways ==
    ASSUME "ngx_add_event" \notin MayFail
    PROVE  WorkerSafety => [](WakeInv /\ PcInv)
<1>1. WorkerInit => WakeInv /\ PcInv
  BY WakeInit DEF WorkerInit, PcInv, Loop
<1>2. /\ SafeInv /\ SafeInv' /\ ControlInv /\ ResultInv /\ WakeInv /\ PcInv
      /\ [WorkerNext]_workerVars
      => WakeInv' /\ PcInv'
  BY WakeStep, PcStep
<1> QED  BY <1>1, <1>2, ControlAlways, ResultAlways, PTL DEF WorkerSafety

(* While a request connects, in any state of the handshake and for any       *)
(* number of requests, the event its next step needs has not been delivered *)
(* yet: ngx_postgres_upstream_connect polls a second time exactly when it    *)
(* has to.                                                                  *)
THEOREM ConnectsWakeUp ==
    ASSUME "ngx_add_event" \notin MayFail
    PROVE  WorkerSafety => []ConnectWakesUp
<1>1. SafeInv /\ ControlInv /\ ResultInv /\ WakeInv => ConnectWakesUp
  <2> SUFFICES ASSUME SafeInv, ControlInv, ResultInv, WakeInv, AtLoop,
                      NEW r \in Requests, phase[r] = "active", state[r] = "db_connect"
               PROVE  LET c == peer[r].connection
                          x == pg[peer[r].pgconn]
                      IN  CASE x.status = "started" -> x.net = "connecting" \/ "write" \in events[c]
                            [] x.status = "made" -> "write" \in events[c]
                            [] OTHER -> x.net = "resetting" \/ "read" \in events[c]
                                        \/ (x.net = "up" /\ x.in = <<>>)
    BY DEF ConnectWakesUp
  <2>1. ~InFunction(r) /\ HoldsDatabase(r)
    BY DEF AtLoop, InFunction, Loop, ControlInv, Waiting, Attentive
  <2>2. Talking(r)
    BY <2>1 DEF Talking
  <2>3. Dialling(pg[peer[r].pgconn])
    BY <2>2 DEF ResultInv, Speaks, Says
  <2>4. Asleep(pg[peer[r].pgconn], events[peer[r].connection], peer[r].connection \in wready)
    BY <2>1, <2>2 DEF WakeInv, Wakes, Wakeful
  <2> QED  BY <2>3, <2>4 DEF Dialling, Asleep
<1> QED  BY <1>1, ControlAlways, ResultAlways, WakeAlways, PTL

(* Every variable of the worker, libpq and the servers keeps its type. *)
THEOREM WorkerTypeCorrect ==
    ASSUME "ngx_add_event" \notin MayFail
    PROVE  WorkerSafety => []WorkerTypeOK
<1>1. ControlInv /\ ResultInv /\ WakeInv /\ PcInv => WorkerTypeOK
  <2> SUFFICES ASSUME ControlInv, ResultInv, WakeInv, PcInv  PROVE WorkerTypeOK
    OBVIOUS
  <2>1. ControlType /\ EpollInv
    BY DEF ControlInv, WakeInv
  <2>2. pc = Run(pc.fn, pc.r, pc.arg)
    BY <2>1 DEF ControlType, Run
  <2>3. pc \in {Loop}
             \cup {Run("process_events", r, 0) : r \in Requests}
             \cup {Run("next", r, ft) : r \in Requests, ft \in FailTypes}
             \cup {Run("finalize", r, rc) : r \in Requests, rc \in Replies \ {0}}
    BY <2>1, <2>2 DEF ControlType, PcInv
  <2>4. \A p \in PGconns :
          /\ pg[p].status \in {"closed", "started", "made", "awaiting", "ok", "bad"}
          /\ pg[p].async \in {"idle", "busy", "ready"}
          /\ pg[p].net \in {"none", "connecting", "up", "refused", "gone", "resetting"}
          /\ {pg[p].inbuf, pg[p].in, pg[p].todo} \subseteq Seq(Messages)
    BY DEF ResultInv, PgRecords
  <2> QED  BY <2>1, <2>3, <2>4 DEF WorkerTypeOK, ControlType, ResultInv, EpollInv
<1> QED  BY <1>1, ControlAlways, ResultAlways, WakeAlways, PTL

=============================================================================
