--------------------------- MODULE LocationProofs ---------------------------
(***************************************************************************)
(* For every configuration and any number of directives, methods, requests *)
(* and results: no table is ambiguous (ConfInv), what the tables say is    *)
(* what the file says, of queries (QueryInv) and of rewrites (RewritesInv),*)
(* and what a request is answered comes from its result and from the file  *)
(* (LocInv).                                                               *)
(***************************************************************************)
EXTENDS Location, DataInduction

(* The types of the tables. *)
QueryTables == Table(Levels \X Nat)
RewriteTables == Table(Targets)

(* The directives of the file. *)
Directives ==
    [kind : {"query"}, methods : SUBSET Methods, value : Levels \X Nat]
    \cup [kind : {"rewrite"}, methods : SUBSET Methods, value : Targets,
          condition : Conditions]
    \cup [kind : {"output"}, value : Formats]
    \cup [kind : {"set"}, value : [at : Positions, required : BOOLEAN]]

(* What is known of one ngx_postgres_loc_conf_t.  Unambiguous needs the     *)
(* types: Append must meet a sequence.                                      *)
GoodQuery(t) == t \in QueryTables /\ Unambiguous(t)
GoodRewrites(rs) ==
    /\ rs \in Seq([condition : Conditions, table : RewriteTables])
    /\ \A k \in DOMAIN rs : Unambiguous(rs[k].table)

ConfInv ==
    /\ given \in [Levels -> Seq(Directives)]
    /\ DOMAIN conf = Levels
    /\ \A l \in Levels : DOMAIN conf[l] = {"query", "rewrites", "output", "variables"}
    /\ \A l \in Levels : GoodQuery(conf[l].query)
    /\ \A l \in Levels : conf[l].rewrites = Unset \/ GoodRewrites(conf[l].rewrites)
-----------------------------------------------------------------------------
(* A new table is not ambiguous. *)
LEMMA NewTableGood ==
    ASSUME NEW V
    PROVE  NewTable \in Table(V) /\ Unambiguous(NewTable)
BY DEF NewTable, Table, Unambiguous

(* Nor is a list without rewrites. *)
LEMMA NoRewritesGood == GoodRewrites(<<>>)
<1>1. ASSUME NEW S  PROVE <<>> \in Seq(S)  OBVIOUS
<1>2. DOMAIN <<>> = {}  OBVIOUS
<1> QED  BY <1>1, <1>2 DEF GoodRewrites

(* A directive that is no duplicate keeps its table unambiguous: the        *)
(* methods it adds were in no entry before.                                 *)
LEMMA InsertGood ==
    ASSUME NEW V, NEW t \in Table(V), NEW ms \in SUBSET Methods, NEW v \in V,
           Unambiguous(t), ~Duplicate(t, ms)
    PROVE  Insert(t, ms, v) \in Table(V) /\ Unambiguous(Insert(t, ms, v))
<1>1. CASE ms = {}
  <2>1. Insert(t, ms, v) = [t EXCEPT !.def = v]  BY <1>1 DEF Insert
  <2> QED  BY <2>1 DEF Table, Unambiguous
<1>2. CASE ms # {}
  <2> DEFINE e == [key |-> ms, value |-> v]
             n == Len(t.methods)
             u == Insert(t, ms, v)
  <2>1. /\ u.methods_set = t.methods_set \cup ms
        /\ u.methods = Append(t.methods, e)
        /\ u.def = t.def
        /\ u \in Table(V)
    <3>1. u = [t EXCEPT !.methods_set = t.methods_set \cup ms,
                        !.methods = Append(t.methods, e)]
      BY <1>2 DEF Insert
    <3>2. /\ t.methods \in Seq([key : SUBSET Methods, value : V])
          /\ e \in [key : SUBSET Methods, value : V]
          /\ t.methods_set \cup ms \in SUBSET Methods
      BY DEF Table
    <3>3. Append(t.methods, e) \in Seq([key : SUBSET Methods, value : V])  BY <3>2
    <3> HIDE DEF e, u
    <3>4. u \in Table(V)  BY <3>1, <3>2, <3>3 DEF Table
    <3>5. /\ u.methods_set = t.methods_set \cup ms
          /\ u.methods = Append(t.methods, e)
          /\ u.def = t.def
      BY <3>1 DEF Table
    <3> QED  BY <3>4, <3>5 DEF e, u
  <2>2. t.methods_set \cap ms = {}  BY <1>2 DEF Duplicate
  <2>3. t.methods \in Seq([key : SUBSET Methods, value : V]) /\ n \in Nat
    BY DEF Table
  <2>4. /\ DOMAIN u.methods = 1..(n + 1) /\ DOMAIN t.methods = 1..n
        /\ u.methods[n + 1] = e
        /\ \A k \in 1..n : u.methods[k] = t.methods[k]
    BY <2>1, <2>3
  <2> HIDE DEF n, u
  <2>5. \A k \in 1..n : t.methods[k].key \subseteq t.methods_set
    BY <2>4 DEF Unambiguous
  <2>6. \A k \in 1..n : u.methods[k].key \cap u.methods[n + 1].key = {}
    BY <2>2, <2>4, <2>5
  <2>7. ASSUME NEW j \in DOMAIN u.methods, NEW k \in DOMAIN u.methods, j # k
        PROVE  u.methods[j].key \cap u.methods[k].key = {}
    <3>1. CASE j \in 1..n /\ k \in 1..n  BY <3>1, <2>4, <2>7 DEF Unambiguous
    <3>2. CASE j = n + 1  BY <3>2, <2>3, <2>4, <2>6, <2>7
    <3>3. CASE k = n + 1  BY <3>3, <2>3, <2>4, <2>6, <2>7
    <3> QED  BY <3>1, <3>2, <3>3, <2>3, <2>4
  <2>8. u.methods_set = UNION {u.methods[k].key : k \in DOMAIN u.methods}
    <3>1. t.methods_set = UNION {t.methods[k].key : k \in 1..n}
      BY <2>4 DEF Unambiguous
    <3>2. UNION {u.methods[k].key : k \in 1..(n + 1)}
            = (UNION {u.methods[k].key : k \in 1..n}) \cup u.methods[n + 1].key
      BY <2>3
    <3>3. {u.methods[k].key : k \in 1..n} = {t.methods[k].key : k \in 1..n}
      BY <2>4
    <3>4. u.methods[n + 1].key = ms  BY <2>4
    <3>5. u.methods_set = (UNION {u.methods[k].key : k \in 1..n}) \cup u.methods[n + 1].key
      BY <2>1, <3>1, <3>3, <3>4
    <3> QED  BY <2>4, <3>2, <3>5
  <2>9. Unambiguous(u)  BY <2>7, <2>8 DEF Unambiguous
  <2> QED  BY <2>1, <2>9 DEF u
<1> QED  BY <1>1, <1>2

(* A rewrite that is no duplicate keeps every table of the list             *)
(* unambiguous, whether its condition is new or not.                        *)
LEMMA RewriteGood ==
    ASSUME NEW rs, GoodRewrites(rs), NEW at \in DOMAIN rs,
           NEW ms \in SUBSET Methods, NEW to \in Targets, ~Duplicate(rs[at].table, ms)
    PROVE  GoodRewrites([rs EXCEPT ![at].table = Insert(@, ms, to)])
<1> DEFINE new == [rs EXCEPT ![at].table = Insert(@, ms, to)]
           R == [condition : Conditions, table : RewriteTables]
<1>1. rs \in Seq(R) /\ rs[at] \in R /\ rs[at].table \in RewriteTables
      /\ Unambiguous(rs[at].table)
  <2>1. rs \in Seq(R)  BY DEF GoodRewrites
  <2> HIDE DEF R
  <2>2. rs[at] \in R  BY <2>1
  <2>3. rs[at].table \in RewriteTables  BY <2>2 DEF R
  <2> QED  BY <2>1, <2>2, <2>3 DEF GoodRewrites
<1>2. Insert(rs[at].table, ms, to) \in RewriteTables
      /\ Unambiguous(Insert(rs[at].table, ms, to))
  BY <1>1, InsertGood DEF RewriteTables
<1>3. [rs[at] EXCEPT !.table = Insert(@, ms, to)] \in R  BY <1>1, <1>2
<1>4. /\ DOMAIN new = DOMAIN rs
      /\ new[at] = [rs[at] EXCEPT !.table = Insert(@, ms, to)]
      /\ new[at].table = Insert(rs[at].table, ms, to)
      /\ \A k \in DOMAIN rs : k # at => new[k] = rs[k]
  BY <1>1
<1>5. new \in Seq(R)  BY <1>1, <1>3
<1>6. ASSUME NEW k \in DOMAIN new  PROVE Unambiguous(new[k].table)
  <2>1. CASE k = at  BY <2>1, <1>2, <1>4
  <2>2. CASE k # at  BY <2>2, <1>4 DEF GoodRewrites
  <2> QED  BY <2>1, <2>2
<1> QED  BY <1>5, <1>6 DEF GoodRewrites

(* A condition that comes first gets an empty table at the end.             *)
LEMMA GrownGood ==
    ASSUME NEW rs, GoodRewrites(rs), NEW what \in Conditions
    PROVE  LET grown == Append(rs, [condition |-> what, table |-> NewTable])
           IN  /\ GoodRewrites(grown)
               /\ \E k \in DOMAIN grown : grown[k].condition = what
<1> DEFINE R == [condition : Conditions, table : RewriteTables]
           e == [condition |-> what, table |-> NewTable]
           grown == Append(rs, e)
<1>1. e \in R /\ Unambiguous(e.table)  BY NewTableGood DEF RewriteTables
<1>2. rs \in Seq(R) /\ Len(rs) \in Nat  BY DEF GoodRewrites
<1>3. /\ grown \in Seq(R)
      /\ DOMAIN grown = 1..(Len(rs) + 1) /\ DOMAIN rs = 1..Len(rs)
      /\ grown[Len(rs) + 1] = e
      /\ \A k \in 1..Len(rs) : grown[k] = rs[k]
  BY <1>1, <1>2
<1>4. ASSUME NEW k \in DOMAIN grown  PROVE Unambiguous(grown[k].table)
  <2>1. CASE k = Len(rs) + 1  BY <2>1, <1>1, <1>3
  <2>2. CASE k \in 1..Len(rs)  BY <2>2, <1>3 DEF GoodRewrites
  <2> QED  BY <2>1, <2>2, <1>2, <1>3
<1>5. grown[Len(rs) + 1].condition = what /\ Len(rs) + 1 \in DOMAIN grown
  BY <1>2, <1>3
<1> QED  BY <1>3, <1>4, <1>5 DEF GoodRewrites
-----------------------------------------------------------------------------
(* No directive has been read.                                              *)
LEMMA ConfInit == Init => ConfInv
<1> SUFFICES ASSUME Init PROVE ConfInv  OBVIOUS
<1>1. conf = [l \in Levels |-> CreateLocConf]  BY DEF Init
<1>2. ASSUME NEW l \in Levels
      PROVE  /\ conf[l].query = NewTable /\ conf[l].rewrites = Unset
             /\ DOMAIN conf[l] = {"query", "rewrites", "output", "variables"}
  BY <1>1 DEF CreateLocConf
<1>3. GoodQuery(NewTable)  BY NewTableGood DEF GoodQuery, QueryTables
<1>4. given \in [Levels -> Seq(Directives)]  BY DEF Init
<1> QED  BY <1>1, <1>2, <1>3, <1>4 DEF ConfInv

(* An accepted directive changes the configuration of one level. *)
LEMMA AcceptGood ==
    ASSUME ConfInv, NEW l \in Levels, NEW d \in Directives, NEW c, Accept(l, d, c),
           DOMAIN c = {"query", "rewrites", "output", "variables"},
           GoodQuery(c.query), c.rewrites = Unset \/ GoodRewrites(c.rewrites)
    PROVE  ConfInv'
<1>1. conf' = [conf EXCEPT ![l] = c]  BY DEF Accept
<1>2. DOMAIN conf' = Levels /\ conf'[l] = c
      /\ \A k \in Levels : k # l => conf'[k] = conf[k]
  BY <1>1 DEF ConfInv
<1>3. ASSUME NEW k \in Levels
      PROVE  /\ DOMAIN conf'[k] = {"query", "rewrites", "output", "variables"}
             /\ GoodQuery(conf'[k].query)
             /\ conf'[k].rewrites = Unset \/ GoodRewrites(conf'[k].rewrites)
  <2>1. CASE k = l  BY <2>1, <1>2
  <2>2. CASE k # l  BY <2>2, <1>2 DEF ConfInv
  <2> QED  BY <2>1, <2>2
<1>4. given' \in [Levels -> Seq(Directives)]
  <2> HIDE DEF Directives
  <2> QED  BY DEF Accept, ConfInv
<1> QED  BY <1>2, <1>3, <1>4 DEF ConfInv

(* Every directive keeps the tables unambiguous, and so does the merging of *)
(* the two levels.                                                          *)
LEMMA ConfNext == ConfInv /\ [Next]_vars => ConfInv'
<1> SUFFICES ASSUME ConfInv, [Next]_vars PROVE ConfInv'  OBVIOUS
<1>1. ASSUME UNCHANGED <<given, conf>>  PROVE ConfInv'  BY <1>1 DEF ConfInv
<1>2. ASSUME Refuse  PROVE ConfInv'  BY <1>2, <1>1 DEF Refuse
<1>3. ASSUME NEW l \in Levels, ConfQuery(l)  PROVE ConfInv'
  <2> DEFINE sql == <<l, Len(given[l]) + 1>>
             c(ms) == [conf[l] EXCEPT !.query = Insert(@, ms, sql)]
             d(ms) == [kind |-> "query", methods |-> ms, value |-> sql]
  <2>1. PICK ms \in MethodSets :
           IF Duplicate(conf[l].query, ms) THEN Refuse ELSE Accept(l, d(ms), c(ms))
    BY <1>3 DEF ConfQuery
  <2>2. ms \in SUBSET Methods  BY LocationAssumption
  <2>3. sql \in Levels \X Nat
    <3>1. given[l] \in Seq(Directives)  BY DEF ConfInv
    <3> HIDE DEF Directives
    <3>2. Len(given[l]) \in Nat  BY <3>1
    <3> QED  BY <3>2
  <2> HIDE DEF sql
  <2>4. d(ms) \in Directives  BY <2>2, <2>3 DEF Directives
  <2>5. /\ DOMAIN c(ms) = {"query", "rewrites", "output", "variables"}
        /\ c(ms).query = Insert(conf[l].query, ms, sql)
        /\ c(ms).rewrites = conf[l].rewrites
    BY DEF ConfInv
  <2>6. CASE ~Duplicate(conf[l].query, ms)
    <3>1. GoodQuery(conf[l].query)  BY DEF ConfInv
    <3>2. GoodQuery(c(ms).query)
      BY <2>2, <2>3, <2>5, <2>6, <3>1, InsertGood DEF GoodQuery, QueryTables
    <3>3. Accept(l, d(ms), c(ms))  BY <2>1, <2>6
    <3>4. c(ms).rewrites = Unset \/ GoodRewrites(c(ms).rewrites)  BY <2>5 DEF ConfInv
    <3> HIDE DEF c, d
    <3> QED  BY <2>4, <2>5, <3>2, <3>3, <3>4, AcceptGood
  <2> QED  BY <1>2, <2>1, <2>6
<1>4. ASSUME NEW l \in Levels, ConfRewrite(l)  PROVE ConfInv'
  <2> PICK ms \in MethodSets, what \in Conditions, to \in Targets :
        LET old == IF conf[l].rewrites = Unset THEN <<>> ELSE conf[l].rewrites
            known == {k \in DOMAIN old : old[k].condition = what}
            grown == IF known # {} THEN old
                     ELSE Append(old, [condition |-> what, table |-> NewTable])
            at == CHOOSE k \in DOMAIN grown : grown[k].condition = what
        IN  IF Duplicate(grown[at].table, ms) \/ ~ValidStatus(to) THEN Refuse
            ELSE Accept(l, [kind |-> "rewrite", methods |-> ms, value |-> to,
                            condition |-> what],
                        [conf[l] EXCEPT !.rewrites =
                           [grown EXCEPT ![at].table = Insert(@, ms, to)]])
    BY <1>4 DEF ConfRewrite
  <2> DEFINE old == IF conf[l].rewrites = Unset THEN <<>> ELSE conf[l].rewrites
             known == {k \in DOMAIN old : old[k].condition = what}
             grown == IF known # {} THEN old
                      ELSE Append(old, [condition |-> what, table |-> NewTable])
             at == CHOOSE k \in DOMAIN grown : grown[k].condition = what
             new == [grown EXCEPT ![at].table = Insert(@, ms, to)]
             d == [kind |-> "rewrite", methods |-> ms, value |-> to, condition |-> what]
             c == [conf[l] EXCEPT !.rewrites = new]
  <2>1. IF Duplicate(grown[at].table, ms) \/ ~ValidStatus(to) THEN Refuse
        ELSE Accept(l, d, c)
    OBVIOUS
  <2>2. ms \in SUBSET Methods  BY LocationAssumption
  <2>3. GoodRewrites(old)
    BY NoRewritesGood DEF ConfInv
  <2>4. GoodRewrites(grown) /\ \E k \in DOMAIN grown : grown[k].condition = what
    <3> HIDE DEF old
    <3>1. CASE known # {}  BY <3>1, <2>3
    <3>2. CASE known = {}  BY <3>2, <2>3, GrownGood
    <3> QED  BY <3>1, <3>2
  <2> HIDE DEF grown
  <2>5. at \in DOMAIN grown  BY <2>4
  <2> HIDE DEF at
  <2>6. /\ DOMAIN c = {"query", "rewrites", "output", "variables"}
        /\ c.query = conf[l].query /\ c.rewrites = new
    BY DEF ConfInv
  <2>7. d \in Directives  BY <2>2 DEF Directives
  <2>8. CASE ~Duplicate(grown[at].table, ms) /\ ValidStatus(to)
    <3>1. Accept(l, d, c)  BY <2>1, <2>8
    <3>2. GoodRewrites(new)  BY <2>2, <2>4, <2>5, <2>8, RewriteGood
    <3>3. GoodQuery(c.query) /\ GoodRewrites(c.rewrites)  BY <2>6, <3>2 DEF ConfInv
    <3> HIDE DEF c, d, new
    <3> QED  BY <2>6, <2>7, <3>1, <3>3, AcceptGood
  <2> QED  BY <1>2, <2>1, <2>8
<1>5. ASSUME NEW l \in Levels, ConfOutput(l)  PROVE ConfInv'
  <2> DEFINE d(format) == [kind |-> "output", value |-> format]
             c(format) == [conf[l] EXCEPT !.output = format]
  <2>1. PICK format \in Formats :
           IF conf[l].output # Unset THEN Refuse ELSE Accept(l, d(format), c(format))
    BY <1>5 DEF ConfOutput
  <2>2. /\ DOMAIN c(format) = {"query", "rewrites", "output", "variables"}
        /\ c(format).query = conf[l].query /\ c(format).rewrites = conf[l].rewrites
    BY DEF ConfInv
  <2>3. d(format) \in Directives  BY DEF Directives
  <2>4. GoodQuery(c(format).query)
        /\ (c(format).rewrites = Unset \/ GoodRewrites(c(format).rewrites))
    BY <2>2 DEF ConfInv
  <2> HIDE DEF c, d
  <2> QED  BY <1>2, <2>1, <2>2, <2>3, <2>4, AcceptGood
<1>6. ASSUME NEW l \in Levels, ConfSet(l)  PROVE ConfInv'
  <2> DEFINE v(at, required) == [at |-> at, required |-> required]
             old == IF conf[l].variables = Unset THEN <<>> ELSE conf[l].variables
             d(x) == [kind |-> "set", value |-> x]
             c(x) == [conf[l] EXCEPT !.variables = Append(old, x)]
  <2>1. PICK at \in Positions, required \in BOOLEAN :
           Accept(l, d(v(at, required)), c(v(at, required)))
    BY <1>6 DEF ConfSet
  <2> DEFINE w == v(at, required)
  <2>2. /\ DOMAIN c(w) = {"query", "rewrites", "output", "variables"}
        /\ c(w).query = conf[l].query /\ c(w).rewrites = conf[l].rewrites
    BY DEF ConfInv
  <2>3. d(w) \in Directives  BY DEF Directives
  <2>4. GoodQuery(c(w).query) /\ (c(w).rewrites = Unset \/ GoodRewrites(c(w).rewrites))
    BY <2>2 DEF ConfInv
  <2>5. Accept(l, d(w), c(w))  BY <2>1
  <2> HIDE DEF c, d, w
  <2> QED  BY <2>2, <2>3, <2>4, <2>5, AcceptGood
<1>7. ASSUME MergeLocConf  PROVE ConfInv'
  <2> DEFINE prev == conf["outer"]
             own == conf["inner"]
             c == [query |-> MergedQuery(prev.query, own.query),
                   rewrites |-> Inherited(own.rewrites, prev.rewrites, <<>>),
                   output |-> Inherited(own.output, prev.output, "rds"),
                   variables |-> Inherited(own.variables, prev.variables, <<>>)]
  <2>1. conf' = [conf EXCEPT !["inner"] = c] /\ given' = given
    BY <1>7 DEF MergeLocConf
  <2>2. GoodQuery(c.query)  BY DEF ConfInv, MergedQuery, Levels
  <2>3. GoodRewrites(c.rewrites)
    BY NoRewritesGood DEF ConfInv, Inherited, Levels
  <2>4. DOMAIN c = {"query", "rewrites", "output", "variables"}  OBVIOUS
  <2> HIDE DEF c
  <2>5. DOMAIN conf' = Levels /\ conf'["inner"] = c /\ conf'["outer"] = conf["outer"]
    BY <2>1 DEF ConfInv, Levels
  <2>6. ASSUME NEW k \in Levels
        PROVE  /\ DOMAIN conf'[k] = {"query", "rewrites", "output", "variables"}
               /\ GoodQuery(conf'[k].query)
               /\ conf'[k].rewrites = Unset \/ GoodRewrites(conf'[k].rewrites)
    <3>1. CASE k = "inner"  BY <3>1, <2>2, <2>3, <2>4, <2>5
    <3>2. CASE k = "outer"  BY <3>2, <2>5 DEF ConfInv
    <3> QED  BY <3>1, <3>2 DEF Levels
  <2> QED  BY <2>1, <2>5, <2>6 DEF ConfInv
<1>8. ASSUME HandleRequest \/ TurnAway \/ InitPeer \/ ProcessResponse \/ Done
             \/ Fail \/ (stage = "refused" /\ UNCHANGED vars) \/ UNCHANGED vars
      PROVE  ConfInv'
  <2>1. UNCHANGED <<given, conf>>
    BY <1>8 DEF HandleRequest, TurnAway, InitPeer, ProcessResponse, Done, Fail, vars
  <2> QED  BY <2>1, <1>1
<1> QED  BY <1>3, <1>4, <1>5, <1>6, <1>7, <1>8 DEF Next

-----------------------------------------------------------------------------
(* In every reachable state the tables of queries and of rewrites are       *)
(* unambiguous, at each level, whatever the directives: a method is in at   *)
(* most one entry of a table, and in methods_set exactly when it is in one. *)
(* So ngx_postgres_upstream_init_peer always finds the entry it looks for,  *)
(* and the order of the entries never matters.                              *)
THEOREM TablesCorrect == Spec => []TablesUnambiguous
<1>1. ConfInv => TablesUnambiguous
  BY DEF ConfInv, GoodQuery, GoodRewrites, TablesUnambiguous
<1> QED  BY <1>1, ConfInit, ConfNext, PTL DEF Spec
-----------------------------------------------------------------------------
(* Which query a request gets: what the table of a location says is what    *)
(* the file says, while it is read, after the merge, and ever after.        *)

(* A table of queries and the directives of a level say the same. *)
Matches(t, l) ==
    /\ \A k \in DOMAIN t.methods : \E i \in OfKind(l, "query") :
          t.methods[k].value = <<l, i>> /\ t.methods[k].key = given[l][i].methods
    /\ t.def # None =>
          \E i \in OfKind(l, "query") : t.def = <<l, i>> /\ given[l][i].methods = {}
    /\ \A i \in OfKind(l, "query") :
          IF given[l][i].methods = {} THEN t.def = <<l, i>>
          ELSE t.methods # <<>> /\ given[l][i].methods \subseteq t.methods_set

(* The level whose queries the location uses. *)
QueryLevel == IF OfKind("inner", "query") # {} THEN "inner" ELSE "outer"

TablesAsGiven ==
    IF stage \in {"reading", "refused"}
    THEN \A l \in Levels : \A t : t = conf[l].query => Matches(t, l)
    ELSE \A l \in Levels : l = QueryLevel =>
            \A t : t = pglcf.query => Matches(t, l)

(* What a request has, by the table. *)
ByTable ==
    /\ DOMAIN ctx = DOMAIN NoCtx
    /\ stage \in {"reading", "refused"} => ctx = NoCtx /\ answer = None
    /\ ctx.query # None => ctx.query = Lookup(pglcf.query, method)
    /\ stage = "upstream" => pglcf.query.def # None \/ method \in pglcf.query.methods_set
    /\ stage \in {"sent", "broken", "acked"} => ctx.query # None
    /\ answer # None /\ answer.status = 405 /\ ctx = NoCtx =>
          /\ pglcf.query.def = None /\ method \notin pglcf.query.methods_set
          /\ pglcf.query.methods_set # {}

QueryInv == ConfInv /\ TablesAsGiven /\ ByTable
-----------------------------------------------------------------------------
(* An entry for a method is found, and it is the only one.                  *)
LEMMA LookupFinds ==
    ASSUME NEW t, GoodQuery(t), NEW l \in Levels, Matches(t, l), NEW m,
           t.def # None \/ m \in t.methods_set
    PROVE  \E i \in OfKind(l, "query") :
              /\ Lookup(t, m) = <<l, i>>
              /\ IF m \in t.methods_set THEN m \in given[l][i].methods
                 ELSE given[l][i].methods = {}
<1>1. CASE m \in t.methods_set
  <2>1. PICK k \in DOMAIN t.methods : m \in t.methods[k].key
    BY <1>1 DEF GoodQuery, Unambiguous
  <2>2. \A j \in DOMAIN t.methods : j # k => m \notin t.methods[j].key
    BY <2>1 DEF GoodQuery, Unambiguous
  <2>3. \A j \in 1..(k - 1) : j \in DOMAIN t.methods /\ j # k
    BY DEF GoodQuery, QueryTables, Table
  <2> DEFINE c == CHOOSE j \in DOMAIN t.methods :
                     /\ m \in t.methods[j].key
                     /\ \A i \in 1..(j - 1) : m \notin t.methods[i].key
  <2>4. c \in DOMAIN t.methods /\ m \in t.methods[c].key
    BY <2>1, <2>2, <2>3
  <2>5. Lookup(t, m) = t.methods[c].value
    BY <1>1 DEF Lookup
  <2> HIDE DEF c
  <2> QED  BY <1>1, <2>4, <2>5 DEF Matches
<1>2. CASE m \notin t.methods_set
  BY <1>2 DEF Lookup, Matches
<1> QED  BY <1>1, <1>2

(* A directive of another kind changes nothing. *)
LEMMA OtherKept ==
    ASSUME NEW t, NEW l \in Levels, Matches(t, l), NEW S, given[l] \in Seq(S),
           NEW d, d.kind # "query", given'[l] = Append(given[l], d)
    PROVE  \A u : u = t => Matches(u, l)'
<1>0. \A i \in DOMAIN given[l] : given'[l][i] = given[l][i]
  OBVIOUS
<1>1. OfKind(l, "query")' = OfKind(l, "query")
  BY DEF OfKind
<1>2. \A i \in OfKind(l, "query") : given'[l][i] = given[l][i]
  BY <1>0 DEF OfKind
<1>3. ASSUME NEW u, u = t  PROVE Matches(u, l)'
  <2>1. \A k \in DOMAIN u.methods : \E i \in OfKind(l, "query")' :
           u.methods[k].value = <<l, i>> /\ u.methods[k].key = given'[l][i].methods
    <3>1. ASSUME NEW k \in DOMAIN u.methods
          PROVE  \E i \in OfKind(l, "query")' :
                    u.methods[k].value = <<l, i>> /\ u.methods[k].key = given'[l][i].methods
      <4>1. PICK i \in OfKind(l, "query") :
              u.methods[k].value = <<l, i>> /\ u.methods[k].key = given[l][i].methods
        BY <1>3 DEF Matches
      <4>2. i \in OfKind(l, "query")' /\ given'[l][i] = given[l][i]
        BY <1>1, <1>2
      <4> QED  BY <4>1, <4>2
    <3> QED  BY <3>1
  <2>2. u.def # None => \E i \in OfKind(l, "query")' :
           u.def = <<l, i>> /\ given'[l][i].methods = {}
    BY <1>1, <1>2, <1>3 DEF Matches
  <2>3. \A i \in OfKind(l, "query")' :
           IF given'[l][i].methods = {} THEN u.def = <<l, i>>
           ELSE u.methods # <<>> /\ given'[l][i].methods \subseteq u.methods_set
    BY <1>1, <1>2, <1>3 DEF Matches
  <2> QED  BY <2>1, <2>2, <2>3 DEF Matches
<1> QED  BY <1>3

(* A query goes to the end of the file and to the table. *)
LEMMA QueryAdded ==
    ASSUME NEW t, GoodQuery(t), NEW l \in Levels, Matches(t, l), NEW S, given[l] \in Seq(S),
           NEW ms \in SUBSET Methods, ~Duplicate(t, ms),
           given'[l] = Append(given[l], [kind |-> "query", methods |-> ms,
                                         value |-> <<l, Len(given[l]) + 1>>])
    PROVE  \A u : u = Insert(t, ms, <<l, Len(given[l]) + 1>>) => Matches(u, l)'
<1> DEFINE n == Len(given[l]) + 1
<1>1. /\ n \in Nat /\ n \notin DOMAIN given[l]
      /\ DOMAIN given'[l] = DOMAIN given[l] \cup {n}
      /\ given'[l][n].kind = "query" /\ given'[l][n].methods = ms
      /\ \A i \in DOMAIN given[l] : given'[l][i] = given[l][i]
  OBVIOUS
<1>2. <<l, n>> # None
  BY <1>1, LocationAssumption DEF Levels
<1> HIDE DEF n
<1>3. OfKind(l, "query")' = OfKind(l, "query") \cup {n}
  BY <1>1 DEF OfKind
<1>4. \A i \in OfKind(l, "query") : i # n /\ given'[l][i] = given[l][i]
  BY <1>1 DEF OfKind
<1>5. ASSUME NEW u, u = Insert(t, ms, <<l, n>>)  PROVE Matches(u, l)'
  <2>1. CASE ms = {}
    <3>1. /\ u.def = <<l, n>> /\ u.methods = t.methods /\ u.methods_set = t.methods_set
          /\ t.def = None
      BY <1>5, <2>1 DEF Insert, Duplicate, GoodQuery, QueryTables, Table
    <3>2. \A k \in DOMAIN u.methods : \E i \in OfKind(l, "query")' :
             u.methods[k].value = <<l, i>> /\ u.methods[k].key = given'[l][i].methods
      BY ZenonT(60), <1>3, <1>4, <3>1 DEF Matches
    <3>3. u.def # None => \E i \in OfKind(l, "query")' :
             u.def = <<l, i>> /\ given'[l][i].methods = {}
      BY <1>1, <1>3, <2>1, <3>1
    <3>4. \A i \in OfKind(l, "query") :
             given[l][i].methods # {} /\ t.methods # <<>> /\ given[l][i].methods \subseteq t.methods_set
      BY <1>2, <3>1, LocationAssumption DEF Matches, Levels, OfKind
    <3>5. \A i \in OfKind(l, "query")' :
             IF given'[l][i].methods = {} THEN u.def = <<l, i>>
             ELSE u.methods # <<>> /\ given'[l][i].methods \subseteq u.methods_set
      BY <1>1, <1>3, <1>4, <2>1, <3>1, <3>4
    <3> QED  BY <3>2, <3>3, <3>5 DEF Matches
  <2>2. CASE ms # {}
    <3>1. /\ u.def = t.def /\ u.methods_set = t.methods_set \cup ms
          /\ u.methods = Append(t.methods, [key |-> ms, value |-> <<l, n>>])
      BY <1>5, <2>2 DEF Insert, GoodQuery, QueryTables, Table
    <3>2. /\ u.methods # <<>>
          /\ \A k \in DOMAIN u.methods :
                \/ k \in DOMAIN t.methods /\ u.methods[k] = t.methods[k]
                \/ u.methods[k].key = ms /\ u.methods[k].value = <<l, n>>
      <4> DEFINE e == [key |-> ms, value |-> <<l, n>>]
                 E == [key : SUBSET Methods, value : Levels \X Nat]
      <4>1. t.methods \in Seq(E)
        BY DEF GoodQuery, QueryTables, Table
      <4>2. e \in E
        BY <1>1
      <4>3. e.key = ms /\ e.value = <<l, n>> /\ u.methods = Append(t.methods, e)
        BY <3>1
      <4> HIDE DEF e, E
      <4>4. \A k \in DOMAIN u.methods :
               \/ k \in DOMAIN t.methods /\ u.methods[k] = t.methods[k]
               \/ u.methods[k] = e
        BY <4>1, <4>2, <4>3
      <4>5. u.methods # <<>>
        BY <4>1, <4>2, <4>3
      <4> QED  BY <4>3, <4>4, <4>5
    <3>3. \A k \in DOMAIN u.methods : \E i \in OfKind(l, "query")' :
             u.methods[k].value = <<l, i>> /\ u.methods[k].key = given'[l][i].methods
      <4> SUFFICES ASSUME NEW k \in DOMAIN u.methods
                   PROVE  \E i \in OfKind(l, "query")' :
                             /\ u.methods[k].value = <<l, i>>
                             /\ u.methods[k].key = given'[l][i].methods
        OBVIOUS
      <4>1. CASE u.methods[k].key = ms /\ u.methods[k].value = <<l, n>>
        BY <1>1, <1>3, <4>1
      <4>2. CASE k \in DOMAIN t.methods /\ u.methods[k] = t.methods[k]
        <5>1. PICK i \in OfKind(l, "query") :
                 t.methods[k].value = <<l, i>> /\ t.methods[k].key = given[l][i].methods
          BY <4>2 DEF Matches
        <5> QED  BY <1>3, <1>4, <4>2, <5>1
      <4> QED  BY <3>2, <4>1, <4>2
    <3>4. u.def # None => \E i \in OfKind(l, "query")' :
             u.def = <<l, i>> /\ given'[l][i].methods = {}
      BY <1>3, <1>4, <3>1 DEF Matches
    <3>5. \A i \in OfKind(l, "query")' :
             IF given'[l][i].methods = {} THEN u.def = <<l, i>>
             ELSE u.methods # <<>> /\ given'[l][i].methods \subseteq u.methods_set
      BY <1>1, <1>3, <1>4, <2>2, <3>1, <3>2 DEF Matches
    <3> QED  BY <3>3, <3>4, <3>5 DEF Matches
  <2> QED  BY <2>1, <2>2
<1> QED  BY <1>5 DEF n

(* Nothing is known anew of tables and directives that stay.                *)
LEMMA GivenKept ==
    ASSUME NEW t, NEW l \in Levels, Matches(t, l), given'[l] = given[l]
    PROVE  Matches(t, l)'
<1>1. OfKind(l, "query")' = OfKind(l, "query")
  BY DEF OfKind
<1>2. \A k \in DOMAIN t.methods : \E i \in OfKind(l, "query")' :
         t.methods[k].value = <<l, i>> /\ t.methods[k].key = given'[l][i].methods
  BY <1>1 DEF Matches
<1>3. t.def # None => \E i \in OfKind(l, "query")' :
         t.def = <<l, i>> /\ given'[l][i].methods = {}
  BY <1>1 DEF Matches
<1>4. \A i \in OfKind(l, "query")' :
         IF given'[l][i].methods = {} THEN t.def = <<l, i>>
         ELSE t.methods # <<>> /\ given'[l][i].methods \subseteq t.methods_set
  BY <1>1 DEF Matches
<1> QED  BY <1>2, <1>3, <1>4 DEF Matches
-----------------------------------------------------------------------------
(* Reading the file *)

(* Before the first directive the tables and the file are empty.            *)
LEMMA QueryInit == Init => QueryInv
<1> SUFFICES ASSUME Init PROVE QueryInv  OBVIOUS
<1>1. ConfInv  BY ConfInit
<1>2. stage = "reading" /\ ctx = NoCtx /\ answer = None  BY DEF Init
<1>3. ASSUME NEW l \in Levels, NEW t, t = conf[l].query  PROVE Matches(t, l)
  <2>1. t = NewTable /\ given[l] = <<>>
    BY <1>3 DEF Init, CreateLocConf
  <2> QED  BY <2>1 DEF Matches, OfKind, NewTable
<1>4. ctx.query = None  BY <1>2 DEF NoCtx, NewCtx
<1> QED  BY <1>1, <1>2, <1>3, <1>4 DEF QueryInv, TablesAsGiven, ByTable

(* An accepted directive: what it says of queries, its table says too. *)
LEMMA AcceptKeeps ==
    ASSUME QueryInv, stage = "reading", NEW l \in Levels, NEW d, NEW c, Accept(l, d, c),
           \A u : u = c.query => Matches(u, l)'
    PROVE  TablesAsGiven' /\ ByTable'
<1>1. /\ conf'[l] = c /\ \A k \in Levels : k # l => conf'[k] = conf[k]
      /\ \A k \in Levels : k # l => given'[k] = given[k]
      /\ stage' = "reading" /\ ctx' = ctx /\ answer' = answer
  BY DEF Accept, QueryInv, ConfInv
<1>2. ASSUME NEW k \in Levels, NEW t, t = conf'[k].query  PROVE Matches(t, k)'
  <2>1. CASE k = l  BY <1>1, <1>2, <2>1
  <2>2. CASE k # l
    <3>1. Matches(t, k) /\ given'[k] = given[k]
      BY <1>1, <1>2, <2>2 DEF QueryInv, TablesAsGiven
    <3> QED  BY <3>1, GivenKept
  <2> QED  BY <2>1, <2>2
<1>3. TablesAsGiven'  BY <1>1, <1>2 DEF TablesAsGiven
<1>4. ctx' = NoCtx /\ answer' = None /\ ctx'.query = None
  BY <1>1 DEF QueryInv, ByTable, NoCtx, NewCtx
<1> QED  BY <1>1, <1>3, <1>4 DEF ByTable

(* A directive that is refused changes no table.                            *)
LEMMA RefuseKeeps ==
    ASSUME QueryInv, stage = "reading", Refuse
    PROVE  TablesAsGiven' /\ ByTable'
<1>1. /\ stage' = "refused" /\ ctx' = ctx /\ answer' = answer
      /\ conf' = conf /\ given' = given
  BY DEF Refuse
<1>2. ASSUME NEW k \in Levels, NEW t, t = conf'[k].query  PROVE Matches(t, k)'
  <2>1. Matches(t, k) /\ given'[k] = given[k]
    BY <1>1, <1>2 DEF QueryInv, TablesAsGiven
  <2> QED  BY <2>1, GivenKept
<1>3. TablesAsGiven'  BY <1>1, <1>2 DEF TablesAsGiven
<1>4. ctx' = NoCtx /\ answer' = None /\ ctx'.query = None
  BY <1>1 DEF QueryInv, ByTable, NoCtx, NewCtx
<1> QED  BY <1>1, <1>3, <1>4 DEF ByTable

(* After the configuration is read nothing of it changes. *)
LEMMA ServingKeeps ==
    ASSUME QueryInv, stage \notin {"reading", "refused"}, stage' \notin {"reading", "refused"},
           UNCHANGED <<given, conf>>
    PROVE  TablesAsGiven'
<1>1. QueryLevel' = QueryLevel /\ pglcf' = pglcf
  BY DEF QueryLevel, OfKind, pglcf
<1>2. ASSUME NEW l \in Levels, l = QueryLevel', NEW t, t = pglcf'.query
      PROVE  Matches(t, l)'
  <2>1. Matches(t, l) /\ given'[l] = given[l]
    BY <1>1, <1>2 DEF QueryInv, TablesAsGiven
  <2> QED  BY <2>1, GivenKept
<1> QED  BY <1>2 DEF TablesAsGiven

(* What a rewrite changes is the list of rewrites. *)
LEMMA RewriteShape ==
    ASSUME NEW l, ConfRewrite(l)
    PROVE  \E d, rs : /\ Refuse \/ Accept(l, d, [conf[l] EXCEPT !.rewrites = rs])
                      /\ d.kind # "query"
<1> PICK ms \in MethodSets, what \in Conditions, to \in Targets :
      LET old == IF conf[l].rewrites = Unset THEN <<>> ELSE conf[l].rewrites
          known == {k \in DOMAIN old : old[k].condition = what}
          grown == IF known # {} THEN old
                   ELSE Append(old, [condition |-> what, table |-> NewTable])
          at == CHOOSE k \in DOMAIN grown : grown[k].condition = what
      IN  IF Duplicate(grown[at].table, ms) \/ ~ValidStatus(to) THEN Refuse
          ELSE Accept(l, [kind |-> "rewrite", methods |-> ms, value |-> to,
                          condition |-> what],
                      [conf[l] EXCEPT !.rewrites =
                         [grown EXCEPT ![at].table = Insert(@, ms, to)]])
  BY Zenon DEF ConfRewrite
<1> DEFINE old == IF conf[l].rewrites = Unset THEN <<>> ELSE conf[l].rewrites
           known == {k \in DOMAIN old : old[k].condition = what}
           grown == IF known # {} THEN old
                    ELSE Append(old, [condition |-> what, table |-> NewTable])
           at == CHOOSE k \in DOMAIN grown : grown[k].condition = what
           new == [grown EXCEPT ![at].table = Insert(@, ms, to)]
           twice == Duplicate(grown[at].table, ms)
           d == [kind |-> "rewrite", methods |-> ms, value |-> to, condition |-> what]
<1>1. IF twice \/ ~ValidStatus(to) THEN Refuse
      ELSE Accept(l, d, [conf[l] EXCEPT !.rewrites = new])
  BY Zenon
<1>2. d.kind # "query"
  BY Zenon
<1> HIDE DEF d, new, twice
<1> QED  BY Zenon, <1>1, <1>2

(* After every directive the tables of queries say what the file says.      *)
LEMMA DirectiveKeeps ==
    ASSUME QueryInv, NEW l \in Levels,
           ConfQuery(l) \/ ConfRewrite(l) \/ ConfOutput(l) \/ ConfSet(l)
    PROVE  TablesAsGiven' /\ ByTable'
<1>1. stage = "reading"
  <2>1. ConfQuery(l) => Reading(l)  BY DEF ConfQuery
  <2>2. ConfRewrite(l) => Reading(l)  BY Zenon DEF ConfRewrite
  <2>3. ConfOutput(l) => Reading(l)  BY DEF ConfOutput
  <2>4. ConfSet(l) => Reading(l)  BY DEF ConfSet
  <2> QED  BY <2>1, <2>2, <2>3, <2>4 DEF Reading
<1>2. /\ GoodQuery(conf[l].query) /\ Matches(conf[l].query, l)
      /\ given[l] \in Seq(Directives)
      /\ DOMAIN conf[l] = {"query", "rewrites", "output", "variables"}
  BY <1>1 DEF QueryInv, ConfInv, TablesAsGiven
<1> HIDE DEF Directives
<1>3. ASSUME NEW d, NEW c, Accept(l, d, c), d.kind # "query", c.query = conf[l].query
      PROVE  TablesAsGiven' /\ ByTable'
  <2>1. given'[l] = Append(given[l], d)
    BY <1>3 DEF Accept, QueryInv, ConfInv
  <2>2. \A u : u = c.query => Matches(u, l)'
    BY <1>2, <1>3, <2>1, OtherKept
  <2> QED  BY <1>1, <1>3, <2>2, AcceptKeeps
<1>4. ASSUME ConfQuery(l)  PROVE TablesAsGiven' /\ ByTable'
  <2> DEFINE sql == <<l, Len(given[l]) + 1>>
             d(ms) == [kind |-> "query", methods |-> ms, value |-> sql]
             c(ms) == [conf[l] EXCEPT !.query = Insert(@, ms, sql)]
  <2>1. PICK ms \in MethodSets :
           IF Duplicate(conf[l].query, ms) THEN Refuse ELSE Accept(l, d(ms), c(ms))
    BY <1>4 DEF ConfQuery
  <2>2. ms \in SUBSET Methods
    BY LocationAssumption
  <2>3. CASE Duplicate(conf[l].query, ms)
    BY <1>1, <2>1, <2>3, RefuseKeeps
  <2>4. CASE ~Duplicate(conf[l].query, ms)
    <3>1. Accept(l, d(ms), c(ms))
      BY <2>1, <2>4
    <3>2. given'[l] = Append(given[l], d(ms))
      BY <3>1 DEF Accept, QueryInv, ConfInv
    <3>3. c(ms).query = Insert(conf[l].query, ms, sql)
      BY <1>2
    <3>4. \A u : u = Insert(conf[l].query, ms, sql) => Matches(u, l)'
      BY Zenon, <1>2, <2>2, <2>4, <3>2, QueryAdded
    <3>5. \A u : u = c(ms).query => Matches(u, l)'
      BY <3>3, <3>4
    <3> HIDE DEF d, c
    <3> QED  BY <1>1, <3>1, <3>5, AcceptKeeps
  <2> QED  BY <2>3, <2>4
<1>5. ASSUME ConfRewrite(l)  PROVE TablesAsGiven' /\ ByTable'
  <2>1. PICK d, rs : /\ Refuse \/ Accept(l, d, [conf[l] EXCEPT !.rewrites = rs])
                     /\ d.kind # "query"
    BY <1>5, RewriteShape
  <2>2. [conf[l] EXCEPT !.rewrites = rs].query = conf[l].query
    BY <1>2
  <2> QED  BY <1>1, <1>3, <2>1, <2>2, RefuseKeeps
<1>6. ASSUME ConfOutput(l)  PROVE TablesAsGiven' /\ ByTable'
  <2>1. PICK format \in Formats :
           Refuse \/ Accept(l, [kind |-> "output", value |-> format],
                            [conf[l] EXCEPT !.output = format])
    BY <1>6 DEF ConfOutput
  <2>2. [conf[l] EXCEPT !.output = format].query = conf[l].query
    BY <1>2
  <2>3. [kind |-> "output", value |-> format].kind # "query"
    OBVIOUS
  <2> QED  BY <1>1, <1>3, <2>1, <2>2, <2>3, RefuseKeeps
<1>7. ASSUME ConfSet(l)  PROVE TablesAsGiven' /\ ByTable'
  <2>1. PICK v, vs : Accept(l, [kind |-> "set", value |-> v],
                            [conf[l] EXCEPT !.variables = vs])
    BY <1>7 DEF ConfSet
  <2>2. [conf[l] EXCEPT !.variables = vs].query = conf[l].query
    BY <1>2
  <2>3. [kind |-> "set", value |-> v].kind # "query"
    OBVIOUS
  <2> QED  BY <1>3, <2>1, <2>2, <2>3
<1> QED  BY <1>4, <1>5, <1>6, <1>7

(* The merge takes the table of the level that has queries, and the outer   *)
(* one when the location has none.                                          *)
LEMMA MergeKeeps ==
    ASSUME QueryInv, MergeLocConf
    PROVE  TablesAsGiven' /\ ByTable'
<1> DEFINE prev == conf["outer"].query
           own == conf["inner"].query
<1>1. /\ stage = "reading" /\ stage' = "serving" /\ given' = given
      /\ ctx' = ctx /\ answer' = answer
      /\ conf'["inner"].query = MergedQuery(prev, own)
  BY DEF MergeLocConf, QueryInv, ConfInv, Levels
<1>2. GoodQuery(own) /\ Matches(own, "inner") /\ Matches(prev, "outer")
  BY <1>1 DEF QueryInv, ConfInv, TablesAsGiven, Levels
<1>3. CASE OfKind("inner", "query") = {}
  <2>1. own.def = None /\ DOMAIN own.methods = {}
    BY <1>2, <1>3 DEF Matches
  <2>2. own.methods = <<>>
    <3>1. own.methods \in Seq([key : SUBSET Methods, value : Levels \X Nat])
      BY <1>2 DEF GoodQuery, QueryTables, Table
    <3>2. ASSUME NEW S, NEW q \in Seq(S), DOMAIN q = {}  PROVE q = <<>>
      BY <3>2
    <3> HIDE DEF own
    <3> QED  BY <2>1, <3>1, <3>2
  <2>3. pglcf'.query = prev
    BY <1>1, <2>1, <2>2 DEF MergedQuery, pglcf
  <2>4. QueryLevel' = "outer"
    BY <1>1, <1>3 DEF QueryLevel, OfKind
  <2>5. \A t : t = prev => Matches(t, "outer")'
    BY <1>1, <1>2, GivenKept DEF Levels
  <2> QED  BY <1>1, <2>3, <2>4, <2>5 DEF TablesAsGiven, ByTable, QueryInv, NoCtx, NewCtx
<1>4. CASE OfKind("inner", "query") # {}
  <2>1. own.def # None \/ own.methods # <<>>
    <3>1. PICK i \in OfKind("inner", "query") : TRUE
      BY <1>4
    <3>2. i \in Nat
      BY <3>1 DEF OfKind, QueryInv, ConfInv, Levels
    <3>3. <<"inner", i>> # None
      BY <3>2, LocationAssumption
    <3> QED  BY <1>2, <3>1, <3>3 DEF Matches
  <2>2. pglcf'.query = own
    BY <1>1, <2>1 DEF MergedQuery, pglcf
  <2>3. QueryLevel' = "inner"
    BY <1>1, <1>4 DEF QueryLevel, OfKind
  <2>4. \A t : t = own => Matches(t, "inner")'
    BY <1>1, <1>2, GivenKept DEF Levels
  <2> QED  BY <1>1, <2>2, <2>3, <2>4 DEF TablesAsGiven, ByTable, QueryInv, NoCtx, NewCtx
<1> QED  BY <1>3, <1>4
-----------------------------------------------------------------------------
(* Serving requests *)

(* Whatever the result, process_response leaves the query alone.            *)
LEMMA ResponseShape ==
    ASSUME ProcessResponse, DOMAIN ctx = DOMAIN NoCtx
    PROVE  /\ stage = "sent" /\ stage' \in {"acked", "broken"} /\ UNCHANGED <<method, answer>>
           /\ DOMAIN ctx' = DOMAIN ctx /\ ctx'.query = ctx.query
<1>1. ASSUME NEW res
      PROVE  DOMAIN Seen(res) = DOMAIN ctx /\ Seen(res).query = ctx.query
  BY DEF Seen, NoCtx, NewCtx
<1>2. ASSUME NEW c, DOMAIN c = DOMAIN ctx, c.query = ctx.query, NEW x
      PROVE  /\ DOMAIN [c EXCEPT !.status = x] = DOMAIN ctx
             /\ [c EXCEPT !.status = x].query = ctx.query
             /\ DOMAIN [c EXCEPT !.store = x] = DOMAIN ctx
             /\ [c EXCEPT !.store = x].query = ctx.query
             /\ DOMAIN [c EXCEPT !.response = x] = DOMAIN ctx
             /\ [c EXCEPT !.response = x].query = ctx.query
  BY <1>2 DEF NoCtx, NewCtx
<1>3. PICK res \in Results, lost \in SUBSET DOMAIN pglcf.variables :
        LET to == Rewritten(Seen(res))
            special == to # None /\ to >= 300
            rewritten == IF to = None THEN Seen(res)
                         ELSE [Seen(res) EXCEPT !.status = to]
            stored == [rewritten EXCEPT !.store = Stored(res, lost)]
            out == OutputHandler(pglcf.output, res)
        IN  /\ \A k \in lost : SetCustom(res, pglcf.variables[k]) # 0
            /\ result' = res
            /\ \/ special /\ Processed(rewritten)
               \/ /\ ~special /\ Missing(res, lost) # {}
                  /\ Processed([stored EXCEPT !.status = 500])
               \/ /\ ~special /\ Missing(res, lost) = {} /\ out.rc = "done"
                  /\ Processed([stored EXCEPT
                        !.status = IF out.status = None THEN @ ELSE out.status,
                        !.response = out.response])
               \/ /\ ~special /\ Missing(res, lost) = {} /\ out.rc = "error"
                  /\ ctx' = stored /\ stage' = "broken"
  BY Zenon DEF ProcessResponse
<1> DEFINE to == Rewritten(Seen(res))
           rewritten == IF to = None THEN Seen(res) ELSE [Seen(res) EXCEPT !.status = to]
           stored == [rewritten EXCEPT !.store = Stored(res, lost)]
           out == OutputHandler(pglcf.output, res)
           done == [stored EXCEPT !.status = IF out.status = None THEN @ ELSE out.status,
                                  !.response = out.response]
<1>4. \/ Processed(rewritten)
      \/ Processed([stored EXCEPT !.status = 500])
      \/ Processed(done)
      \/ ctx' = stored /\ stage' = "broken"
  BY Zenon, <1>3
<1>5. DOMAIN rewritten = DOMAIN ctx /\ rewritten.query = ctx.query
  BY Zenon, <1>1, <1>2
<1> HIDE DEF rewritten
<1>6. DOMAIN stored = DOMAIN ctx /\ stored.query = ctx.query
  BY Zenon, <1>2, <1>5
<1> HIDE DEF stored
<1>7. DOMAIN done = DOMAIN ctx /\ done.query = ctx.query
  BY <1>6 DEF NoCtx, NewCtx
<1> HIDE DEF done
<1>8. DOMAIN ctx' = DOMAIN ctx /\ ctx'.query = ctx.query /\ stage' \in {"acked", "broken"}
  <2>1. /\ DOMAIN [stored EXCEPT !.status = 500] = DOMAIN ctx
        /\ [stored EXCEPT !.status = 500].query = ctx.query
    BY <1>6 DEF NoCtx, NewCtx
  <2>2. stage' \in {"acked", "broken"}
    BY Zenon, <1>4 DEF Processed
  <2>3. ctx' = rewritten \/ ctx' = [stored EXCEPT !.status = 500] \/ ctx' = done \/ ctx' = stored
    BY Zenon, <1>4 DEF Processed
  <2> QED  BY Zenon, <1>5, <1>6, <1>7, <2>1, <2>2, <2>3
<1> QED  BY <1>8 DEF ProcessResponse

(* A request reads the tables, and its query comes from them.               *)
LEMMA RequestKeeps ==
    ASSUME QueryInv,
           HandleRequest \/ TurnAway \/ InitPeer \/ ProcessResponse \/ Done \/ Fail
    PROVE  TablesAsGiven' /\ ByTable'
<1>1. /\ stage \notin {"reading", "refused"} /\ stage' \notin {"reading", "refused"}
      /\ UNCHANGED <<given, conf>>
  BY DEF HandleRequest, TurnAway, InitPeer, ProcessResponse, Processed, Done, Fail
<1>2. TablesAsGiven'
  BY <1>1, ServingKeeps
<1> SUFFICES ByTable'
  BY <1>2
<1>3. pglcf' = pglcf
  BY <1>1 DEF pglcf
<1>4. ByTable
  BY DEF QueryInv
<1>5. NoCtx.query = None /\ \A n : DOMAIN NewCtx(n) = DOMAIN NoCtx /\ NewCtx(n).query = None
  BY DEF NoCtx, NewCtx
<1>6. CASE HandleRequest
  <2>1. CASE answer' = None /\ stage' = "upstream"
    <3>1. /\ pglcf.query.def # None \/ method' \in pglcf.query.methods_set
          /\ \E n : ctx' = NewCtx(n)
      BY <1>6, <2>1 DEF HandleRequest
    <3> QED  BY <1>1, <1>3, <1>5, <2>1, <3>1 DEF ByTable
  <2>2. CASE ctx' = NoCtx /\ stage' = stage
    <3>1. /\ stage' = "serving"
          /\ pglcf.query.def = None /\ method' \notin pglcf.query.methods_set
          /\ answer'.status = 405 => pglcf.query.methods_set # {}
      BY <1>6, <2>2 DEF HandleRequest, Page
    <3> QED  BY <1>1, <1>3, <1>5, <2>2, <3>1 DEF ByTable
  <2> QED  BY <1>6, <2>1, <2>2 DEF HandleRequest
<1>7. CASE TurnAway
  <2>1. stage' = "serving" /\ ctx' = NoCtx /\ answer'.status # 405
    BY <1>7, LocationAssumption DEF TurnAway, Page
  <2> QED  BY <1>1, <1>5, <2>1 DEF ByTable
<1>8. CASE InitPeer
  <2>1. /\ stage = "upstream" /\ stage' = "sent" /\ UNCHANGED <<method, answer>>
        /\ ctx' = [ctx EXCEPT !.query = Lookup(pglcf.query, method)]
    BY <1>8 DEF InitPeer
  <2>2. /\ DOMAIN ctx' = DOMAIN NoCtx
        /\ ctx'.query = Lookup(pglcf.query, method)
    BY <1>4, <1>5, <2>1 DEF ByTable, NoCtx, NewCtx
  <2>3. Lookup(pglcf.query, method) # None
    <3>1. QueryLevel \in Levels /\ GoodQuery(pglcf.query) /\ Matches(pglcf.query, QueryLevel)
      BY <1>1 DEF QueryInv, TablesAsGiven, ConfInv, QueryLevel, pglcf, Levels
    <3>2. PICK l \in Levels : l = QueryLevel
      BY <3>1
    <3>3. PICK i \in OfKind(l, "query") : Lookup(pglcf.query, method) = <<l, i>>
      BY <1>4, <2>1, <3>1, <3>2, LookupFinds DEF ByTable
    <3>4. i \in Nat
      BY <3>3 DEF OfKind, QueryInv, ConfInv
    <3> QED  BY <3>3, <3>4, LocationAssumption DEF Levels
  <2> QED  BY <1>1, <1>3, <1>5, <2>1, <2>2, <2>3 DEF ByTable
<1>9. CASE ProcessResponse
  <2>1. /\ stage = "sent" /\ stage' \in {"acked", "broken"} /\ UNCHANGED <<method, answer>>
        /\ DOMAIN ctx' = DOMAIN ctx /\ ctx'.query = ctx.query
    BY <1>4, <1>9, ResponseShape DEF ByTable
  <2> QED  BY <1>1, <1>3, <1>4, <1>5, <2>1 DEF ByTable
<1>10. CASE Done
  <2>1. stage = "acked" /\ stage' = "serving" /\ UNCHANGED <<method, ctx>>
    BY <1>10 DEF Done
  <2> QED  BY <1>1, <1>3, <1>4, <1>5, <2>1 DEF ByTable
<1>11. CASE Fail
  <2>1. stage' = "serving" /\ UNCHANGED <<method, ctx>> /\ answer'.status # 405
    BY <1>11, LocationAssumption DEF Fail, Page
  <2> QED  BY <1>1, <1>3, <1>4, <1>5, <2>1 DEF ByTable
<1> QED  BY <1>6, <1>7, <1>8, <1>9, <1>10, <1>11

(* Stuttering.                                                              *)
LEMMA UnchangedKeeps == QueryInv /\ UNCHANGED vars => QueryInv'
<1> SUFFICES ASSUME QueryInv, UNCHANGED vars PROVE QueryInv'  OBVIOUS
<1>1. ConfInv'
  BY ConfNext DEF QueryInv
<1>2. TablesAsGiven'
  <2>1. CASE stage \in {"reading", "refused"}
    <3>1. ASSUME NEW l \in Levels, NEW t, t = conf'[l].query  PROVE Matches(t, l)'
      <4>1. Matches(t, l) /\ given'[l] = given[l]
        BY <2>1, <3>1 DEF QueryInv, TablesAsGiven, vars
      <4> QED  BY <4>1, GivenKept
    <3> QED  BY <2>1, <3>1 DEF TablesAsGiven, vars
  <2>2. CASE stage \notin {"reading", "refused"}
    BY <2>2, ServingKeeps DEF vars
  <2> QED  BY <2>1, <2>2
<1>3. ByTable'
  BY DEF vars, QueryInv, ByTable, pglcf
<1> QED  BY <1>1, <1>2, <1>3 DEF QueryInv

(* The invariant of the queries is inductive.                               *)
LEMMA QueryStep == QueryInv /\ [Next]_vars => QueryInv'
<1> SUFFICES ASSUME QueryInv, [Next]_vars PROVE QueryInv'  OBVIOUS
<1>1. ConfInv'
  BY ConfNext DEF QueryInv
<1>2. CASE Next
  <2>1. ASSUME NEW l \in Levels,
               ConfQuery(l) \/ ConfRewrite(l) \/ ConfOutput(l) \/ ConfSet(l)
        PROVE  TablesAsGiven' /\ ByTable'
    BY <2>1, DirectiveKeeps
  <2>2. CASE MergeLocConf
    BY <1>1, <2>2, MergeKeeps DEF QueryInv
  <2>3. CASE HandleRequest \/ TurnAway \/ InitPeer \/ ProcessResponse \/ Done \/ Fail
    BY <1>1, <2>3, RequestKeeps DEF QueryInv
  <2>4. CASE UNCHANGED vars
    BY <2>4, UnchangedKeeps
  <2> QED  BY <1>1, <1>2, <2>1, <2>2, <2>3, <2>4 DEF Next, QueryInv
<1>3. CASE UNCHANGED vars
  BY <1>3, UnchangedKeeps
<1> QED  BY <1>2, <1>3

-----------------------------------------------------------------------------
(* Whatever the directives of a location and of the level around it, and    *)
(* however many requests, methods and results there are: every query that   *)
(* init_peer chooses is the one the file has for the method of the request, *)
(* no request is sent on without one, and one is refused as "not allowed"   *)
(* only when the file has queries, and none for its method.                 *)
THEOREM QueryCorrect == Spec => []QueryOfMethod
<1>1. QueryInv => QueryOfMethod
  <2> SUFFICES ASSUME QueryInv PROVE QueryOfMethod  OBVIOUS
  <2> DEFINE ds == InEffect("query")
             listing == {d \in ds : method \in Directive(d).methods}
             defaults == {d \in ds : Directive(d).methods = {}}
  <2>1. CASE stage \in {"reading", "refused"}
    <3>1. ctx.query = None /\ answer = None
      BY <2>1 DEF QueryInv, ByTable, NoCtx, NewCtx
    <3> QED  BY <2>1, <3>1 DEF QueryOfMethod
  <2>2. CASE stage \notin {"reading", "refused"}
    <3>1. PICK l \in Levels : l = QueryLevel
      BY DEF QueryLevel, Levels
    <3>2. ds = {<<l, k>> : k \in OfKind(l, "query")}
      BY <3>1 DEF InEffect, QueryLevel
    <3>3. \A k \in OfKind(l, "query") : <<l, k>> \in ds /\ Directive(<<l, k>>) = given[l][k]
      BY <3>2 DEF Directive
    <3>4. \A d \in ds : \E k \in OfKind(l, "query") : d = <<l, k>>
      BY <3>2
    <3> HIDE DEF ds
    <3>5. Matches(pglcf.query, l) /\ GoodQuery(pglcf.query)
      BY <2>2, <3>1 DEF QueryInv, TablesAsGiven, ConfInv, pglcf, Levels
    <3>6. \A d \in listing : method \in pglcf.query.methods_set
      BY <3>3, <3>4, <3>5 DEF Matches
    <3>7. \A d \in defaults : pglcf.query.def # None
      <4>1. \A k \in OfKind(l, "query") : <<l, k>> # None
        BY LocationAssumption DEF OfKind, QueryInv, ConfInv, Levels
      <4> QED  BY <3>3, <3>4, <3>5, <4>1 DEF Matches
    <3>8. ctx.query # None => ctx.query \in listing \/ (listing = {} /\ ctx.query \in defaults)
      <4> SUFFICES ASSUME ctx.query # None
                   PROVE  ctx.query \in listing \/ (listing = {} /\ ctx.query \in defaults)
        OBVIOUS
      <4>1. ctx.query = Lookup(pglcf.query, method)
        BY DEF QueryInv, ByTable
      <4>2. pglcf.query.def # None \/ method \in pglcf.query.methods_set
        BY <4>1 DEF Lookup
      <4>3. PICK i \in OfKind(l, "query") :
               /\ ctx.query = <<l, i>>
               /\ IF method \in pglcf.query.methods_set THEN method \in given[l][i].methods
                  ELSE given[l][i].methods = {}
        <5> DEFINE t == pglcf.query
        <5> HIDE DEF t
        <5>1. GoodQuery(t) /\ Matches(t, l) /\ (t.def # None \/ method \in t.methods_set)
          BY <3>5, <4>2 DEF t
        <5>2. \E i \in OfKind(l, "query") :
                 /\ Lookup(t, method) = <<l, i>>
                 /\ IF method \in t.methods_set THEN method \in given[l][i].methods
                    ELSE given[l][i].methods = {}
          BY Zenon, <5>1, LookupFinds
        <5> QED  BY Zenon, <4>1, <5>2 DEF t
      <4>4. ctx.query \in ds /\ Directive(ctx.query).methods = given[l][i].methods
        BY Zenon, <3>3, <4>3
      <4>5. CASE method \in pglcf.query.methods_set
        BY Zenon, <4>3, <4>4, <4>5
      <4>6. CASE method \notin pglcf.query.methods_set
        <5>1. listing = {}
          BY <3>6, <4>6
        <5> QED  BY Zenon, <4>3, <4>4, <4>6, <5>1
      <4> QED  BY <4>5, <4>6
    <3>9. pglcf.query.methods_set # {} => ds # {}
      <4>1. pglcf.query.methods_set # {} => DOMAIN pglcf.query.methods # {}
        BY <3>5 DEF GoodQuery, Unambiguous
      <4> QED  BY <3>3, <3>5, <4>1 DEF Matches
    <3>10. /\ stage \in {"sent", "broken", "acked"} => ctx.query # None
           /\ answer # None /\ answer.status = 405 /\ ctx = NoCtx =>
                 ds # {} /\ listing = {} /\ defaults = {}
      BY <3>6, <3>7, <3>9 DEF QueryInv, ByTable
    <3> QED  BY <3>8, <3>10 DEF QueryOfMethod, ds
  <2> QED  BY <2>1, <2>2
<1> QED  BY <1>1, QueryInit, QueryStep, PTL DEF Spec
-----------------------------------------------------------------------------
(* The invariant of the rewrites and of a request *)

(* The types of the rest of the configuration and of a request.             *)
Vars == [at : Positions, required : BOOLEAN]
TypesInv ==
    /\ stage \in {"reading", "refused", "serving", "upstream", "sent", "broken", "acked"}
    /\ \A l \in Levels : /\ conf[l].output \in Formats \cup {Unset}
                         /\ conf[l].variables = Unset \/ conf[l].variables \in Seq(Vars)
    /\ stage \notin {"reading", "refused"} =>
          /\ pglcf.output \in Formats /\ pglcf.variables \in Seq(Vars)
          /\ GoodRewrites(pglcf.rewrites)
    /\ method \in Methods \cup {None} /\ result \in Results \cup {None}
    /\ DOMAIN ctx = DOMAIN NoCtx
    /\ stage \in {"reading", "refused"} => result = None /\ ctx = NoCtx /\ answer = None
    /\ stage \in {"upstream", "sent", "broken", "acked"} => answer = None
    /\ stage \in {"upstream", "sent"} => result = None
    /\ stage \in {"broken", "acked"} => result # None

(* The directives of a level that rewrite under a condition.                *)
Of(l, what) == {i \in OfKind(l, "rewrite") : given[l][i].condition = what}

(* A table and the rewrites of its condition say the same.                  *)
TableSays(t, l, what) ==
    /\ \A j \in DOMAIN t.methods : \E i \in Of(l, what) :
          given[l][i].methods = t.methods[j].key /\ given[l][i].value = t.methods[j].value
    /\ t.def # None => \E i \in Of(l, what) : given[l][i].methods = {} /\ given[l][i].value = t.def
    /\ \A i \in Of(l, what) :
          IF given[l][i].methods = {} THEN t.def = given[l][i].value
          ELSE \E j \in DOMAIN t.methods :
                  given[l][i].methods = t.methods[j].key /\ given[l][i].value = t.methods[j].value

(* A list has a table for each condition of its level, in the order of      *)
(* their first mention.                                                     *)
Says(rs, l) ==
    /\ \A k \in DOMAIN rs : TableSays(rs[k].table, l, rs[k].condition)
    /\ \A i \in OfKind(l, "rewrite") : \E k \in DOMAIN rs : rs[k].condition = given[l][i].condition
    /\ \A j, k \in DOMAIN rs : j # k => rs[j].condition # rs[k].condition
    /\ \A j, k \in DOMAIN rs : j < k =>
          \A i \in Of(l, rs[k].condition) : \E h \in Of(l, rs[j].condition) : h < i

ListSays(rs, l) == Says(rs, l) /\ \A k \in DOMAIN rs : Of(l, rs[k].condition) # {}

RewriteLevel == IF OfKind("inner", "rewrite") # {} THEN "inner" ELSE "outer"

LevelSays(l) ==
    IF conf[l].rewrites = Unset THEN OfKind(l, "rewrite") = {}
    ELSE /\ OfKind(l, "rewrite") # {}
         /\ \A rs \in {conf[l].rewrites} : ListSays(rs, l)

RewritesInv ==
    /\ \A l \in Levels : \A i \in OfKind(l, "rewrite") : ValidStatus(given[l][i].value)
    /\ Len(given["outer"]) + Len(given["inner"]) <= MaxDirectives
    /\ stage \in {"reading", "refused"} => \A l \in Levels : LevelSays(l)
    /\ stage \notin {"reading", "refused"} =>
          \A l \in {RewriteLevel} : \A rs \in {pglcf.rewrites} : ListSays(rs, l)

(* A request before its result, and what is known of it after.              *)
ResultInv ==
    IF result = None
    THEN /\ ctx.cols = -1 /\ ctx.rows = -1 /\ ctx.affected = -1
         /\ ctx.status = 0 /\ ctx.response = None
         /\ \A k \in DOMAIN ctx.store : ctx.store[k] = 0
         /\ ctx # NoCtx => DOMAIN ctx.store = DOMAIN pglcf.variables
         /\ stage \in {"upstream", "sent"} => DOMAIN ctx.store = DOMAIN pglcf.variables
    ELSE /\ stage \notin {"reading", "refused"}
         /\ ctx.query # None
         /\ ctx.cols = Cols(result) /\ ctx.rows = Rows(result)
         /\ ctx.affected = Affected(result)
         /\ DOMAIN ctx.store = DOMAIN pglcf.variables
         /\ \A k \in DOMAIN ctx.store :
               ctx.store[k] = 0 \/ ctx.store[k] = SetCustom(result, pglcf.variables[k])

(* Where the status and the response come from.                             *)
StatusInv ==
    result # None =>
       LET to == Rewritten(ctx)
           out == OutputHandler(pglcf.output, result)
       IN  /\ \/ ctx.status = 0 /\ to = None
              \/ ctx.status = to /\ to # None
              \/ /\ ctx.status = 500 /\ (to # None => to < 300)
                 /\ Unsatisfied \/ pglcf.output \in {"value", "binary_value"}
           /\ stage = "acked" /\ ctx.status < 300 => ~Unsatisfied
           /\ ctx.response # None => ctx.response = out.response /\ out.rc = "done"
           /\ stage = "broken" => out.rc = "error"

AnswerInv == answer # None => AnswerMatches /\ answer.status \in 200..599

(* ConfRewrite, with names for its parts.                                   *)
Old(l) == IF conf[l].rewrites = Unset THEN <<>> ELSE conf[l].rewrites
Grown(rs, what) ==
    IF {k \in DOMAIN rs : rs[k].condition = what} # {} THEN rs
    ELSE Append(rs, [condition |-> what, table |-> NewTable])
At(rs, what) == CHOOSE k \in DOMAIN rs : rs[k].condition = what
RewriteLine(ms, what, to) ==
    [kind |-> "rewrite", methods |-> ms, value |-> to, condition |-> what]
WithRewrite(rs, ms, what, to) ==
    [rs EXCEPT ![At(rs, what)].table = Insert(@, ms, to)]

-----------------------------------------------------------------------------
(* The directives *)

(* postgres_rewrite is refused, or its value goes into the table of its     *)
(* condition.                                                               *)
LEMMA RewriteCases ==
    ASSUME NEW l, ConfRewrite(l)
    PROVE  \/ Refuse
           \/ \E ms \in MethodSets, what \in Conditions, to \in Targets :
                 LET rs == Grown(Old(l), what)
                 IN  /\ ~Duplicate(rs[At(rs, what)].table, ms) /\ ValidStatus(to)
                     /\ Accept(l, RewriteLine(ms, what, to),
                               [conf[l] EXCEPT !.rewrites = WithRewrite(rs, ms, what, to)])
<1> PICK ms \in MethodSets, what \in Conditions, to \in Targets :
      LET old == IF conf[l].rewrites = Unset THEN <<>> ELSE conf[l].rewrites
          known == {k \in DOMAIN old : old[k].condition = what}
          grown == IF known # {} THEN old
                   ELSE Append(old, [condition |-> what, table |-> NewTable])
          at == CHOOSE k \in DOMAIN grown : grown[k].condition = what
      IN  IF Duplicate(grown[at].table, ms) \/ ~ValidStatus(to) THEN Refuse
          ELSE Accept(l, [kind |-> "rewrite", methods |-> ms, value |-> to,
                          condition |-> what],
                      [conf[l] EXCEPT !.rewrites =
                         [grown EXCEPT ![at].table = Insert(@, ms, to)]])
  BY Zenon DEF ConfRewrite
<1>1. LET rs == Grown(Old(l), what)
      IN  IF Duplicate(rs[At(rs, what)].table, ms) \/ ~ValidStatus(to) THEN Refuse
          ELSE Accept(l, RewriteLine(ms, what, to),
                      [conf[l] EXCEPT !.rewrites = WithRewrite(rs, ms, what, to)])
  BY Zenon DEF Old, Grown, At, RewriteLine, WithRewrite
<1> QED  BY Zenon, <1>1

(* What a directive does to the parts of its level.                         *)
LEMMA DirectiveCases ==
    ASSUME ConfInv, NEW l \in Levels,
           ConfQuery(l) \/ ConfRewrite(l) \/ ConfOutput(l) \/ ConfSet(l)
    PROVE  /\ Reading(l)
           /\ \/ Refuse
              \/ \E d, c :
                    /\ Accept(l, d, c)
                    /\ \/ d.kind # "rewrite" /\ c.rewrites = conf[l].rewrites
                       \/ \E ms \in SUBSET Methods, what \in Conditions, to \in Targets :
                             LET rs == Grown(Old(l), what)
                             IN  /\ ~Duplicate(rs[At(rs, what)].table, ms) /\ ValidStatus(to)
                                 /\ d = RewriteLine(ms, what, to)
                                 /\ c.rewrites = WithRewrite(rs, ms, what, to)
                    /\ c.output \in {conf[l].output} \cup Formats
                    /\ \/ c.variables = conf[l].variables
                       \/ \E v \in Vars :
                             c.variables = Append(IF conf[l].variables = Unset THEN <<>>
                                                  ELSE conf[l].variables, v)
<1>0. DOMAIN conf[l] = {"query", "rewrites", "output", "variables"}
  BY DEF ConfInv
<1>1. CASE ConfQuery(l)
  <2> DEFINE sql == <<l, Len(given[l]) + 1>>
             c(ms) == [conf[l] EXCEPT !.query = Insert(@, ms, sql)]
             d(ms) == [kind |-> "query", methods |-> ms, value |-> sql]
  <2>1. PICK ms \in MethodSets :
           IF Duplicate(conf[l].query, ms) THEN Refuse ELSE Accept(l, d(ms), c(ms))
    BY <1>1 DEF ConfQuery
  <2>2. /\ c(ms).rewrites = conf[l].rewrites /\ c(ms).output = conf[l].output
        /\ c(ms).variables = conf[l].variables /\ d(ms).kind # "rewrite"
    BY <1>0
  <2>3. Reading(l)  BY <1>1 DEF ConfQuery
  <2> HIDE DEF c, d
  <2>4. CASE Refuse  BY <2>3, <2>4
  <2>5. CASE Accept(l, d(ms), c(ms))
    BY Zenon, <2>2, <2>3, <2>5
  <2> QED  BY <2>1, <2>4, <2>5
<1>2. CASE ConfRewrite(l)
  <2>1. Reading(l)  BY Zenon, <1>2 DEF ConfRewrite
  <2>2. CASE Refuse  BY <2>1, <2>2
  <2>3. ASSUME NEW ms \in MethodSets, NEW what \in Conditions, NEW to \in Targets,
               ~Duplicate(Grown(Old(l), what)[At(Grown(Old(l), what), what)].table, ms),
               ValidStatus(to),
               Accept(l, RewriteLine(ms, what, to),
                      [conf[l] EXCEPT !.rewrites =
                         WithRewrite(Grown(Old(l), what), ms, what, to)])
        PROVE  \E d, c :
                    /\ Accept(l, d, c)
                    /\ \E m \in SUBSET Methods, w \in Conditions, t \in Targets :
                             LET rs == Grown(Old(l), w)
                             IN  /\ ~Duplicate(rs[At(rs, w)].table, m) /\ ValidStatus(t)
                                 /\ d = RewriteLine(m, w, t)
                                 /\ c.rewrites = WithRewrite(rs, m, w, t)
                    /\ c.output = conf[l].output /\ c.variables = conf[l].variables
    <3> DEFINE new == WithRewrite(Grown(Old(l), what), ms, what, to)
               c == [conf[l] EXCEPT !.rewrites = new]
    <3> HIDE DEF new
    <3>1. /\ c.rewrites = new /\ c.output = conf[l].output
          /\ c.variables = conf[l].variables
      BY <1>0
    <3>2. Accept(l, RewriteLine(ms, what, to), c)  BY <2>3 DEF new
    <3>3. ms \in SUBSET Methods  BY LocationAssumption
    <3> HIDE DEF c
    <3> QED  BY Zenon, <2>3, <3>1, <3>2, <3>3 DEF new
  <2> QED  BY Zenon, <1>2, <2>1, <2>2, <2>3, RewriteCases
<1>3. CASE ConfOutput(l)
  <2> DEFINE c(format) == [conf[l] EXCEPT !.output = format]
             d(format) == [kind |-> "output", value |-> format]
  <2>1. PICK format \in Formats :
           IF conf[l].output # Unset THEN Refuse ELSE Accept(l, d(format), c(format))
    BY <1>3 DEF ConfOutput
  <2>2. /\ c(format).rewrites = conf[l].rewrites /\ c(format).output \in Formats
        /\ c(format).variables = conf[l].variables /\ d(format).kind # "rewrite"
    BY <1>0
  <2>3. Reading(l)  BY <1>3 DEF ConfOutput
  <2> HIDE DEF c, d
  <2>4. CASE Refuse  BY <2>3, <2>4
  <2>5. CASE Accept(l, d(format), c(format))
    BY Zenon, <2>2, <2>3, <2>5
  <2> QED  BY <2>1, <2>4, <2>5
<1>4. CASE ConfSet(l)
  <2> DEFINE v(at, required) == [at |-> at, required |-> required]
             old == IF conf[l].variables = Unset THEN <<>> ELSE conf[l].variables
             d(x) == [kind |-> "set", value |-> x]
             c(x) == [conf[l] EXCEPT !.variables = Append(old, x)]
  <2>1. PICK at \in Positions, required \in BOOLEAN :
           Accept(l, d(v(at, required)), c(v(at, required)))
    BY <1>4 DEF ConfSet
  <2>2. PICK x \in Vars : x = v(at, required)
    BY DEF Vars
  <2>3. /\ c(x).rewrites = conf[l].rewrites /\ c(x).output = conf[l].output
        /\ c(x).variables = Append(old, x) /\ d(x).kind # "rewrite"
    <3> HIDE DEF old
    <3> QED  BY <1>0
  <2>4. Reading(l)  BY <1>4 DEF ConfSet
  <2>5. Accept(l, d(x), c(x))  BY <2>1, <2>2
  <2> HIDE DEF c, d
  <2> QED  BY Zenon, <2>3, <2>4, <2>5
<1> QED  BY <1>1, <1>2, <1>3, <1>4

(* A directive changes its own level only.                                  *)
LEMMA AcceptFacts ==
    ASSUME ConfInv, NEW l \in Levels, NEW d, NEW c, Accept(l, d, c)
    PROVE  /\ conf'[l] = c /\ given'[l] = Append(given[l], d)
           /\ \A k \in Levels : k # l => conf'[k] = conf[k] /\ given'[k] = given[k]
           /\ UNCHANGED <<stage, method, result, ctx, answer>>
BY DEF Accept, ConfInv

(* The rewrites of a level, when no directive or one of another kind comes. *)
LEMMA SameRewrites ==
    ASSUME NEW l,
           \/ given'[l] = given[l]
           \/ \E S, d : /\ given[l] \in Seq(S) /\ d.kind # "rewrite"
                        /\ given'[l] = Append(given[l], d)
    PROVE  /\ OfKind(l, "rewrite")' = OfKind(l, "rewrite")
           /\ \A what : Of(l, what)' = Of(l, what)
           /\ \A i \in OfKind(l, "rewrite") : given'[l][i] = given[l][i]
<1>1. CASE given'[l] = given[l]
  BY <1>1 DEF OfKind, Of
<1>2. ASSUME NEW S, NEW d, given[l] \in Seq(S), d.kind # "rewrite",
             given'[l] = Append(given[l], d)
      PROVE  /\ OfKind(l, "rewrite")' = OfKind(l, "rewrite")
             /\ \A i \in OfKind(l, "rewrite") : given'[l][i] = given[l][i]
  <2>1. /\ DOMAIN given'[l] = DOMAIN given[l] \cup {Len(given[l]) + 1}
        /\ given'[l][Len(given[l]) + 1] = d
        /\ \A i \in DOMAIN given[l] : given'[l][i] = given[l][i]
    BY <1>2
  <2> QED  BY <1>2, <2>1 DEF OfKind
<1>3. CASE \E S, d : /\ given[l] \in Seq(S) /\ d.kind # "rewrite"
                     /\ given'[l] = Append(given[l], d)
  <2>1. /\ OfKind(l, "rewrite")' = OfKind(l, "rewrite")
        /\ \A i \in OfKind(l, "rewrite") : given'[l][i] = given[l][i]
    BY <1>2, <1>3
  <2> QED  BY <2>1 DEF Of
<1> QED  BY <1>1, <1>3

(* A table goes on saying what the file says when no directive of its       *)
(* condition comes.                                                         *)
LEMMA TableKept ==
    ASSUME NEW t, NEW l, NEW what, TableSays(t, l, what), Of(l, what)' = Of(l, what),
           \A i \in Of(l, what) : given'[l][i] = given[l][i]
    PROVE  TableSays(t, l, what)'
<1>1. PICK D : D = Of(l, what)
  OBVIOUS
<1>2. /\ Of(l, what)' = D
      /\ \A i \in D : given'[l][i] = given[l][i]
  BY <1>1
<1>3. /\ \A j \in DOMAIN t.methods : \E i \in D :
            given[l][i].methods = t.methods[j].key /\ given[l][i].value = t.methods[j].value
      /\ t.def # None => \E i \in D : given[l][i].methods = {} /\ given[l][i].value = t.def
      /\ \A i \in D :
            IF given[l][i].methods = {} THEN t.def = given[l][i].value
            ELSE \E j \in DOMAIN t.methods :
                    given[l][i].methods = t.methods[j].key /\ given[l][i].value = t.methods[j].value
  BY <1>1 DEF TableSays
<1>4. /\ \A j \in DOMAIN t.methods : \E i \in D :
            given'[l][i].methods = t.methods[j].key /\ given'[l][i].value = t.methods[j].value
      /\ t.def # None => \E i \in D : given'[l][i].methods = {} /\ given'[l][i].value = t.def
      /\ \A i \in D :
            IF given'[l][i].methods = {} THEN t.def = given'[l][i].value
            ELSE \E j \in DOMAIN t.methods :
                    given'[l][i].methods = t.methods[j].key /\ given'[l][i].value = t.methods[j].value
  BY <1>2, <1>3
<1> QED  BY <1>2, <1>4 DEF TableSays

(* The same for a list.                                                     *)
LEMMA ListKept ==
    ASSUME NEW l, NEW rs, ListSays(rs, l),
           OfKind(l, "rewrite")' = OfKind(l, "rewrite"),
           \A what : Of(l, what)' = Of(l, what),
           \A i \in OfKind(l, "rewrite") : given'[l][i] = given[l][i]
    PROVE  ListSays(rs, l)'
<1>1. \A what : \A i \in Of(l, what) : given'[l][i] = given[l][i]
  BY DEF Of
<1>2. \A t, what : TableSays(t, l, what) => TableSays(t, l, what)'
  BY <1>1, TableKept
<1> QED  BY <1>2 DEF ListSays, Says

(* A list that has a condition has one table for it.                        *)
LEMMA AtFinds ==
    ASSUME NEW rs, NEW what, \E k \in DOMAIN rs : rs[k].condition = what
    PROVE  At(rs, what) \in DOMAIN rs /\ rs[At(rs, what)].condition = what
BY DEF At

(* A condition that is new: it has no directive yet.                        *)
LEMMA GrownSays ==
    ASSUME NEW l, NEW rs, NEW what \in Conditions, GoodRewrites(rs), ListSays(rs, l)
    PROVE  LET g == Grown(rs, what)
           IN  /\ GoodRewrites(g) /\ Says(g, l)
               /\ At(g, what) \in DOMAIN g /\ g[At(g, what)].condition = what
               /\ \A k \in DOMAIN g : k # At(g, what) => Of(l, g[k].condition) # {}
<1> DEFINE known == {k \in DOMAIN rs : rs[k].condition = what}
           g == Grown(rs, what)
<1>1. CASE known # {}
  <2>1. g = rs  BY <1>1 DEF Grown
  <2> QED  BY <1>1, <2>1, AtFinds DEF ListSays
<1>2. CASE known = {}
  <2> DEFINE R == [condition : Conditions, table : RewriteTables]
             e == [condition |-> what, table |-> NewTable]
             n == Len(rs) + 1
  <2>1. g = Append(rs, e)  BY <1>2 DEF Grown
  <2>2. GoodRewrites(g) /\ \E k \in DOMAIN g : g[k].condition = what
    BY <2>1, GrownGood
  <2>3. e \in R /\ e.condition = what /\ e.table = NewTable
    BY NewTableGood DEF RewriteTables
  <2>4. rs \in Seq(R)  BY DEF GoodRewrites
  <2> HIDE DEF e, R, g
  <2>5. /\ n \in Nat /\ n \notin DOMAIN rs /\ DOMAIN g = DOMAIN rs \cup {n} /\ g[n] = e
        /\ \A k \in DOMAIN rs : g[k] = rs[k] /\ k \in Nat /\ k < n
    BY <2>1, <2>3, <2>4
  <2> HIDE DEF n
  <2>6. \A k \in DOMAIN rs : rs[k].condition # what
    BY <1>2
  <2>7. At(g, what) = n
    BY <2>2, <2>3, <2>5, <2>6, AtFinds
  <2>8. Of(l, what) = {}
    BY <2>6 DEF ListSays, Says, Of
  <2>9. TableSays(NewTable, l, what)
    BY <2>8 DEF TableSays, NewTable
  <2>10. Says(g, l)
    <3>1. \A k \in DOMAIN g : TableSays(g[k].table, l, g[k].condition)
      BY <2>3, <2>5, <2>9 DEF ListSays, Says
    <3>2. \A i \in OfKind(l, "rewrite") : \E k \in DOMAIN g : g[k].condition = given[l][i].condition
      BY <2>5 DEF ListSays, Says
    <3>3. \A j, k \in DOMAIN g : j # k => g[j].condition # g[k].condition
      BY <2>3, <2>5, <2>6 DEF ListSays, Says
    <3>4. ASSUME NEW j \in DOMAIN g, NEW k \in DOMAIN g, j < k, NEW i \in Of(l, g[k].condition)
          PROVE  \E h \in Of(l, g[j].condition) : h < i
      <4>1. k # n  BY <2>3, <2>5, <2>8, <3>4
      <4>2. k \in DOMAIN rs /\ j \in DOMAIN rs  BY <2>5, <3>4, <4>1
      <4> QED  BY <2>5, <3>4, <4>2 DEF ListSays, Says
    <3> QED  BY <3>1, <3>2, <3>3, <3>4 DEF Says
  <2> QED  BY <2>2, <2>3, <2>5, <2>7, <2>10 DEF ListSays, g
<1> QED  BY <1>1, <1>2

(* A rewrite goes to the end of the file and into the table of its          *)
(* condition.                                                               *)
LEMMA InsertSays ==
    ASSUME NEW l, NEW t \in RewriteTables, NEW what, TableSays(t, l, what),
           NEW ms \in SUBSET Methods, NEW to \in Targets, ~Duplicate(t, ms),
           NEW n, n \notin OfKind(l, "rewrite"),
           Of(l, what)' = Of(l, what) \cup {n},
           given'[l][n].methods = ms, given'[l][n].value = to,
           \A i \in OfKind(l, "rewrite") :
              given'[l][i] = given[l][i] /\ given[l][i].value \in Targets
    PROVE  \A u : u = Insert(t, ms, to) => TableSays(u, l, what)'
<1> SUFFICES ASSUME NEW u, u = Insert(t, ms, to)  PROVE TableSays(u, l, what)'
  OBVIOUS
<1>1. \A i \in Of(l, what) : given'[l][i] = given[l][i] /\ i # n
  BY DEF Of
<1>2. PICK D : D = Of(l, what)
  OBVIOUS
<1>3. to # None
  BY ResultsAssumption, LocationAssumption
<1>4. /\ \A j \in DOMAIN t.methods : \E i \in D :
            given[l][i].methods = t.methods[j].key /\ given[l][i].value = t.methods[j].value
      /\ t.def # None => \E i \in D : given[l][i].methods = {} /\ given[l][i].value = t.def
      /\ \A i \in D :
            IF given[l][i].methods = {} THEN t.def = given[l][i].value
            ELSE \E j \in DOMAIN t.methods :
                    given[l][i].methods = t.methods[j].key /\ given[l][i].value = t.methods[j].value
  BY <1>2 DEF TableSays
<1>5. \A i \in D : i # n /\ given'[l][i] = given[l][i]
  BY <1>1, <1>2
<1>6. Of(l, what)' = D \cup {n}
  BY <1>2
<1>7. CASE ms = {}
  <2>1. u.def = to /\ u.methods = t.methods /\ t.def = None
    BY <1>7 DEF Insert, Duplicate, RewriteTables, Table
  <2>2. \A i \in D : given[l][i].methods # {}
    <3>1. \A i \in D : given[l][i].value \in Targets
      BY <1>2 DEF Of
    <3> QED  BY <1>3, <1>4, <2>1, <3>1, ResultsAssumption, LocationAssumption
  <2>3. \A j \in DOMAIN u.methods : \E i \in D \cup {n} :
            given'[l][i].methods = u.methods[j].key /\ given'[l][i].value = u.methods[j].value
    BY <1>4, <1>5, <2>1
  <2>4. \E i \in D \cup {n} : given'[l][i].methods = {} /\ given'[l][i].value = u.def
    BY <1>7, <2>1
  <2>5. \A i \in D \cup {n} :
            IF given'[l][i].methods = {} THEN u.def = given'[l][i].value
            ELSE \E j \in DOMAIN u.methods :
                    given'[l][i].methods = u.methods[j].key /\ given'[l][i].value = u.methods[j].value
    BY <1>4, <1>5, <1>7, <2>1, <2>2
  <2> QED  BY <1>6, <2>3, <2>4, <2>5 DEF TableSays
<1>8. CASE ms # {}
  <2> DEFINE e == [key |-> ms, value |-> to]
             E == [key : SUBSET Methods, value : Targets]
             m == Len(t.methods) + 1
  <2>1. u.def = t.def /\ u.methods = Append(t.methods, e)
    BY <1>8 DEF Insert, RewriteTables, Table
  <2>2. t.methods \in Seq(E)
    BY DEF RewriteTables, Table
  <2>3. e \in E /\ e.key = ms /\ e.value = to
    OBVIOUS
  <2> HIDE DEF e, E
  <2>4. /\ DOMAIN u.methods = DOMAIN t.methods \cup {m} /\ u.methods[m] = e
        /\ \A j \in DOMAIN t.methods : u.methods[j] = t.methods[j]
    BY <2>1, <2>2, <2>3
  <2> HIDE DEF m
  <2>5. \A j \in DOMAIN u.methods : \E i \in D \cup {n} :
            given'[l][i].methods = u.methods[j].key /\ given'[l][i].value = u.methods[j].value
    BY <1>4, <1>5, <2>3, <2>4
  <2>6. u.def # None =>
            \E i \in D \cup {n} : given'[l][i].methods = {} /\ given'[l][i].value = u.def
    BY <1>4, <1>5, <2>1
  <2>7. \A i \in D \cup {n} :
            IF given'[l][i].methods = {} THEN u.def = given'[l][i].value
            ELSE \E j \in DOMAIN u.methods :
                    given'[l][i].methods = u.methods[j].key /\ given'[l][i].value = u.methods[j].value
    BY <1>4, <1>5, <1>8, <2>1, <2>3, <2>4
  <2> QED  BY <1>6, <2>5, <2>6, <2>7 DEF TableSays
<1> QED  BY <1>7, <1>8

(* A rewrite that is accepted is told by the list it is put into.           *)
LEMMA RewriteSays ==
    ASSUME NEW l, NEW S, given[l] \in Seq(S), NEW g, NEW ms \in SUBSET Methods,
           NEW what \in Conditions, NEW to \in Targets,
           GoodRewrites(g), Says(g, l), At(g, what) \in DOMAIN g,
           g[At(g, what)].condition = what,
           \A k \in DOMAIN g : k # At(g, what) => Of(l, g[k].condition) # {},
           \A i \in OfKind(l, "rewrite") : given[l][i].value \in Targets,
           ~Duplicate(g[At(g, what)].table, ms),
           given'[l] = Append(given[l], RewriteLine(ms, what, to))
    PROVE  /\ \A u : u = WithRewrite(g, ms, what, to) => ListSays(u, l)'
           /\ OfKind(l, "rewrite")' = OfKind(l, "rewrite") \cup {Len(given[l]) + 1}
           /\ \A i \in OfKind(l, "rewrite") : given'[l][i] = given[l][i]
           /\ given'[l][Len(given[l]) + 1].value = to
<1> DEFINE n == Len(given[l]) + 1
           at == At(g, what)
           d == RewriteLine(ms, what, to)
<1>1. d.kind = "rewrite" /\ d.methods = ms /\ d.value = to /\ d.condition = what
  BY DEF RewriteLine
<1> HIDE DEF d
<1>2. /\ n \in Nat /\ n \notin DOMAIN given[l] /\ given'[l][n] = d
      /\ DOMAIN given'[l] = DOMAIN given[l] \cup {n}
      /\ \A i \in DOMAIN given[l] : given'[l][i] = given[l][i] /\ i \in Nat /\ i < n
  BY DEF d
<1> HIDE DEF n
<1>3. /\ OfKind(l, "rewrite")' = OfKind(l, "rewrite") \cup {n} /\ n \notin OfKind(l, "rewrite")
      /\ \A i \in OfKind(l, "rewrite") : given'[l][i] = given[l][i] /\ i \in Nat /\ i < n
  BY <1>1, <1>2 DEF OfKind
<1>4. Of(l, what)' = Of(l, what) \cup {n}
  BY <1>1, <1>2, <1>3 DEF Of
<1>5. \A w : w # what => Of(l, w)' = Of(l, w)
  BY <1>1, <1>2, <1>3 DEF Of
<1>6. ASSUME NEW u, u = WithRewrite(g, ms, what, to)  PROVE ListSays(u, l)'
  <2> DEFINE R == [condition : Conditions, table : RewriteTables]
             new == Insert(g[at].table, ms, to)
  <2>1. g \in Seq(R)
    BY DEF GoodRewrites
  <2>2. at \in DOMAIN g /\ g[at].condition = what
    OBVIOUS
  <2> HIDE DEF R, at
  <2>3. g[at] \in R
    BY <2>1, <2>2
  <2>4. g[at].table \in RewriteTables /\ DOMAIN g[at] = {"condition", "table"}
    BY <2>3 DEF R
  <2>5. u = [g EXCEPT ![at].table = new]
    BY <1>6 DEF WithRewrite, at
  <2> HIDE DEF new
  <2>6. /\ DOMAIN u = DOMAIN g
        /\ u[at].table = new /\ u[at].condition = what
        /\ \A k \in DOMAIN g : k # at => u[k] = g[k]
    BY <2>1, <2>2, <2>4, <2>5
  <2>7. \A k \in DOMAIN g : u[k].condition = g[k].condition
    BY <2>2, <2>6
  <2>8. \A j, k \in DOMAIN g : j # k => g[j].condition # g[k].condition
    BY DEF Says
  <2>9. \A k \in DOMAIN g : k # at => Of(l, g[k].condition)' = Of(l, g[k].condition)
    BY <1>5, <2>2, <2>8
  <2>10. TableSays(u[at].table, l, u[at].condition)'
    <3>1. TableSays(g[at].table, l, what) /\ ~Duplicate(g[at].table, ms)
      BY <2>2 DEF Says, at
    <3>2. given'[l][n].methods = ms /\ given'[l][n].value = to
      BY <1>1, <1>2
    <3>3. \A v : v = new => TableSays(v, l, what)'
      BY <1>3, <1>4, <2>4, <3>1, <3>2, InsertSays DEF new
    <3> QED  BY <2>6, <3>3
  <2>11. ASSUME NEW k \in DOMAIN u, k # at
         PROVE  TableSays(u[k].table, l, u[k].condition)'
    <3>1. PICK t : t = u[k].table
      OBVIOUS
    <3>2. PICK w : w = u[k].condition
      OBVIOUS
    <3>3. TableSays(t, l, w) /\ Of(l, w)' = Of(l, w)
      BY <2>6, <2>7, <2>9, <2>11, <3>1, <3>2 DEF Says
    <3>4. \A i \in Of(l, w) : given'[l][i] = given[l][i]
      BY <1>3 DEF Of
    <3>5. TableSays(t, l, w)'
      BY <3>3, <3>4, TableKept
    <3> QED  BY <3>1, <3>2, <3>5
  <2>12. \A i \in OfKind(l, "rewrite")' : \E k \in DOMAIN u : u[k].condition = given'[l][i].condition
    <3>1. u[at].condition = given'[l][n].condition
      BY <1>1, <1>2, <2>6
    <3>2. \A i \in OfKind(l, "rewrite") : \E k \in DOMAIN u : u[k].condition = given'[l][i].condition
      <4>1. \A i \in OfKind(l, "rewrite") : \E k \in DOMAIN g : g[k].condition = given[l][i].condition
        BY DEF Says
      <4> QED  BY ZenonT(60), <1>3, <2>6, <2>7, <4>1
    <3> QED  BY <1>3, <2>2, <2>6, <3>1, <3>2
  <2>13. \A j, k \in DOMAIN u : j # k => u[j].condition # u[k].condition
    BY <2>6, <2>7, <2>8
  <2>14. ASSUME NEW j \in DOMAIN u, NEW k \in DOMAIN u, j < k, NEW i \in Of(l, u[k].condition)'
         PROVE  \E h \in Of(l, u[j].condition)' : h < i
    <3>1. j \in Nat /\ k \in Nat /\ j # k
      BY <2>1, <2>6, <2>14
    <3>2. Of(l, g[j].condition) \subseteq Of(l, u[j].condition)'
      BY <1>4, <2>2, <2>6, <2>7, <2>9
    <3>3. CASE i \in Of(l, g[k].condition)
      BY <2>6, <2>14, <3>2, <3>3 DEF Says
    <3>4. CASE i \notin Of(l, g[k].condition)
      <4>1. k = at /\ i = n
        BY <1>4, <2>2, <2>6, <2>7, <2>9, <2>14, <3>4
      <4>2. PICK h : h \in Of(l, g[j].condition)
        BY <2>6, <3>1, <4>1 DEF at
      <4>3. h < n
        BY <1>3, <4>2 DEF Of
      <4> QED  BY <3>2, <4>1, <4>2, <4>3
    <3> QED  BY <3>3, <3>4
  <2>15. \A k \in DOMAIN u : Of(l, u[k].condition)' # {}
    BY <1>4, <2>2, <2>6, <2>7, <2>9 DEF at
  <2> QED  BY <2>10, <2>11, <2>12, <2>13, <2>14, <2>15 DEF ListSays, Says
<1>7. given'[l][n].value = to
  BY <1>1, <1>2
<1> QED  BY <1>3, <1>6, <1>7 DEF n

(* What a rewrite of the file says.                                         *)
LEMMA LineTypes ==
    ASSUME ConfInv, NEW l \in Levels, NEW i \in OfKind(l, "rewrite")
    PROVE  /\ given[l][i].value \in Targets /\ given[l][i].condition \in Conditions
           /\ given[l][i].methods \in SUBSET Methods
           /\ i \in Nat /\ i # 0 /\ i <= Len(given[l]) /\ Len(given[l]) \in Nat
<1>1. given[l] \in Seq(Directives)
  BY DEF ConfInv
<1>2. given[l][i].kind = "rewrite" /\ i \in DOMAIN given[l]
  BY DEF OfKind
<1>3. given[l][i] \in Directives
  <2> HIDE DEF Directives
  <2> QED  BY <1>1, <1>2
<1>4. /\ given[l][i].value \in Targets /\ given[l][i].condition \in Conditions
      /\ given[l][i].methods \in SUBSET Methods
  BY <1>2, <1>3 DEF Directives
<1>5. i \in Nat /\ i # 0 /\ i <= Len(given[l]) /\ Len(given[l]) \in Nat
  <2> HIDE DEF Directives
  <2> QED  BY <1>1, <1>2
<1> QED  BY <1>4, <1>5

(* A level whose rewrites stay.                                             *)
LEMMA LevelKept ==
    ASSUME NEW l, LevelSays(l), conf'[l].rewrites = conf[l].rewrites,
           \/ given'[l] = given[l]
           \/ \E S, d : /\ given[l] \in Seq(S) /\ d.kind # "rewrite"
                        /\ given'[l] = Append(given[l], d)
    PROVE  /\ LevelSays(l)'
           /\ OfKind(l, "rewrite")' = OfKind(l, "rewrite")
           /\ \A i \in OfKind(l, "rewrite") : given'[l][i] = given[l][i]
<1>1. /\ OfKind(l, "rewrite")' = OfKind(l, "rewrite")
      /\ \A what : Of(l, what)' = Of(l, what)
      /\ \A i \in OfKind(l, "rewrite") : given'[l][i] = given[l][i]
  BY SameRewrites
<1>2. \A rs : ListSays(rs, l) => ListSays(rs, l)'
  BY <1>1, ListKept
<1> QED  BY <1>1, <1>2 DEF LevelSays

(* A level that gets a rewrite, the first of its condition or not.          *)
LEMMA LevelRewrite ==
    ASSUME ConfInv, NEW l \in Levels, LevelSays(l), NEW ms \in SUBSET Methods,
           NEW what \in Conditions, NEW to \in Targets, NEW c,
           LET rs == Grown(Old(l), what)
           IN  /\ ~Duplicate(rs[At(rs, what)].table, ms)
               /\ c.rewrites = WithRewrite(rs, ms, what, to),
           Accept(l, RewriteLine(ms, what, to), c)
    PROVE  /\ LevelSays(l)'
           /\ OfKind(l, "rewrite")' = OfKind(l, "rewrite") \cup {Len(given[l]) + 1}
           /\ \A i \in OfKind(l, "rewrite") : given'[l][i] = given[l][i]
           /\ given'[l][Len(given[l]) + 1].value = to
<1>1. conf'[l] = c /\ given'[l] = Append(given[l], RewriteLine(ms, what, to))
  BY AcceptFacts
<1>2. GoodRewrites(Old(l)) /\ ListSays(Old(l), l)
  <2>1. CASE conf[l].rewrites = Unset
    <3>1. Old(l) = <<>> /\ OfKind(l, "rewrite") = {}
      BY <2>1 DEF Old, LevelSays
    <3>2. DOMAIN <<>> = {}
      OBVIOUS
    <3> QED  BY <3>1, <3>2, NoRewritesGood DEF ListSays, Says
  <2>2. CASE conf[l].rewrites # Unset
    BY <2>2 DEF Old, LevelSays, ConfInv
  <2> QED  BY <2>1, <2>2
<1>3. PICK rs : rs = Old(l)
  OBVIOUS
<1>4. PICK g : g = Grown(rs, what)
  OBVIOUS
<1>5. /\ GoodRewrites(g) /\ Says(g, l)
      /\ At(g, what) \in DOMAIN g /\ g[At(g, what)].condition = what
      /\ \A k \in DOMAIN g : k # At(g, what) => Of(l, g[k].condition) # {}
  BY <1>2, <1>3, <1>4, GrownSays
<1>6. ~Duplicate(g[At(g, what)].table, ms) /\ c.rewrites = WithRewrite(g, ms, what, to)
  BY <1>3, <1>4
<1>7. \A i \in OfKind(l, "rewrite") : given[l][i].value \in Targets
  BY LineTypes
<1>8. given[l] \in Seq(Directives)
  BY DEF ConfInv
<1> HIDE DEF Directives
<1>9. /\ \A u : u = WithRewrite(g, ms, what, to) => ListSays(u, l)'
      /\ OfKind(l, "rewrite")' = OfKind(l, "rewrite") \cup {Len(given[l]) + 1}
      /\ \A i \in OfKind(l, "rewrite") : given'[l][i] = given[l][i]
      /\ given'[l][Len(given[l]) + 1].value = to
  BY <1>1, <1>5, <1>6, <1>7, <1>8, RewriteSays
<1>10. c.rewrites # Unset
  <2>1. GoodRewrites(WithRewrite(g, ms, what, to))
    BY <1>5, <1>6, RewriteGood DEF WithRewrite
  <2> QED  BY <1>6, <2>1, UnsetAssumption DEF GoodRewrites, RewriteLists, RewriteTables
<1>11. \A u \in {conf'[l].rewrites} : ListSays(u, l)'
  BY <1>1, <1>6, <1>9
<1> QED  BY <1>1, <1>9, <1>10, <1>11 DEF LevelSays

(* Every directive keeps the lists of rewrites and the file in agreement.   *)
LEMMA DirectiveRewrites ==
    ASSUME ConfInv, RewritesInv, NEW l \in Levels,
           ConfQuery(l) \/ ConfRewrite(l) \/ ConfOutput(l) \/ ConfSet(l)
    PROVE  RewritesInv'
<1>1. stage = "reading" /\ Len(given["outer"]) + Len(given["inner"]) < MaxDirectives
  BY DirectiveCases DEF Reading
<1>2. given \in [Levels -> Seq(Directives)]
  BY DEF ConfInv
<1>3. \A k \in Levels : LevelSays(k)
  BY <1>1 DEF RewritesInv
<1> HIDE DEF Directives
<1>4. CASE Refuse
  <2>1. stage' = "refused" /\ conf' = conf /\ given' = given
    BY <1>4 DEF Refuse
  <2>2. \A k \in Levels : /\ LevelSays(k)' /\ OfKind(k, "rewrite")' = OfKind(k, "rewrite")
    BY <1>3, <2>1, LevelKept
  <2> QED  BY <2>1, <2>2 DEF RewritesInv
<1>5. ASSUME NEW d, NEW c, Accept(l, d, c),
             \/ d.kind # "rewrite" /\ c.rewrites = conf[l].rewrites
             \/ \E ms \in SUBSET Methods, what \in Conditions, to \in Targets :
                   LET rs == Grown(Old(l), what)
                   IN  /\ ~Duplicate(rs[At(rs, what)].table, ms) /\ ValidStatus(to)
                       /\ d = RewriteLine(ms, what, to)
                       /\ c.rewrites = WithRewrite(rs, ms, what, to)
      PROVE  RewritesInv'
  <2>1. /\ conf'[l] = c /\ given'[l] = Append(given[l], d) /\ stage' = "reading"
        /\ \A k \in Levels : k # l => conf'[k] = conf[k] /\ given'[k] = given[k]
    BY <1>1, <1>5, AcceptFacts
  <2>2. /\ LevelSays(l)'
        /\ \A i \in OfKind(l, "rewrite")' : ValidStatus(given'[l][i].value)
    <3>1. CASE d.kind # "rewrite" /\ c.rewrites = conf[l].rewrites
      <4>1. \E S, e : /\ given[l] \in Seq(S) /\ e.kind # "rewrite"
                      /\ given'[l] = Append(given[l], e)
        BY <1>2, <2>1, <3>1
      <4>2. /\ LevelSays(l)' /\ OfKind(l, "rewrite")' = OfKind(l, "rewrite")
            /\ \A i \in OfKind(l, "rewrite") : given'[l][i] = given[l][i]
        BY <1>3, <2>1, <3>1, <4>1, LevelKept
      <4> QED  BY <4>2 DEF RewritesInv
    <3>2. ASSUME NEW ms \in SUBSET Methods, NEW what \in Conditions, NEW to \in Targets,
                 LET rs == Grown(Old(l), what)
                 IN  /\ ~Duplicate(rs[At(rs, what)].table, ms) /\ ValidStatus(to)
                     /\ d = RewriteLine(ms, what, to)
                     /\ c.rewrites = WithRewrite(rs, ms, what, to)
          PROVE  /\ LevelSays(l)'
                 /\ \A i \in OfKind(l, "rewrite")' : ValidStatus(given'[l][i].value)
      <4>1. /\ LevelSays(l)'
            /\ OfKind(l, "rewrite")' = OfKind(l, "rewrite") \cup {Len(given[l]) + 1}
            /\ \A i \in OfKind(l, "rewrite") : given'[l][i] = given[l][i]
            /\ given'[l][Len(given[l]) + 1].value = to
        BY ZenonT(60), <1>3, <1>5, <3>2, LevelRewrite
      <4>2. ValidStatus(to)
        BY <3>2
      <4> QED  BY <4>1, <4>2 DEF RewritesInv
    <3> QED  BY <1>5, <3>1, <3>2
  <2>3. \A k \in Levels \ {l} :
           /\ LevelSays(k)'
           /\ \A i \in OfKind(k, "rewrite")' : ValidStatus(given'[k][i].value)
    BY <1>3, <2>1, LevelKept DEF RewritesInv
  <2>4. Len(given'["outer"]) + Len(given'["inner"]) <= MaxDirectives
    <3>1. \A k \in Levels : Len(given[k]) \in Nat
      BY <1>2
    <3>2. Len(given'[l]) = Len(given[l]) + 1
      BY <1>2, <2>1
    <3>3. \A k \in Levels : k # l => Len(given'[k]) = Len(given[k])
      BY <2>1
    <3>4. PICK a \in Nat, b \in Nat : a = Len(given["outer"]) /\ b = Len(given["inner"])
      BY <3>1 DEF Levels
    <3>5. PICK x, y : x = Len(given'["outer"]) /\ y = Len(given'["inner"])
      OBVIOUS
    <3>6. \/ x = a + 1 /\ y = b
          \/ x = a /\ y = b + 1
      <4>1. CASE l = "outer"  BY <3>2, <3>3, <3>4, <3>5, <4>1 DEF Levels
      <4>2. CASE l = "inner"  BY <3>2, <3>3, <3>4, <3>5, <4>2 DEF Levels
      <4> QED  BY <4>1, <4>2 DEF Levels
    <3>7. a + b < MaxDirectives /\ MaxDirectives \in Nat
      BY <1>1, <3>4, LocationAssumption
    <3>8. x + y <= MaxDirectives
      BY <3>6, <3>7
    <3> QED  BY <3>5, <3>8
  <2> QED  BY <2>1, <2>2, <2>3, <2>4 DEF RewritesInv
<1>6. \/ Refuse
      \/ \E d, c :
            /\ Accept(l, d, c)
            /\ \/ d.kind # "rewrite" /\ c.rewrites = conf[l].rewrites
               \/ \E ms \in SUBSET Methods, what \in Conditions, to \in Targets :
                     LET rs == Grown(Old(l), what)
                     IN  /\ ~Duplicate(rs[At(rs, what)].table, ms) /\ ValidStatus(to)
                         /\ d = RewriteLine(ms, what, to)
                         /\ c.rewrites = WithRewrite(rs, ms, what, to)
  BY ZenonT(60), DirectiveCases
<1> QED  BY <1>4, <1>5, <1>6

(* The merge takes the list of the location, or that around it, or none.    *)
LEMMA MergeRewrites ==
    ASSUME ConfInv, RewritesInv, MergeLocConf
    PROVE  RewritesInv'
<1> DEFINE prev == conf["outer"].rewrites
           own == conf["inner"].rewrites
<1>1. /\ stage = "reading" /\ stage' = "serving" /\ given' = given
      /\ pglcf'.rewrites = Inherited(own, prev, <<>>)
  BY DEF MergeLocConf, ConfInv, Levels, pglcf
<1>2. LevelSays("inner") /\ LevelSays("outer")
  BY <1>1 DEF RewritesInv, Levels
<1>3. /\ \A l \in Levels : OfKind(l, "rewrite")' = OfKind(l, "rewrite")
      /\ \A l \in Levels : \A rs : ListSays(rs, l) => ListSays(rs, l)'
  BY <1>1, SameRewrites, ListKept
<1>4. \A l \in {RewriteLevel'} : \A rs \in {pglcf'.rewrites} : ListSays(rs, l)
  <2>1. CASE own # Unset
    <3>1. RewriteLevel' = "inner" /\ pglcf'.rewrites = own
      BY <1>1, <1>2, <1>3, <2>1 DEF RewriteLevel, LevelSays, Inherited, Levels
    <3> QED  BY <1>2, <2>1, <3>1 DEF LevelSays
  <2>2. CASE own = Unset /\ prev # Unset
    <3>1. RewriteLevel' = "outer" /\ pglcf'.rewrites = prev
      BY <1>1, <1>2, <1>3, <2>2 DEF RewriteLevel, LevelSays, Inherited, Levels
    <3> QED  BY <1>2, <2>2, <3>1 DEF LevelSays
  <2>3. CASE own = Unset /\ prev = Unset
    <3>1. RewriteLevel' = "outer" /\ pglcf'.rewrites = <<>> /\ OfKind("outer", "rewrite") = {}
      BY <1>1, <1>2, <1>3, <2>3 DEF RewriteLevel, LevelSays, Inherited, Levels
    <3>2. DOMAIN <<>> = {}
      OBVIOUS
    <3>3. ListSays(<<>>, "outer")
      BY <3>1, <3>2 DEF ListSays, Says
    <3> QED  BY <3>1, <3>3
  <2> QED  BY <2>1, <2>2, <2>3
<1>5. RewriteLevel' \in Levels
  BY DEF RewriteLevel, Levels
<1>6. \A l \in {RewriteLevel'} : \A rs \in {pglcf'.rewrites} : ListSays(rs, l)'
  BY <1>3, <1>4, <1>5
<1> QED  BY <1>1, <1>3, <1>6 DEF RewritesInv

(* And nothing changes it afterwards.                                       *)
LEMMA ServingRewrites ==
    ASSUME RewritesInv, UNCHANGED <<given, conf>>,
           stage \in {"reading", "refused"} <=> stage' \in {"reading", "refused"}
    PROVE  RewritesInv'
<1>1. /\ \A l \in Levels : OfKind(l, "rewrite")' = OfKind(l, "rewrite")
      /\ \A l \in Levels : \A rs : ListSays(rs, l) => ListSays(rs, l)'
  BY SameRewrites, ListKept
<1>2. \A l \in Levels : LevelSays(l) => LevelSays(l)'
  BY LevelKept
<1>3. RewriteLevel' = RewriteLevel /\ pglcf' = pglcf /\ RewriteLevel \in Levels
  BY <1>1 DEF RewriteLevel, pglcf, Levels
<1>4. \A rs : ListSays(rs, RewriteLevel) => \A l \in {RewriteLevel'} : ListSays(rs, l)'
  BY <1>1, <1>3
<1> QED  BY <1>1, <1>2, <1>3, <1>4 DEF RewritesInv

-----------------------------------------------------------------------------
(* The results *)

(* What ngx_postgres_process_response does, case by case.                   *)
LEMMA ResponseCases ==
    ASSUME ProcessResponse, DOMAIN ctx = DOMAIN NoCtx
    PROVE  \E res \in Results, lost \in SUBSET DOMAIN pglcf.variables :
              /\ stage = "sent" /\ UNCHANGED <<given, conf, method, answer>>
              /\ result' = res /\ DOMAIN ctx' = DOMAIN NoCtx /\ ctx'.query = ctx.query
              /\ ctx'.cols = Cols(res) /\ ctx'.rows = Rows(res)
              /\ ctx'.affected = Affected(res)
              /\ LET to == Rewritten(Seen(res))
                     out == OutputHandler(pglcf.output, res)
                 IN  \/ /\ to # None /\ to >= 300 /\ stage' = "acked" /\ ctx'.status = to
                        /\ ctx'.store = ctx.store /\ ctx'.response = ctx.response
                     \/ /\ ~(to # None /\ to >= 300) /\ ctx'.store = Stored(res, lost)
                        /\ \/ /\ Missing(res, lost) # {} /\ stage' = "acked"
                              /\ ctx'.status = 500 /\ ctx'.response = ctx.response
                           \/ /\ Missing(res, lost) = {} /\ out.rc = "done" /\ stage' = "acked"
                              /\ ctx'.response = out.response
                              /\ ctx'.status = IF out.status # None THEN out.status
                                               ELSE IF to = None THEN ctx.status ELSE to
                           \/ /\ Missing(res, lost) = {} /\ out.rc = "error" /\ stage' = "broken"
                              /\ ctx'.response = ctx.response
                              /\ ctx'.status = IF to = None THEN ctx.status ELSE to
<1>1. PICK res \in Results, lost \in SUBSET DOMAIN pglcf.variables :
        LET to == Rewritten(Seen(res))
            special == to # None /\ to >= 300
            rewritten == IF to = None THEN Seen(res)
                         ELSE [Seen(res) EXCEPT !.status = to]
            stored == [rewritten EXCEPT !.store = Stored(res, lost)]
            out == OutputHandler(pglcf.output, res)
        IN  /\ \A k \in lost : SetCustom(res, pglcf.variables[k]) # 0
            /\ result' = res
            /\ \/ special /\ Processed(rewritten)
               \/ /\ ~special /\ Missing(res, lost) # {}
                  /\ Processed([stored EXCEPT !.status = 500])
               \/ /\ ~special /\ Missing(res, lost) = {} /\ out.rc = "done"
                  /\ Processed([stored EXCEPT
                        !.status = IF out.status = None THEN @ ELSE out.status,
                        !.response = out.response])
               \/ /\ ~special /\ Missing(res, lost) = {} /\ out.rc = "error"
                  /\ ctx' = stored /\ stage' = "broken"
  BY Zenon DEF ProcessResponse
<1> DEFINE to == Rewritten(Seen(res))
           seen == Seen(res)
           rewritten == IF to = None THEN seen ELSE [seen EXCEPT !.status = to]
           stored == [rewritten EXCEPT !.store = Stored(res, lost)]
           out == OutputHandler(pglcf.output, res)
           failed == [stored EXCEPT !.status = 500]
           done == [stored EXCEPT !.status = IF out.status = None THEN @ ELSE out.status,
                                  !.response = out.response]
           Fields(c, status, store, response) ==
              /\ DOMAIN c = DOMAIN NoCtx /\ c.query = ctx.query
              /\ c.cols = Cols(res) /\ c.rows = Rows(res) /\ c.affected = Affected(res)
              /\ c.status = status /\ c.store = store /\ c.response = response
<1>2. /\ result' = res /\ stage = "sent" /\ UNCHANGED <<given, conf, method, answer>>
  BY Zenon, <1>1 DEF ProcessResponse
<1>3. \/ to # None /\ to >= 300 /\ ctx' = rewritten /\ stage' = "acked"
      \/ /\ ~(to # None /\ to >= 300)
         /\ \/ Missing(res, lost) # {} /\ ctx' = failed /\ stage' = "acked"
            \/ Missing(res, lost) = {} /\ out.rc = "done" /\ ctx' = done /\ stage' = "acked"
            \/ Missing(res, lost) = {} /\ out.rc = "error" /\ ctx' = stored /\ stage' = "broken"
  BY Zenon, <1>1 DEF Processed
<1>4. DOMAIN NoCtx = {"query", "cols", "rows", "affected", "status", "store", "response"}
  BY DEF NoCtx, NewCtx
<1>5. Fields(seen, ctx.status, ctx.store, ctx.response)
  BY <1>4 DEF Seen
<1> DEFINE status == IF to = None THEN ctx.status ELSE to
<1> HIDE DEF to, seen
<1>6. Fields(rewritten, status, ctx.store, ctx.response)
  BY <1>4, <1>5
<1> HIDE DEF rewritten
<1>7. Fields(stored, status, Stored(res, lost), ctx.response)
  BY <1>4, <1>6
<1> HIDE DEF stored, out
<1>8. Fields(failed, 500, Stored(res, lost), ctx.response)
  BY <1>4, <1>7
<1>9. Fields(done, IF out.status # None THEN out.status ELSE status, Stored(res, lost), out.response)
  BY <1>4, <1>7
<1> HIDE DEF failed, done
<1>10. \/ to # None /\ to >= 300 /\ stage' = "acked" /\ Fields(ctx', to, ctx.store, ctx.response)
       \/ /\ ~(to # None /\ to >= 300)
          /\ \/ /\ Missing(res, lost) # {} /\ stage' = "acked"
                /\ Fields(ctx', 500, Stored(res, lost), ctx.response)
             \/ /\ Missing(res, lost) = {} /\ out.rc = "done" /\ stage' = "acked"
                /\ Fields(ctx', IF out.status # None THEN out.status ELSE status,
                          Stored(res, lost), out.response)
             \/ /\ Missing(res, lost) = {} /\ out.rc = "error" /\ stage' = "broken"
                /\ Fields(ctx', status, Stored(res, lost), ctx.response)
  BY <1>3, <1>6, <1>7, <1>8, <1>9
<1>11. /\ DOMAIN ctx' = DOMAIN NoCtx /\ ctx'.query = ctx.query
       /\ ctx'.cols = Cols(res) /\ ctx'.rows = Rows(res) /\ ctx'.affected = Affected(res)
       /\ \/ /\ to # None /\ to >= 300 /\ stage' = "acked" /\ ctx'.status = to
             /\ ctx'.store = ctx.store /\ ctx'.response = ctx.response
          \/ /\ ~(to # None /\ to >= 300) /\ ctx'.store = Stored(res, lost)
             /\ \/ /\ Missing(res, lost) # {} /\ stage' = "acked"
                   /\ ctx'.status = 500 /\ ctx'.response = ctx.response
                \/ /\ Missing(res, lost) = {} /\ out.rc = "done" /\ stage' = "acked"
                   /\ ctx'.response = out.response
                   /\ ctx'.status = IF out.status # None THEN out.status
                                    ELSE IF to = None THEN ctx.status ELSE to
                \/ /\ Missing(res, lost) = {} /\ out.rc = "error" /\ stage' = "broken"
                   /\ ctx'.response = ctx.response
                   /\ ctx'.status = IF to = None THEN ctx.status ELSE to
  BY Zenon, <1>10
<1> QED  BY Zenon, <1>2, <1>11 DEF to, out

(* The value of a variable is a length; one that is not 0 is a cell's.      *)
LEMMA SetCustomFinds ==
    ASSUME NEW res \in PGresults, NEW v \in Vars
    PROVE  /\ SetCustom(res, v) \in Nat
           /\ SetCustom(res, v) # 0 =>
                 \E at \in (DOMAIN res.rows) \X (DOMAIN res.names) :
                    SetCustom(res, v) = res.rows[at[1]][at[2]]
<1> DEFINE cols == {k \in 0..(Cols(res) - 1) :
                      IF v.at.name = None THEN k = v.at.column
                      ELSE /\ res.names[k + 1] = v.at.name
                           /\ \A j \in 1..k : res.names[j] # v.at.name}
           row == v.at.row
           k == CHOOSE k \in cols : TRUE
           cell == Cell(res, row, k)
<1>1. /\ res.names \in Seq(DOMAIN NameLen) /\ res.rows \in Seq(Seq(Nat \cup {Null}))
      /\ \A i \in DOMAIN res.rows : Len(res.rows[i]) = Len(res.names)
  BY DEF PGresults
<1>2. row \in Nat
  BY ResultsAssumption DEF Vars
<1>3. SetCustom(res, v) = IF cols = {} \/ row >= Rows(res) THEN 0 ELSE PQgetlength(cell)
  BY DEF SetCustom
<1>4. CASE cols = {} \/ row >= Rows(res)
  BY <1>3, <1>4
<1>5. CASE ~(cols = {} \/ row >= Rows(res))
  <2>1. Len(res.names) \in Nat /\ Len(res.rows) \in Nat
        /\ DOMAIN res.names = 1..Len(res.names) /\ DOMAIN res.rows = 1..Len(res.rows)
    BY <1>1
  <2>2. k \in 0..(Cols(res) - 1)
    BY <1>5
  <2> HIDE DEF k, row
  <2>3. row + 1 \in DOMAIN res.rows /\ k + 1 \in DOMAIN res.names
    BY <1>2, <1>5, <2>1, <2>2 DEF Rows, Cols
  <2>4. res.rows[row + 1] \in Seq(Nat \cup {Null}) /\ Len(res.rows[row + 1]) = Len(res.names)
    BY <1>1, <2>3
  <2>5. res.rows[row + 1][k + 1] \in Nat \cup {Null}
    BY <2>1, <2>3, <2>4
  <2>6. cell = res.rows[row + 1][k + 1]
    BY DEF Cell
  <2> HIDE DEF cell
  <2>7. SetCustom(res, v) = IF cell = Null THEN 0 ELSE cell
    BY <1>3, <1>5 DEF PQgetlength
  <2>8. SetCustom(res, v) # 0 => SetCustom(res, v) = res.rows[row + 1][k + 1]
    BY <2>6, <2>7
  <2>9. <<row + 1, k + 1>> \in (DOMAIN res.rows) \X (DOMAIN res.names)
    BY <2>3
  <2>10. SetCustom(res, v) \in Nat
    BY <2>5, <2>6, <2>7
  <2>11. ASSUME NEW r \in DOMAIN res.rows, NEW c \in DOMAIN res.names
         PROVE  \E at \in (DOMAIN res.rows) \X (DOMAIN res.names) :
                   res.rows[at[1]][at[2]] = res.rows[r][c]
    <3>1. <<r, c>>[1] = r /\ <<r, c>>[2] = c  OBVIOUS
    <3> QED  BY <3>1
  <2>12. \E at \in (DOMAIN res.rows) \X (DOMAIN res.names) :
            res.rows[at[1]][at[2]] = res.rows[row + 1][k + 1]
    BY <2>3, <2>11
  <2> QED  BY <2>8, <2>10, <2>12
<1> QED  BY <1>4, <1>5

-----------------------------------------------------------------------------
(* Which rewrite applies *)

(* A rewrite of a condition applies to a method: it lists it, or is for all *)
(* methods and none of the condition lists it.                              *)
Fits(l, what, i, m) ==
    \/ m \in given[l][i].methods
    \/ /\ given[l][i].methods = {}
       /\ \A h \in Of(l, what) : m \notin given[l][h].methods

(* A status is no NULL.                                                     *)
LEMMA TargetsAre == \A x \in Targets : x \in Int /\ x # None
<1>1. Targets \subseteq Int  BY LocationAssumption
<1>2. None \notin Int  BY ResultsAssumption
<1> QED  BY <1>1, <1>2

(* What is looked up in a table is the value of a rewrite that fits the     *)
(* method, and of every one that does.                                      *)
LEMMA LookupSays ==
    ASSUME NEW t \in RewriteTables, Unambiguous(t), NEW l, NEW what, TableSays(t, l, what), NEW m,
           \A i \in Of(l, what) : given[l][i].value \in Targets
    PROVE  /\ Lookup(t, m) # None =>
                 \E i \in Of(l, what) : Fits(l, what, i, m) /\ Lookup(t, m) = given[l][i].value
           /\ \A i \in Of(l, what) : Fits(l, what, i, m) =>
                 Lookup(t, m) # None /\ Lookup(t, m) = given[l][i].value
<1>0. PICK D : D = Of(l, what)
  OBVIOUS
<1>1. /\ \A j \in DOMAIN t.methods : \E i \in D :
            given[l][i].methods = t.methods[j].key /\ given[l][i].value = t.methods[j].value
      /\ t.def # None => \E i \in D : given[l][i].methods = {} /\ given[l][i].value = t.def
      /\ \A i \in D :
            IF given[l][i].methods = {} THEN t.def = given[l][i].value
            ELSE \E j \in DOMAIN t.methods :
                    given[l][i].methods = t.methods[j].key /\ given[l][i].value = t.methods[j].value
  BY <1>0 DEF TableSays
<1>2. \A i \in D : given[l][i].value # None
  BY <1>0, TargetsAre
<1>3. \A i \in D : Fits(l, what, i, m) <=>
         \/ m \in given[l][i].methods
         \/ given[l][i].methods = {} /\ \A h \in D : m \notin given[l][h].methods
  BY <1>0 DEF Fits
<1>4. m \in t.methods_set <=> \E j \in DOMAIN t.methods : m \in t.methods[j].key
  BY DEF Unambiguous
<1>5. CASE m \in t.methods_set
  <2>1. PICK k \in DOMAIN t.methods : m \in t.methods[k].key
    BY <1>4, <1>5
  <2>2. \A j \in DOMAIN t.methods : j # k => m \notin t.methods[j].key
    BY <2>1 DEF Unambiguous
  <2>3. \A j \in 1..(k - 1) : j \in DOMAIN t.methods /\ j # k
    BY DEF RewriteTables, Table
  <2> DEFINE c == CHOOSE j \in DOMAIN t.methods :
                     /\ m \in t.methods[j].key
                     /\ \A i \in 1..(j - 1) : m \notin t.methods[i].key
  <2>4. c = k
    BY <2>1, <2>2, <2>3
  <2>5. Lookup(t, m) = t.methods[k].value
    BY <1>5, <2>4 DEF Lookup
  <2>6. PICK i \in D : given[l][i].methods = t.methods[k].key /\ given[l][i].value = t.methods[k].value
    BY <1>1
  <2>7. Lookup(t, m) = given[l][i].value /\ m \in given[l][i].methods
    BY <2>1, <2>5, <2>6
  <2>8. ASSUME NEW h \in D, Fits(l, what, h, m)
        PROVE  Lookup(t, m) # None /\ Lookup(t, m) = given[l][h].value
    <3>1. m \in given[l][h].methods
      BY <1>3, <2>7, <2>8
    <3>2. PICK j \in DOMAIN t.methods :
             given[l][h].methods = t.methods[j].key /\ given[l][h].value = t.methods[j].value
      BY <1>1, <3>1
    <3>3. j = k
      BY <2>2, <3>1, <3>2
    <3> QED  BY <1>2, <2>5, <3>2, <3>3
  <2>9. Fits(l, what, i, m)
    BY <1>3, <2>7
  <2> QED  BY <1>0, <2>7, <2>8, <2>9
<1>6. CASE m \notin t.methods_set
  <2>1. Lookup(t, m) = t.def
    BY <1>6 DEF Lookup
  <2>2. \A h \in D : m \notin given[l][h].methods
    <3>1. ASSUME NEW h \in D, m \in given[l][h].methods  PROVE FALSE
      <4>1. \E j \in DOMAIN t.methods : given[l][h].methods = t.methods[j].key
        BY <1>1, <3>1
      <4> QED  BY <1>4, <1>6, <3>1, <4>1
    <3> QED  BY <3>1
  <2>3. t.def # None => \E i \in D : Fits(l, what, i, m) /\ Lookup(t, m) = given[l][i].value
    BY <1>1, <1>3, <2>1, <2>2
  <2>4. \A i \in D : Fits(l, what, i, m) =>
           Lookup(t, m) # None /\ Lookup(t, m) = given[l][i].value
    BY <1>1, <1>2, <1>3, <2>1, <2>2
  <2> QED  BY <1>0, <2>1, <2>3, <2>4
<1> QED  BY <1>5, <1>6

(* The rewrite chosen: that of the first condition that is met and has a    *)
(* rewrite for the method.                                                  *)
Hit(l, k, c) ==
    /\ Met(pglcf.rewrites[k].condition, c)
    /\ \E i \in Of(l, pglcf.rewrites[k].condition) :
          Fits(l, pglcf.rewrites[k].condition, i, method)

(* The status of ngx_postgres_process_response is that of the first list    *)
(* entry that is hit.                                                       *)
LEMMA RewrittenSays ==
    ASSUME ConfInv, GoodRewrites(pglcf.rewrites), NEW l \in Levels, ListSays(pglcf.rewrites, l),
           NEW c
    PROVE  /\ Rewritten(c) = None =>
                 \A k \in DOMAIN pglcf.rewrites : ~Hit(l, k, c)
           /\ Rewritten(c) # None =>
                 \E k \in DOMAIN pglcf.rewrites :
                    /\ Hit(l, k, c)
                    /\ \A j \in DOMAIN pglcf.rewrites : j < k => ~Hit(l, j, c)
                    /\ \A i \in Of(l, pglcf.rewrites[k].condition) :
                          Fits(l, pglcf.rewrites[k].condition, i, method)
                          => Rewritten(c) = given[l][i].value
<1> DEFINE rs == pglcf.rewrites
           hits == {k \in DOMAIN rs :
                      Met(rs[k].condition, c) /\ Lookup(rs[k].table, method) # None}
           at == CHOOSE k \in hits : \A j \in hits : k <= j
           R == [condition : Conditions, table : RewriteTables]
<1>1. rs \in Seq(R) /\ \A k \in DOMAIN rs : Unambiguous(rs[k].table)
  BY DEF GoodRewrites
<1>2. Rewritten(c) = IF hits = {} THEN None ELSE Lookup(rs[at].table, method)
  BY DEF Rewritten
<1>3. DOMAIN rs \in SUBSET Nat /\ \A k \in DOMAIN rs : rs[k] \in R
  <2> HIDE DEF rs, R
  <2> QED  BY <1>1
<1>4. \A k \in DOMAIN rs : rs[k].table \in RewriteTables
  BY <1>3
<1>5. \A k \in DOMAIN rs : TableSays(rs[k].table, l, rs[k].condition)
  BY DEF ListSays, Says
<1>6. \A what : \A i \in Of(l, what) : given[l][i].value \in Targets
  BY LineTypes DEF Of
<1> HIDE DEF R
<1>7. \A k \in DOMAIN rs :
         /\ Lookup(rs[k].table, method) # None =>
               \E i \in Of(l, rs[k].condition) : Fits(l, rs[k].condition, i, method)
         /\ \A i \in Of(l, rs[k].condition) : Fits(l, rs[k].condition, i, method) =>
               Lookup(rs[k].table, method) # None
               /\ Lookup(rs[k].table, method) = given[l][i].value
  <2> HIDE DEF rs
  <2> QED  BY <1>1, <1>4, <1>5, <1>6, LookupSays
<1>8. \A k \in DOMAIN rs : k \in hits <=> Hit(l, k, c)
  BY <1>7 DEF Hit
<1>9. CASE hits = {}
  BY <1>2, <1>8, <1>9
<1>10. CASE hits # {}
  <2>1. hits \in SUBSET Nat
    BY <1>3
  <2>2. \E n \in hits : \A j \in hits : n <= j
    <3> HIDE DEF hits
    <3> QED  BY <1>10, <2>1, LeastNat
  <2>3. at \in hits /\ \A j \in hits : at <= j
    BY <2>2
  <2> HIDE DEF at
  <2>4. at \in DOMAIN rs /\ Rewritten(c) = Lookup(rs[at].table, method)
    BY <1>2, <1>10, <2>3
  <2>5. Lookup(rs[at].table, method) # None
    BY <2>3
  <2> HIDE DEF hits
  <2>6. \A j \in DOMAIN rs : j < at => ~Hit(l, j, c)
    <3>1. ASSUME NEW j \in DOMAIN rs, j < at, Hit(l, j, c)  PROVE FALSE
      <4>1. at <= j  BY <1>8, <2>3, <3>1
      <4>2. at \in Nat /\ j \in Nat  BY <1>3, <2>4
      <4> QED  BY <3>1, <4>1, <4>2
    <3> QED  BY <3>1
  <2>7. \A i \in Of(l, rs[at].condition) : Fits(l, rs[at].condition, i, method)
           => Rewritten(c) = given[l][i].value
    BY <1>7, <2>4
  <2>8. Hit(l, at, c)
    BY <1>8, <2>3, <2>4
  <2> QED  BY <2>4, <2>5, <2>6, <2>7, <2>8
<1> QED  BY <1>9, <1>10

-----------------------------------------------------------------------------
(* The invariant of a request *)

LocInv ==
    /\ QueryInv /\ TypesInv /\ RewritesInv
    /\ ResultInv /\ StatusInv /\ AnswerInv

(* A new context knows nothing.                                             *)
LEMMA NewCtxFacts ==
    ASSUME NEW n \in Nat
    PROVE  /\ DOMAIN NewCtx(n) = DOMAIN NoCtx /\ DOMAIN NewCtx(n).store = 1..n
           /\ NewCtx(n).cols = -1 /\ NewCtx(n).rows = -1 /\ NewCtx(n).affected = -1
           /\ NewCtx(n).status = 0 /\ NewCtx(n).response = None
           /\ \A k \in DOMAIN NewCtx(n).store : NewCtx(n).store[k] = 0
BY DEF NewCtx, NoCtx

(* The invariant holds before the first directive,                          *)
LEMMA LocInit == Init => LocInv
<1> SUFFICES ASSUME Init PROVE LocInv  OBVIOUS
<1>1. /\ stage = "reading" /\ result = None /\ ctx = NoCtx /\ answer = None /\ method = None
      /\ given = [l \in Levels |-> <<>>] /\ conf = [l \in Levels |-> CreateLocConf]
  BY DEF Init
<1>2. QueryInv  BY QueryInit
<1>3. TypesInv
  BY <1>1 DEF TypesInv, CreateLocConf
<1>4. \A l \in Levels : OfKind(l, "rewrite") = {} /\ conf[l].rewrites = Unset /\ Len(given[l]) = 0
  BY <1>1 DEF OfKind, CreateLocConf
<1>5. RewritesInv
  <2>1. Len(given["outer"]) = 0 /\ Len(given["inner"]) = 0
    BY <1>4 DEF Levels
  <2>2. Len(given["outer"]) + Len(given["inner"]) <= MaxDirectives
    BY <2>1, LocationAssumption
  <2> QED  BY <1>1, <1>4, <2>2 DEF RewritesInv, LevelSays
<1>6. ctx = NewCtx(0)  BY <1>1 DEF NoCtx
<1>7. ResultInv
  BY <1>1, <1>6, NewCtxFacts DEF ResultInv
<1>8. StatusInv /\ AnswerInv
  BY <1>1 DEF StatusInv, AnswerInv
<1> QED  BY <1>2, <1>3, <1>5, <1>7, <1>8 DEF LocInv

(* While the file is read there is no request.                              *)
LEMMA NoRequest ==
    ASSUME TypesInv, ResultInv, stage \in {"reading", "refused"},
           stage' \in {"reading", "refused", "serving"},
           UNCHANGED <<method, result, ctx, answer>>
    PROVE  ResultInv' /\ StatusInv' /\ AnswerInv'
<1>1. result = None /\ ctx = NoCtx /\ answer = None
  BY DEF TypesInv
<1> QED  BY <1>1 DEF ResultInv, StatusInv, AnswerInv

(* every directive keeps it,                                                *)
LEMMA DirectiveTypes ==
    ASSUME ConfInv, TypesInv, ResultInv, NEW l \in Levels,
           ConfQuery(l) \/ ConfRewrite(l) \/ ConfOutput(l) \/ ConfSet(l)
    PROVE  TypesInv' /\ ResultInv' /\ StatusInv' /\ AnswerInv'
<1>1. stage = "reading" /\ result = None /\ ctx = NoCtx /\ answer = None
  BY DirectiveCases DEF Reading, TypesInv
<1>2. CASE Refuse
  <2>1. stage' = "refused" /\ conf' = conf /\ UNCHANGED <<method, result, ctx, answer>>
    BY <1>2 DEF Refuse
  <2>2. ResultInv' /\ StatusInv' /\ AnswerInv'
    BY <1>1, <2>1, NoRequest
  <2> QED  BY <1>1, <2>1, <2>2 DEF TypesInv
<1>3. ASSUME NEW d, NEW c, Accept(l, d, c), c.output \in {conf[l].output} \cup Formats,
             \/ c.variables = conf[l].variables
             \/ \E v \in Vars : c.variables = Append(IF conf[l].variables = Unset THEN <<>>
                                                     ELSE conf[l].variables, v)
      PROVE  TypesInv' /\ ResultInv' /\ StatusInv' /\ AnswerInv'
  <2>1. /\ conf'[l] = c /\ stage' = "reading" /\ UNCHANGED <<method, result, ctx, answer>>
        /\ \A k \in Levels : k # l => conf'[k] = conf[k]
    BY <1>1, <1>3, AcceptFacts
  <2>2. ResultInv' /\ StatusInv' /\ AnswerInv'
    BY <1>1, <2>1, NoRequest
  <2>3. c.output \in Formats \cup {Unset}
    BY <1>3 DEF TypesInv
  <2>4. c.variables = Unset \/ c.variables \in Seq(Vars)
    <3> DEFINE old == IF conf[l].variables = Unset THEN <<>> ELSE conf[l].variables
    <3>1. old \in Seq(Vars)
      <4>1. <<>> \in Seq(Vars)  OBVIOUS
      <4> QED  BY <4>1 DEF TypesInv
    <3>2. \A v \in Vars : Append(old, v) \in Seq(Vars)
      <4> HIDE DEF old, Vars
      <4> QED  BY <3>1
    <3> QED  BY <1>3, <3>2 DEF TypesInv
  <2>5. \A k \in Levels : /\ conf'[k].output \in Formats \cup {Unset}
                          /\ conf'[k].variables = Unset \/ conf'[k].variables \in Seq(Vars)
    BY <2>1, <2>3, <2>4 DEF TypesInv
  <2> QED  BY <1>1, <2>1, <2>2, <2>5 DEF TypesInv
<1>4. \/ Refuse
      \/ \E d, c :
            /\ Accept(l, d, c) /\ c.output \in {conf[l].output} \cup Formats
            /\ \/ c.variables = conf[l].variables
               \/ \E v \in Vars :
                     c.variables = Append(IF conf[l].variables = Unset THEN <<>>
                                          ELSE conf[l].variables, v)
  BY Zenon, DirectiveCases
<1> QED  BY <1>2, <1>3, <1>4

(* and so does the merging.                                                 *)
LEMMA MergeTypes ==
    ASSUME ConfInv, TypesInv, ResultInv, MergeLocConf
    PROVE  TypesInv' /\ ResultInv' /\ StatusInv' /\ AnswerInv'
<1> DEFINE prev == conf["outer"]
           own == conf["inner"]
           c == [query |-> MergedQuery(prev.query, own.query),
                 rewrites |-> Inherited(own.rewrites, prev.rewrites, <<>>),
                 output |-> Inherited(own.output, prev.output, "rds"),
                 variables |-> Inherited(own.variables, prev.variables, <<>>)]
<1>1. /\ stage = "reading" /\ stage' = "serving" /\ conf' = [conf EXCEPT !["inner"] = c]
      /\ UNCHANGED <<method, result, ctx, answer>>
  BY DEF MergeLocConf
<1>2. ResultInv' /\ StatusInv' /\ AnswerInv'
  BY <1>1, NoRequest
<1>3. c.output \in Formats
  BY DEF TypesInv, Inherited, Formats, Levels
<1>4. c.variables \in Seq(Vars)
  <2>1. <<>> \in Seq(Vars)  OBVIOUS
  <2> QED  BY <2>1 DEF TypesInv, Inherited, Levels
<1>5. GoodRewrites(c.rewrites)
  BY NoRewritesGood DEF ConfInv, Inherited, Levels
<1> HIDE DEF c
<1>6. pglcf' = c /\ conf'["inner"] = c /\ conf'["outer"] = conf["outer"]
  BY <1>1 DEF ConfInv, Levels, pglcf
<1>7. \A k \in Levels : /\ conf'[k].output \in Formats \cup {Unset}
                        /\ conf'[k].variables = Unset \/ conf'[k].variables \in Seq(Vars)
  BY <1>3, <1>4, <1>6 DEF TypesInv, Levels
<1> QED  BY <1>1, <1>2, <1>3, <1>4, <1>5, <1>6, <1>7 DEF TypesInv

(* The answers that are a page of nginx.                                    *)
LEMMA Pages ==
    ASSUME NEW code \in {405, 500} \cup FailCodes, answer' = Page(code)
    PROVE  AnswerInv'
<1>1. answer'.status = code /\ answer'.page = TRUE
  BY DEF Page
<1>2. code \in 200..599
  BY LocationAssumption
<1>3. AnswerMatches'
  <2> DEFINE targets == {Directive(d).value : d \in InEffect("rewrite")}'
  <2>1. code \in targets \cup {405, 500} \cup FailCodes
    OBVIOUS
  <2> QED  BY <1>1, <2>1 DEF AnswerMatches
<1> QED  BY <1>1, <1>2, <1>3 DEF AnswerInv

(* Rewritten, for a list of rewrites and a method: of a context it reads    *)
(* the counters only.                                                       *)
RewrittenBy(rs, m, c) ==
    LET hits == {k \in DOMAIN rs : Met(rs[k].condition, c) /\ Lookup(rs[k].table, m) # None}
    IN  IF hits = {} THEN None
        ELSE Lookup(rs[CHOOSE k \in hits : \A j \in hits : k <= j].table, m)

(* Rewritten reads the configuration, the method and the context.           *)
LEMMA RewrittenIs ==
    /\ \A c : Rewritten(c) = RewrittenBy(pglcf.rewrites, method, c)
    /\ Rewritten(ctx)' = RewrittenBy(pglcf'.rewrites, method', ctx')
BY Zenon DEF Rewritten, RewrittenBy

(* Of the context it reads two counters.                                    *)
LEMMA RewrittenSame ==
    ASSUME NEW rs, NEW m, NEW c, NEW d, c.affected = d.affected, c.rows = d.rows
    PROVE  RewrittenBy(rs, m, c) = RewrittenBy(rs, m, d)
<1>1. \A what : Met(what, c) = Met(what, d)
  BY DEF Met
<1> DEFINE hits(e) == {k \in DOMAIN rs : Met(rs[k].condition, e) /\ Lookup(rs[k].table, m) # None}
<1>2. hits(c) = hits(d)
  BY <1>1
<1> HIDE DEF hits
<1>3. \A e : RewrittenBy(rs, m, e) =
               IF hits(e) = {} THEN None
               ELSE Lookup(rs[CHOOSE k \in hits(e) : \A j \in hits(e) : k <= j].table, m)
  BY Zenon DEF RewrittenBy, hits
<1> QED  BY Zenon, <1>2, <1>3

(* What the file can make of the status.                                    *)
LEMMA RewrittenTypes ==
    ASSUME ConfInv, TypesInv, RewritesInv, stage \notin {"reading", "refused"}, NEW c,
           Rewritten(c) # None
    PROVE  /\ Rewritten(c) \in Int /\ ValidStatus(Rewritten(c))
           /\ \E i \in OfKind(RewriteLevel, "rewrite") :
                 Rewritten(c) = given[RewriteLevel][i].value
<1>1. PICK l \in Levels : l = RewriteLevel
  BY DEF RewriteLevel, Levels
<1>2. GoodRewrites(pglcf.rewrites) /\ ListSays(pglcf.rewrites, l)
  BY <1>1 DEF TypesInv, RewritesInv
<1>3. PICK k \in DOMAIN pglcf.rewrites :
        /\ Hit(l, k, c)
        /\ \A i \in Of(l, pglcf.rewrites[k].condition) :
              Fits(l, pglcf.rewrites[k].condition, i, method)
              => Rewritten(c) = given[l][i].value
  BY <1>2, RewrittenSays
<1>4. PICK i \in OfKind(l, "rewrite") : Rewritten(c) = given[l][i].value
  BY <1>3 DEF Hit, Of
<1>5. given[l][i].value \in Int
  BY LineTypes, TargetsAre
<1> QED  BY <1>1, <1>4, <1>5 DEF RewritesInv

(* What is stored of a result.                                              *)
LEMMA StoredFacts ==
    ASSUME NEW res, NEW lost
    PROVE  /\ DOMAIN Stored(res, lost) = DOMAIN pglcf.variables
           /\ \A k \in DOMAIN pglcf.variables :
                 Stored(res, lost)[k] = 0 \/ Stored(res, lost)[k] = SetCustom(res, pglcf.variables[k])
           /\ Missing(res, lost) # {} =>
                 \E k \in DOMAIN pglcf.variables :
                    pglcf.variables[k].required /\ Stored(res, lost)[k] = 0
           /\ Missing(res, lost) = {} =>
                 \A k \in DOMAIN pglcf.variables :
                    pglcf.variables[k].required => Stored(res, lost)[k] # 0
<1>1. \A k \in Missing(res, lost) :
         /\ k \in DOMAIN pglcf.variables /\ pglcf.variables[k].required
         /\ k \in lost \/ SetCustom(res, pglcf.variables[k]) = 0
  BY DEF Missing
<1>2. \A k \in DOMAIN pglcf.variables :
         /\ pglcf.variables[k].required
         /\ k \in lost \/ SetCustom(res, pglcf.variables[k]) = 0
         => k \in Missing(res, lost)
  BY DEF Missing
<1>3. /\ DOMAIN Stored(res, lost) = DOMAIN pglcf.variables
      /\ \A k \in DOMAIN pglcf.variables :
            Stored(res, lost)[k] = IF k \in lost \/ \E j \in Missing(res, lost) : j < k THEN 0
                             ELSE SetCustom(res, pglcf.variables[k])
  BY DEF Stored
<1> QED  BY <1>1, <1>2, <1>3

(* The status an output asks for.                                           *)
LEMMA OutputStatus ==
    ASSUME NEW format \in Formats, NEW res, OutputHandler(format, res).status # None
    PROVE  OutputHandler(format, res).status = 500 /\ format \in {"value", "binary_value"}
<1>1. \A chain : Gives(chain).status = None
  BY DEF Gives
<1>2. format \in {"none", "rds", "text"} => OutputHandler(format, res).status = None
  BY <1>1 DEF OutputHandler, Nothing, OutputRds, OutputText
<1>3. format \in {"value", "binary_value"}
  BY <1>2 DEF Formats
<1>4. OutputValue(res).status \in {None, 500}
  BY <1>1 DEF OutputValue
<1> QED  BY <1>3, <1>4 DEF OutputHandler

(* Processing a result makes the counters, the values, the status and the   *)
(* response those of the result.                                            *)
LEMMA ResponseKeeps ==
    ASSUME ConfInv, TypesInv, RewritesInv, ResultInv, ByTable, ProcessResponse
    PROVE  TypesInv' /\ ResultInv' /\ StatusInv' /\ AnswerInv'
<1>0. DOMAIN ctx = DOMAIN NoCtx
  BY DEF TypesInv
<1> DEFINE Ends(res, lost, to, out) ==
              \/ /\ to # None /\ to >= 300 /\ stage' = "acked" /\ ctx'.status = to
                 /\ ctx'.store = ctx.store /\ ctx'.response = ctx.response
              \/ /\ ~(to # None /\ to >= 300) /\ ctx'.store = Stored(res, lost)
                 /\ \/ /\ Missing(res, lost) # {} /\ stage' = "acked"
                       /\ ctx'.status = 500 /\ ctx'.response = ctx.response
                    \/ /\ Missing(res, lost) = {} /\ out.rc = "done" /\ stage' = "acked"
                       /\ ctx'.response = out.response
                       /\ ctx'.status = IF out.status # None THEN out.status
                                        ELSE IF to = None THEN ctx.status ELSE to
                    \/ /\ Missing(res, lost) = {} /\ out.rc = "error" /\ stage' = "broken"
                       /\ ctx'.response = ctx.response
                       /\ ctx'.status = IF to = None THEN ctx.status ELSE to
<1>1. PICK res \in Results, lost \in SUBSET DOMAIN pglcf.variables :
         /\ stage = "sent" /\ UNCHANGED <<given, conf, method, answer>>
         /\ result' = res /\ DOMAIN ctx' = DOMAIN NoCtx /\ ctx'.query = ctx.query
         /\ ctx'.cols = Cols(res) /\ ctx'.rows = Rows(res)
         /\ ctx'.affected = Affected(res)
         /\ Ends(res, lost, Rewritten(Seen(res)), OutputHandler(pglcf.output, res))
  BY Zenon, <1>0, ResponseCases
<1>2. PICK to : to = Rewritten(Seen(res))
  OBVIOUS
<1>3. PICK out : out = OutputHandler(pglcf.output, res)
  OBVIOUS
<1>4. Ends(res, lost, to, out)
  <2> HIDE DEF Ends
  <2> QED  BY Zenon, <1>1, <1>2, <1>3
<1>5. res # None /\ result = None /\ answer = None /\ ctx.status = 0 /\ ctx.response = None
      /\ ctx.query # None
  BY <1>1, ResultsAssumption DEF TypesInv, ResultInv, ByTable
<1>6. pglcf' = pglcf /\ stage' \in {"acked", "broken"}
  BY <1>1, <1>4 DEF pglcf
<1>7. TypesInv'
  BY <1>1, <1>5, <1>6 DEF TypesInv
<1>8. /\ DOMAIN ctx'.store = DOMAIN pglcf.variables
      /\ \A k \in DOMAIN pglcf.variables :
            ctx'.store[k] = 0 \/ ctx'.store[k] = SetCustom(res, pglcf.variables[k])
  <2>1. CASE ctx'.store = ctx.store
    BY <1>1, <1>5, <2>1 DEF ResultInv
  <2>2. CASE ctx'.store = Stored(res, lost)
    BY <2>2, StoredFacts
  <2> QED  BY <1>4, <2>1, <2>2
<1>9. ResultInv'
  BY <1>1, <1>5, <1>6, <1>8 DEF ResultInv
<1>10. AnswerInv'
  BY <1>1, <1>5 DEF AnswerInv
<1>11. Rewritten(ctx)' = to
  <2>1. Seen(res).affected = Affected(res) /\ Seen(res).rows = Rows(res)
    BY <1>0 DEF Seen, NoCtx, NewCtx
  <2>2. RewrittenBy(pglcf.rewrites, method, ctx') = RewrittenBy(pglcf.rewrites, method, Seen(res))
    BY <1>1, <2>1, RewrittenSame
  <2> QED  BY <1>1, <1>2, <1>6, <2>2, RewrittenIs
<1>12. to # None => to \in Int
  BY <1>1, <1>2, RewrittenTypes
<1>13. /\ out.status # None => out.status = 500 /\ pglcf.output \in {"value", "binary_value"}
       /\ out = OutputHandler(pglcf'.output, result')
  <2>1. pglcf.output \in Formats
    BY <1>1 DEF TypesInv
  <2> QED  BY <1>1, <1>3, <1>6, <2>1, OutputStatus
<1>14. Unsatisfied' <=> \E k \in DOMAIN pglcf.variables :
                           pglcf.variables[k].required /\ ctx'.store[k] = 0
  BY <1>6 DEF Unsatisfied
<1>15. /\ \/ ctx'.status = 0 /\ to = None
          \/ ctx'.status = to /\ to # None
          \/ /\ ctx'.status = 500 /\ (to # None => to < 300)
             /\ Unsatisfied' \/ pglcf'.output \in {"value", "binary_value"}
       /\ stage' = "acked" /\ ctx'.status < 300 => ~Unsatisfied'
       /\ ctx'.response # None => ctx'.response = out.response /\ out.rc = "done"
       /\ stage' = "broken" => out.rc = "error"
  <2>1. CASE to # None /\ to >= 300 /\ stage' = "acked" /\ ctx'.status = to
             /\ ctx'.response = ctx.response
    BY <1>5, <1>12, <2>1
  <2>2. CASE /\ ~(to # None /\ to >= 300) /\ ctx'.store = Stored(res, lost)
             /\ Missing(res, lost) # {} /\ stage' = "acked"
             /\ ctx'.status = 500 /\ ctx'.response = ctx.response
    <3>1. Unsatisfied'
      BY <1>14, <2>2, StoredFacts
    <3> QED  BY <1>5, <1>12, <2>2, <3>1
  <2>3. CASE /\ ~(to # None /\ to >= 300) /\ ctx'.store = Stored(res, lost)
             /\ Missing(res, lost) = {} /\ out.rc = "done" /\ stage' = "acked"
             /\ ctx'.response = out.response
             /\ ctx'.status = IF out.status # None THEN out.status
                              ELSE IF to = None THEN ctx.status ELSE to
    <3>1. ~Unsatisfied'
      BY <1>14, <2>3, StoredFacts
    <3> QED  BY <1>5, <1>6, <1>12, <1>13, <2>3, <3>1
  <2>4. CASE /\ ~(to # None /\ to >= 300) /\ ctx'.store = Stored(res, lost)
             /\ Missing(res, lost) = {} /\ out.rc = "error" /\ stage' = "broken"
             /\ ctx'.response = ctx.response
             /\ ctx'.status = IF to = None THEN ctx.status ELSE to
    BY <1>5, <2>4
  <2> QED  BY Zenon, <1>4, <2>1, <2>2, <2>3, <2>4
<1>16. StatusInv'
  BY <1>1, <1>11, <1>13, <1>15 DEF StatusInv
<1> QED  BY <1>7, <1>9, <1>10, <1>16

(* A request that ends leaves its context to be read.                       *)
LEMMA Served ==
    ASSUME TypesInv, ResultInv, StatusInv, stage \notin {"reading", "refused"},
           stage' = "serving" \/ stage' = stage,
           UNCHANGED <<given, conf, method, result, ctx>>
    PROVE  ResultInv' /\ StatusInv'
<1>1. pglcf' = pglcf
  BY DEF pglcf
<1>2. Rewritten(ctx)' = Rewritten(ctx)
  BY <1>1, RewrittenIs
<1>3. ResultInv'
  BY <1>1 DEF ResultInv
<1>4. Unsatisfied' <=> Unsatisfied
  BY <1>1 DEF Unsatisfied
<1>5. StatusInv'
  BY <1>1, <1>2, <1>4 DEF StatusInv
<1> QED  BY <1>3, <1>5

(* The directives of a kind in effect are those of one level.               *)
LEMMA RewritesInEffect ==
    /\ InEffect("rewrite") = {<<RewriteLevel, k>> : k \in OfKind(RewriteLevel, "rewrite")}
    /\ \A l, k : Directive(<<l, k>>) = given[l][k]
BY DEF InEffect, RewriteLevel, Directive

(* What the client is sent when the result was processed.                   *)
LEMMA DoneAnswers ==
    ASSUME ConfInv, TypesInv, RewritesInv, ResultInv, StatusInv, Done
    PROVE  AnswerInv'
<1>1. /\ stage = "acked" /\ stage' = "serving" /\ UNCHANGED <<given, conf, method, result, ctx>>
      /\ answer' = IF ctx.status >= 300 THEN Page(ctx.status) ELSE OutputChain
  BY DEF Done
<1>2. PICK to : to = Rewritten(ctx)
  OBVIOUS
<1>3. PICK targets : targets = {Directive(d).value : d \in InEffect("rewrite")}
  OBVIOUS
<1>4. result # None
  BY <1>1 DEF TypesInv
<1>5. to # None => to \in Int /\ ValidStatus(to) /\ to \in targets
  <2> SUFFICES ASSUME to # None PROVE to \in Int /\ ValidStatus(to) /\ to \in targets
    OBVIOUS
  <2>1. PICK i \in OfKind(RewriteLevel, "rewrite") : to = given[RewriteLevel][i].value
    BY <1>1, <1>2, RewrittenTypes
  <2>2. <<RewriteLevel, i>> \in InEffect("rewrite") /\ Directive(<<RewriteLevel, i>>).value = to
    BY <2>1, RewritesInEffect
  <2>3. to \in targets
    BY <1>3, <2>2
  <2> QED  BY <1>1, <1>2, <2>3, RewrittenTypes
<1>6. \/ ctx.status = 0
      \/ ctx.status = to /\ to # None
      \/ ctx.status = 500
  BY <1>2, <1>4 DEF StatusInv
<1>7. /\ ctx.status < 300 => ~Unsatisfied
      /\ ctx.response # None =>
            ctx.response = OutputHandler(pglcf.output, result).response
  BY <1>1, <1>4 DEF StatusInv
<1>8. {Directive(d).value : d \in InEffect("rewrite")}' = targets
  BY <1>1, <1>3 DEF InEffect, OfKind, Directive
<1>9. pglcf' = pglcf /\ (Unsatisfied' <=> Unsatisfied)
  BY <1>1 DEF pglcf, Unsatisfied
<1>10. CASE ctx.status >= 300
  <2>1. answer'.status = ctx.status /\ answer'.page = TRUE
    BY <1>1, <1>10 DEF Page
  <2>2. ctx.status \in targets \cup {405, 500} \cup FailCodes
    BY <1>5, <1>6, <1>10
  <2>3. ctx.status \in 200..599
    BY <1>5, <1>6, <1>10 DEF ValidStatus
  <2>4. AnswerMatches'
    BY <1>8, <2>1, <2>2 DEF AnswerMatches
  <2> QED  BY <2>1, <2>3, <2>4 DEF AnswerInv
<1>11. CASE ~(ctx.status >= 300)
  <2>1. ctx.status \in Int /\ ctx.status < 300
    BY <1>5, <1>6, <1>11
  <2>2. /\ answer'.status = IF ctx.status = 0 THEN 200 ELSE Status(ctx.status)
        /\ answer'.page = FALSE /\ answer'.body = ctx.response
    BY <1>1, <1>11 DEF OutputChain
  <2>3. \/ answer'.status \in 200..299
        \/ answer'.status \in 200..599 /\ -answer'.status \in targets
    <3>1. CASE ctx.status = 0
      BY <2>2, <3>1
    <3>2. CASE ctx.status # 0 /\ ctx.status = to /\ to # None
      <4>1. CASE ctx.status < 0
        <5>1. answer'.status = -to /\ -to \in 200..599
          BY <1>5, <2>1, <2>2, <3>2, <4>1 DEF Status, ValidStatus
        <5>2. -(-to) = to
          BY <1>5, <3>2
        <5> QED  BY <1>5, <3>2, <5>1, <5>2
      <4>2. CASE ~(ctx.status < 0)
        BY <1>5, <2>1, <2>2, <3>2, <4>2 DEF Status, ValidStatus
      <4> QED  BY <4>1, <4>2
    <3> QED  BY <1>6, <2>1, <3>1, <3>2
  <2>4. AnswerMatches'
    BY <1>1, <1>4, <1>7, <1>8, <1>9, <2>1, <2>2, <2>3 DEF AnswerMatches
  <2>5. answer'.status \in 200..599
    BY <2>3
  <2> QED  BY <2>4, <2>5 DEF AnswerInv
<1> QED  BY <1>10, <1>11

(* Every step of a request keeps the invariant.                             *)
LEMMA RequestTypes ==
    ASSUME LocInv, HandleRequest \/ TurnAway \/ InitPeer \/ ProcessResponse \/ Done \/ Fail
    PROVE  TypesInv' /\ ResultInv' /\ StatusInv' /\ AnswerInv'
<1>0. /\ TypesInv /\ ResultInv /\ StatusInv /\ ConfInv /\ RewritesInv /\ ByTable
      /\ DOMAIN ctx = DOMAIN NoCtx
  BY DEF LocInv, QueryInv, TypesInv
<1>1. /\ stage \notin {"reading", "refused"} /\ UNCHANGED <<given, conf>> /\ pglcf' = pglcf
  BY DEF HandleRequest, TurnAway, InitPeer, ProcessResponse, Done, Fail, pglcf
<1>2. /\ DOMAIN NoCtx.store = {} /\ NoCtx.cols = -1 /\ NoCtx.rows = -1
      /\ NoCtx.affected = -1 /\ NoCtx.status = 0 /\ NoCtx.response = None
  BY DEF NoCtx, NewCtx
<1>3. CASE HandleRequest
  <2>1. stage = "serving" /\ method' \in Methods /\ result' = None
    BY <1>3 DEF HandleRequest
  <2>2. \/ /\ \E code \in {405, 500} : answer' = Page(code)
           /\ ctx' = NoCtx /\ stage' = stage
        \/ answer' = None /\ ctx' = NewCtx(Len(pglcf.variables)) /\ stage' = "upstream"
    BY <1>3 DEF HandleRequest
  <2>3. CASE /\ \E code \in {405, 500} : answer' = Page(code)
             /\ ctx' = NoCtx /\ stage' = stage
    <3>1. AnswerInv'
      BY <2>3, Pages
    <3>2. TypesInv'
      BY <1>0, <1>1, <2>1, <2>3 DEF TypesInv
    <3>3. ResultInv'
      BY <1>2, <2>1, <2>3 DEF ResultInv
    <3> QED  BY <2>1, <3>1, <3>2, <3>3 DEF StatusInv
  <2>4. CASE answer' = None /\ ctx' = NewCtx(Len(pglcf.variables)) /\ stage' = "upstream"
    <3>1. pglcf.variables \in Seq(Vars)
      BY <1>0, <1>1 DEF TypesInv
    <3>2. Len(pglcf.variables) \in Nat /\ DOMAIN pglcf.variables = 1..Len(pglcf.variables)
      BY <3>1
    <3>3. PICK n \in Nat : n = Len(pglcf.variables)
      BY <3>2
    <3>4. /\ DOMAIN ctx' = DOMAIN NoCtx /\ DOMAIN ctx'.store = DOMAIN pglcf.variables
          /\ ctx'.cols = -1 /\ ctx'.rows = -1 /\ ctx'.affected = -1
          /\ ctx'.status = 0 /\ ctx'.response = None
          /\ \A k \in DOMAIN ctx'.store : ctx'.store[k] = 0
      BY <2>4, <3>2, <3>3, NewCtxFacts
    <3>5. TypesInv'
      BY <1>0, <1>1, <2>1, <2>4, <3>4 DEF TypesInv
    <3>6. ResultInv'
      BY <1>1, <2>1, <2>4, <3>4 DEF ResultInv
    <3> QED  BY <2>1, <2>4, <3>5, <3>6 DEF StatusInv, AnswerInv
  <2> QED  BY <2>2, <2>3, <2>4
<1>4. CASE TurnAway
  <2>1. /\ stage = "serving" /\ stage' = "serving" /\ method' \in Methods
        /\ result' = None /\ ctx' = NoCtx
        /\ answer' = Page(500)
    BY <1>4 DEF TurnAway
  <2>2. AnswerInv'
    BY <2>1, Pages
  <2>3. TypesInv'
    BY <1>0, <1>1, <2>1 DEF TypesInv
  <2>4. ResultInv'
    BY <1>2, <2>1 DEF ResultInv
  <2> QED  BY <2>1, <2>2, <2>3, <2>4 DEF StatusInv
<1>5. CASE InitPeer
  <2>1. /\ stage = "upstream" /\ stage' = "sent" /\ UNCHANGED <<method, result, answer>>
        /\ ctx' = [ctx EXCEPT !.query = Lookup(pglcf.query, method)]
    BY <1>5 DEF InitPeer
  <2>2. /\ DOMAIN ctx' = DOMAIN NoCtx /\ ctx'.cols = ctx.cols /\ ctx'.rows = ctx.rows
        /\ ctx'.affected = ctx.affected /\ ctx'.status = ctx.status
        /\ ctx'.store = ctx.store /\ ctx'.response = ctx.response
    BY <1>0, <2>1 DEF NoCtx, NewCtx
  <2>3. result = None /\ answer = None
    BY <1>0, <2>1 DEF TypesInv
  <2>4. TypesInv'
    BY <1>0, <1>1, <2>1, <2>2, <2>3 DEF TypesInv
  <2>5. ResultInv'
    BY <1>0, <1>1, <2>1, <2>2, <2>3 DEF ResultInv
  <2> QED  BY <2>1, <2>3, <2>4, <2>5 DEF StatusInv, AnswerInv
<1>6. CASE ProcessResponse
  BY <1>0, <1>6, ResponseKeeps
<1>7. CASE Done
  <2>1. stage = "acked" /\ stage' = "serving" /\ UNCHANGED <<method, result, ctx>>
    BY <1>7 DEF Done
  <2>2. AnswerInv'
    BY <1>0, <1>7, DoneAnswers
  <2>3. ResultInv' /\ StatusInv'
    BY <1>0, <1>1, <2>1, Served
  <2>4. TypesInv'
    BY <1>0, <1>1, <2>1 DEF TypesInv
  <2> QED  BY <2>2, <2>3, <2>4
<1>8. CASE Fail
  <2>1. /\ stage' = "serving" /\ UNCHANGED <<method, result, ctx>>
        /\ \E code \in FailCodes : answer' = Page(code)
    BY <1>8 DEF Fail
  <2>2. AnswerInv'
    BY <2>1, Pages
  <2>3. ResultInv' /\ StatusInv'
    BY <1>0, <1>1, <2>1, Served
  <2>4. TypesInv'
    BY <1>0, <1>1, <2>1 DEF TypesInv
  <2> QED  BY <2>2, <2>3, <2>4
<1> QED  BY <1>3, <1>4, <1>5, <1>6, <1>7, <1>8

(* Stuttering.                                                              *)
LEMMA StutterTypes ==
    ASSUME LocInv, UNCHANGED vars
    PROVE  TypesInv' /\ RewritesInv' /\ ResultInv' /\ StatusInv' /\ AnswerInv'
<1>0. UNCHANGED <<given, conf, stage, method, result, ctx, answer>>
  BY DEF vars
<1>1. pglcf' = pglcf /\ (Unsatisfied' <=> Unsatisfied)
  BY <1>0 DEF pglcf, Unsatisfied
<1>2. TypesInv'
  BY <1>0, <1>1 DEF LocInv, TypesInv
<1>3. RewritesInv'
  BY <1>0, ServingRewrites DEF LocInv
<1>4. Rewritten(ctx)' = Rewritten(ctx)
  BY <1>0, <1>1, RewrittenIs
<1>5. ResultInv'
  BY <1>0, <1>1 DEF LocInv, ResultInv
<1>6. StatusInv'
  BY <1>0, <1>1, <1>4 DEF LocInv, StatusInv
<1>7. {Directive(d).value : d \in InEffect("rewrite")}'
         = {Directive(d).value : d \in InEffect("rewrite")}
  BY <1>0 DEF InEffect, OfKind, Directive
<1>8. AnswerInv'
  BY <1>0, <1>1, <1>7 DEF LocInv, AnswerInv, AnswerMatches
<1> QED  BY <1>2, <1>3, <1>5, <1>6, <1>8

(* The invariant is inductive.                                              *)
LEMMA LocStep == LocInv /\ [Next]_vars => LocInv'
<1> SUFFICES ASSUME LocInv, [Next]_vars PROVE LocInv'  OBVIOUS
<1>1. QueryInv'
  BY QueryStep DEF LocInv
<1>2. CASE UNCHANGED vars
  BY <1>1, <1>2, StutterTypes DEF LocInv
<1>3. ASSUME NEW l \in Levels, ConfQuery(l) \/ ConfRewrite(l) \/ ConfOutput(l) \/ ConfSet(l)
      PROVE  LocInv'
  BY <1>1, <1>3, DirectiveRewrites, DirectiveTypes DEF LocInv, QueryInv
<1>4. CASE MergeLocConf
  BY <1>1, <1>4, MergeRewrites, MergeTypes DEF LocInv, QueryInv
<1>5. CASE HandleRequest \/ TurnAway \/ InitPeer \/ ProcessResponse \/ Done \/ Fail
  <2>1. TypesInv' /\ ResultInv' /\ StatusInv' /\ AnswerInv'
    BY <1>5, RequestTypes
  <2>2. /\ stage \notin {"reading", "refused"} /\ stage' \notin {"reading", "refused"}
        /\ UNCHANGED <<given, conf>>
    BY <1>5 DEF HandleRequest, TurnAway, InitPeer, ProcessResponse, Processed, Done, Fail
  <2>3. RewritesInv'
    BY <2>2, ServingRewrites DEF LocInv
  <2> QED  BY <1>1, <2>1, <2>3 DEF LocInv
<1> QED  BY <1>2, <1>3, <1>4, <1>5 DEF Next

(* The invariant of a location and of its requests: its rewrites are those  *)
(* of the file (ngx_postgres_conf_rewrite), the counters, the variables     *)
(* and the response are of the result of the request, and its status comes  *)
(* from the rewrites or from what could not be answered.                    *)
THEOREM LocationInvariant == Spec => []LocInv
<1> QED  BY LocInit, LocStep, PTL DEF Spec

-----------------------------------------------------------------------------
(* What follows from the invariant *)

(* What a request knows of its result, and when it knows nothing.           *)
LEMMA ResultFacts ==
    ASSUME TypesInv, ResultInv, result # None
    PROVE  /\ result \in PGresults /\ pglcf.variables \in Seq(Vars)
           /\ ctx.cols = Cols(result) /\ ctx.rows = Rows(result)
           /\ ctx.affected = Affected(result)
           /\ Cols(result) \in Nat /\ Rows(result) \in Nat
           /\ result.tag \in Nat \cup {None} /\ result.select \in BOOLEAN
<1>1. result \in PGresults
  BY ResultsAssumption DEF TypesInv
<1>2. pglcf.variables \in Seq(Vars)
  BY DEF TypesInv, ResultInv
<1>3. ctx.cols = Cols(result) /\ ctx.rows = Rows(result) /\ ctx.affected = Affected(result)
  BY DEF ResultInv
<1>4. Cols(result) \in Nat /\ Rows(result) \in Nat
  BY <1>1 DEF PGresults, Cols, Rows
<1>5. result.tag \in Nat \cup {None} /\ result.select \in BOOLEAN
  BY <1>1 DEF PGresults
<1> QED  BY <1>1, <1>2, <1>3, <1>4, <1>5

(* The types follow from it.                                                *)
LEMMA LocationTypes == LocInv => LocationTypeOK
<1> SUFFICES ASSUME LocInv PROVE LocationTypeOK
  OBVIOUS
<1>0. ConfInv /\ TypesInv /\ RewritesInv /\ ResultInv /\ StatusInv /\ AnswerInv
  BY DEF LocInv, QueryInv
<1>1. \A l \in Levels : /\ conf[l].query.methods_set \subseteq Methods
                        /\ conf[l].query.def \in {None} \cup (Levels \X Nat)
  <2>1. ASSUME NEW l \in Levels, NEW t \in {conf[l].query}
        PROVE  t.methods_set \subseteq Methods /\ t.def \in {None} \cup (Levels \X Nat)
    BY <1>0, <2>1 DEF ConfInv, GoodQuery, QueryTables, Table
  <2> QED  BY <2>1
<1>2. CASE result = None
  <2>1. /\ ctx.cols = -1 /\ ctx.rows = -1 /\ ctx.affected = -1 /\ ctx.status = 0
        /\ \A k \in DOMAIN ctx.store : ctx.store[k] = 0
    BY <1>0, <1>2 DEF ResultInv
  <2> QED  BY <1>0, <1>1, <2>1 DEF LocationTypeOK, TypesInv, AnswerInv
<1>3. CASE result # None
  <2>1. \A k \in DOMAIN ctx.store : ctx.store[k] \in Nat
    <3>1. ASSUME NEW k \in DOMAIN ctx.store  PROVE ctx.store[k] \in Nat
      <4>1. /\ k \in DOMAIN pglcf.variables
            /\ ctx.store[k] = 0 \/ ctx.store[k] = SetCustom(result, pglcf.variables[k])
        BY <1>0, <1>3 DEF ResultInv
      <4>2. pglcf.variables[k] \in Vars
        <5>1. PICK s \in Seq(Vars) : s = pglcf.variables
          BY <1>0, <1>3, ResultFacts
        <5> QED  BY <4>1, <5>1
      <4> QED  BY <1>0, <1>3, <4>1, <4>2, ResultFacts, SetCustomFinds
    <3> QED  BY <3>1
  <2>2. ctx.cols \in Nat /\ ctx.rows \in Nat /\ ctx.affected \in Nat \cup {-1}
    BY <1>0, <1>3, ResultFacts DEF Affected
  <2>3. ctx.status \in Int
    <3>1. stage \notin {"reading", "refused"}
      BY <1>0, <1>3 DEF ResultInv
    <3>2. PICK to : to = Rewritten(ctx)
      OBVIOUS
    <3>3. to # None => to \in Int
      BY <1>0, <3>1, <3>2, RewrittenTypes
    <3>4. ctx.status = 0 \/ (ctx.status = to /\ to # None) \/ ctx.status = 500
      BY <1>0, <1>3, <3>2 DEF StatusInv
    <3> QED  BY <3>3, <3>4
  <2> QED  BY <1>0, <1>1, <2>1, <2>2, <2>3 DEF LocationTypeOK, TypesInv, AnswerInv
<1> QED  BY <1>2, <1>3

(* The state of a location is what the C types promise: the counters of a   *)
(* context are -1 or from PQnfields, PQntuples and PQcmdTuples, its values  *)
(* lengths, and a client is only given statuses of the right ranges.        *)
THEOREM LocationTypesAlways == Spec => []LocationTypeOK
<1> QED  BY LocationInvariant, LocationTypes, PTL

(* The answers do.                                                          *)
LEMMA Answers == LocInv => AnswerMatches
<1>1. AnswerMatches <=> (answer # None => AnswerMatches)
  BY DEF AnswerMatches
<1> QED  BY <1>1 DEF LocInv, AnswerInv

(* What the client gets (ngx_postgres_output_chain and _upstream_done): a   *)
(* response has a status of success or one written "=N", every required     *)
(* variable has a value, and its body is that of the result of the request; *)
(* an error page has a status that the file, or a failure, gives it.        *)
THEOREM AnswersAlwaysMatch == Spec => []AnswerMatches
<1> QED  BY LocationInvariant, Answers, PTL

(* What the variables say does.                                             *)
LEMMA Fresh == LocInv => VariablesAreFresh
<1> SUFFICES ASSUME LocInv PROVE VariablesAreFresh
  OBVIOUS
<1>0. ConfInv /\ TypesInv /\ RewritesInv /\ ResultInv
  BY DEF LocInv, QueryInv
<1>n. \A n \in Nat : n # -1 /\ n # None
  BY ResultsAssumption
<1>v. /\ Variable("columns") = Counter(ctx.cols) /\ Variable("rows") = Counter(ctx.rows)
      /\ Variable("affected") = Counter(ctx.affected) /\ Variable("query") = ctx.query
  BY DEF Variable
<1>1. CASE result = None
  <2>1. /\ ctx.cols = -1 /\ ctx.rows = -1 /\ ctx.affected = -1
        /\ \A k \in DOMAIN ctx.store : ctx.store[k] = 0
        /\ ctx # NoCtx => DOMAIN ctx.store = DOMAIN pglcf.variables
    BY <1>0, <1>1 DEF ResultInv
  <2>2. \A name \in {"columns", "rows", "affected"} : Variable(name) = None
    BY <1>v, <2>1 DEF Counter
  <2>3. ctx # NoCtx => \A k \in DOMAIN pglcf.variables : GetCustom(k) = None
    BY <2>1 DEF GetCustom
  <2> QED  BY <1>1, <2>2, <2>3 DEF VariablesAreFresh
<1>2. CASE result # None
  <2>0. /\ result \in PGresults /\ ctx.query # None
        /\ ctx.cols = Cols(result) /\ ctx.rows = Rows(result)
        /\ ctx.affected = Affected(result)
        /\ Cols(result) \in Nat /\ Rows(result) \in Nat
        /\ result.tag \in Nat \cup {None} /\ result.select \in BOOLEAN
    BY <1>0, <1>2, ResultFacts DEF ResultInv
  <2>1. /\ Variable("columns") = Len(result.names) /\ Variable("rows") = Len(result.rows)
    BY <1>n, <1>v, <2>0 DEF Counter, Cols, Rows
  <2>2. Variable("affected") = IF result.select THEN None ELSE result.tag
    BY <1>n, <1>v, <2>0 DEF Counter, Affected
  <2>3. ASSUME NEW k \in DOMAIN pglcf.variables, GetCustom(k) # None
        PROVE  \E at \in (DOMAIN result.rows) \X (DOMAIN result.names) :
                  GetCustom(k) = result.rows[at[1]][at[2]]
    <3>1. /\ k \in DOMAIN ctx.store
          /\ ctx.store[k] = 0 \/ ctx.store[k] = SetCustom(result, pglcf.variables[k])
      BY <1>0, <1>2 DEF ResultInv
    <3>2. GetCustom(k) = ctx.store[k] /\ ctx.store[k] # 0
      BY <2>3 DEF GetCustom
    <3>3. pglcf.variables[k] \in Vars
      <4>1. PICK s \in Seq(Vars) : s = pglcf.variables
        BY <1>0, <1>2, ResultFacts
      <4> QED  BY <4>1
    <3>4. GetCustom(k) = SetCustom(result, pglcf.variables[k])
          /\ SetCustom(result, pglcf.variables[k]) # 0
      BY <3>1, <3>2
    <3> QED  BY <2>0, <3>3, <3>4, SetCustomFinds
  <2>4. Variable("query") # None
    BY <1>v, <2>0
  <2> QED  BY <1>2, <2>1, <2>2, <2>3, <2>4 DEF VariablesAreFresh
<1> QED  BY <1>1, <1>2

(* The variables say what the result of the request says, and nothing       *)
(* before it: ngx_postgres_variable_columns, _rows, _affected, _query and   *)
(* _get_custom (ngx_postgres_variable.c:36-229).                            *)
THEOREM VariablesAlwaysFresh == Spec => []VariablesAreFresh
<1> QED  BY LocationInvariant, Fresh, PTL
-----------------------------------------------------------------------------
(* The rewrite that is chosen *)

(* The counters of the context decide what postgres_rewrite means.          *)
LEMMA MetHolds ==
    ASSUME TypesInv, ResultInv, result # None, NEW what \in Conditions
    PROVE  Met(what, ctx) <=> Holds(what, result)
<1>1. /\ ctx.rows = Len(result.rows) /\ ctx.affected = Affected(result)
      /\ result.tag \in Nat \cup {None} /\ result.select \in BOOLEAN
  BY ResultFacts DEF Rows
<1>2. result.rows = <<>> <=> Len(result.rows) = 0
  <2>1. PICK s \in Seq(Seq(Nat \cup {Null})) : s = result.rows
    BY ResultFacts DEF PGresults
  <2> QED  BY <2>1
<1>3. Len(result.rows) \in Nat
  BY ResultFacts DEF Rows
<1>4. ctx.affected = IF result.select \/ result.tag = None THEN -1 ELSE result.tag
  BY <1>1 DEF Affected
<1>5. None # 0 /\ \A n \in Nat : n # None
  BY ResultsAssumption
<1>6. CASE what = "no_changes"
  <2>1. Met(what, ctx) <=> ctx.affected = 0
    BY <1>6 DEF Met
  <2>2. Holds(what, result) <=> ~result.select /\ result.tag = 0
    BY <1>6 DEF Holds
  <2> QED  BY <1>1, <1>4, <1>5, <2>1, <2>2
<1>7. CASE what = "changes"
  <2>1. Met(what, ctx) <=> ctx.affected > 0
    BY <1>7 DEF Met
  <2>2. Holds(what, result) <=> ~result.select /\ result.tag \notin {0, None}
    BY <1>7 DEF Holds
  <2> QED  BY <1>1, <1>4, <1>5, <2>1, <2>2
<1>8. CASE what = "no_rows"
  BY <1>1, <1>2, <1>8 DEF Met, Holds
<1>9. CASE what = "rows"
  BY <1>1, <1>2, <1>3, <1>9 DEF Met, Holds
<1> QED  BY <1>6, <1>7, <1>8, <1>9 DEF Conditions

(* FirstMention is the first directive of the level with that condition.    *)
LEMMA FirstMentionIs ==
    ASSUME ConfInv, RewritesInv, NEW what, Of(RewriteLevel, what) # {}
    PROVE  /\ FirstMention(what) \in Of(RewriteLevel, what)
           /\ \A i \in Of(RewriteLevel, what) : FirstMention(what) <= i
<1>1. PICK l \in Levels : l = RewriteLevel
  BY DEF RewriteLevel, Levels
<1>2. PICK D : D = Of(l, what)
  OBVIOUS
<1>3. D \in SUBSET (1..MaxDirectives)
  <2>1. \A m \in Levels : given[m] \in Seq(Directives)
    BY DEF ConfInv
  <2>2. given["outer"] \in Seq(Directives) /\ given["inner"] \in Seq(Directives)
    BY <2>1 DEF Levels
  <2>3. Len(given["outer"]) \in Nat /\ Len(given["inner"]) \in Nat
    BY <2>2
  <2>4. DOMAIN given[l] = 1..Len(given[l]) /\ Len(given[l]) \in Nat
    BY <2>1
  <2>5. Len(given[l]) <= MaxDirectives
    <3>1. PICK m, n \in Nat : m = Len(given["outer"]) /\ n = Len(given["inner"])
      BY <2>3
    <3>2. m + n <= MaxDirectives
      BY <3>1 DEF RewritesInv
    <3>3. m <= MaxDirectives /\ n <= MaxDirectives
      BY <3>2, LocationAssumption
    <3>4. l = "outer" \/ l = "inner"
      BY DEF Levels
    <3> QED  BY <3>1, <3>3, <3>4
  <2>6. \A i \in D : i \in DOMAIN given[l]
    BY <1>2 DEF Of, OfKind
  <2> QED  BY <2>4, <2>5, <2>6, LocationAssumption
<1>4. PICK n \in D : \A m \in D : n <= m
  <2>1. D \in SUBSET Nat /\ D # {}
    BY <1>1, <1>2, <1>3
  <2> QED  BY <2>1, LeastNat
<1> DEFINE P(k) == /\ \E d \in InEffect("rewrite") : d[2] = k /\ Directive(d).condition = what
                   /\ \A d \in InEffect("rewrite") : Directive(d).condition = what => k <= d[2]
<1>5. \A k : P(k) <=> k \in D /\ \A m \in D : k <= m
  <2>1. \A d \in InEffect("rewrite") :
           Directive(d).condition = what => d[2] \in D /\ d = <<l, d[2]>>
    BY <1>1, <1>2, RewritesInEffect DEF Of
  <2>2. \A m \in D : /\ <<l, m>> \in InEffect("rewrite") /\ <<l, m>>[2] = m
                     /\ Directive(<<l, m>>).condition = what
    BY <1>1, <1>2, RewritesInEffect DEF Of
  <2> QED  BY <2>1, <2>2
<1>6. FirstMention(what) = CHOOSE k \in 1..MaxDirectives : P(k)
  BY DEF FirstMention
<1>7. P(n) /\ n \in 1..MaxDirectives
  BY <1>3, <1>4, <1>5
<1> HIDE DEF P
<1>8. P(FirstMention(what))
  BY <1>6, <1>7
<1> QED  BY <1>1, <1>2, <1>5, <1>8

(* The list keeps the order in which the file mentions the conditions.      *)
LEMMA MentionOrder ==
    ASSUME ConfInv, RewritesInv, NEW rs, ListSays(rs, RewriteLevel),
           NEW j \in DOMAIN rs, NEW k \in DOMAIN rs, j < k
    PROVE  FirstMention(rs[j].condition) < FirstMention(rs[k].condition)
<1>1. Of(RewriteLevel, rs[j].condition) # {} /\ Of(RewriteLevel, rs[k].condition) # {}
  BY DEF ListSays
<1>2. PICK h \in Of(RewriteLevel, rs[j].condition) : h < FirstMention(rs[k].condition)
  BY <1>1, FirstMentionIs DEF ListSays, Says
<1>3. FirstMention(rs[j].condition) <= h
  BY <1>1, FirstMentionIs
<1>4. \A what : Of(RewriteLevel, what) \subseteq Nat
  <2>1. PICK l \in Levels : l = RewriteLevel
    BY DEF RewriteLevel, Levels
  <2>2. DOMAIN given[l] \subseteq Nat
    BY DEF ConfInv
  <2> QED  BY <2>1, <2>2 DEF Of, OfKind
<1>5. /\ FirstMention(rs[j].condition) \in Nat /\ FirstMention(rs[k].condition) \in Nat
      /\ h \in Nat
  BY <1>1, <1>4, FirstMentionIs
<1> QED  BY <1>2, <1>3, <1>5

(* The rewrites that apply are those that fit under a condition that holds. *)
LEMMA ApplicableIs ==
    /\ \A d \in Applicable :
          \E i \in OfKind(RewriteLevel, "rewrite") :
             /\ d = <<RewriteLevel, i>> /\ Directive(d) = given[RewriteLevel][i]
             /\ Holds(Directive(d).condition, result)
             /\ Fits(RewriteLevel, Directive(d).condition, i, method)
    /\ \A what : \A i \in Of(RewriteLevel, what) :
          Holds(what, result) /\ Fits(RewriteLevel, what, i, method)
          => /\ <<RewriteLevel, i>> \in Applicable
             /\ Directive(<<RewriteLevel, i>>) = given[RewriteLevel][i]
             /\ given[RewriteLevel][i].condition = what
<1> DEFINE l == RewriteLevel
           E == InEffect("rewrite")
<1>1. /\ E = {<<l, k>> : k \in OfKind(l, "rewrite")}
      /\ \A k : Directive(<<l, k>>) = given[l][k]
  BY RewritesInEffect
<1> HIDE DEF l, E
<1>2. \A what : \A i \in Of(l, what) : i \in OfKind(l, "rewrite") /\ given[l][i].condition = what
  BY DEF Of
<1>3. \A i \in OfKind(l, "rewrite") : i \in Of(l, given[l][i].condition)
  BY DEF Of
<1>4. \A d \in E : \E i \in OfKind(l, "rewrite") : d = <<l, i>> /\ Directive(d) = given[l][i]
  BY <1>1
<1>5. \A i \in OfKind(l, "rewrite") : <<l, i>> \in E
  BY <1>1
<1>6. Applicable = {d \in E : /\ Holds(Directive(d).condition, result)
                              /\ \/ method \in Directive(d).methods
                                 \/ /\ Directive(d).methods = {}
                                    /\ \A e \in E : Directive(e).condition = Directive(d).condition
                                          => method \notin Directive(e).methods}
  BY DEF Applicable, E
<1>7. ASSUME NEW d \in Applicable
      PROVE  \E i \in OfKind(l, "rewrite") :
                /\ d = <<l, i>> /\ Directive(d) = given[l][i]
                /\ Holds(Directive(d).condition, result)
                /\ Fits(l, Directive(d).condition, i, method)
  <2>1. PICK i \in OfKind(l, "rewrite") : d = <<l, i>> /\ Directive(d) = given[l][i]
    BY <1>4, <1>6
  <2>2. ASSUME Directive(d).methods = {},
               \A e \in E : Directive(e).condition = Directive(d).condition
                            => method \notin Directive(e).methods,
               NEW h \in Of(l, Directive(d).condition)
        PROVE  method \notin given[l][h].methods
    <3>1. PICK e \in E : e = <<l, h>> /\ Directive(e) = given[l][h]
      BY <1>1, <1>2, <1>5
    <3>2. Directive(e).condition = Directive(d).condition
      BY <1>2, <3>1
    <3> QED  BY <2>2, <3>1, <3>2
  <2>3. Fits(l, Directive(d).condition, i, method)
    BY <1>6, <2>1, <2>2 DEF Fits
  <2> QED  BY <1>6, <2>1, <2>3
<1>8. ASSUME NEW what, NEW i \in Of(l, what), Holds(what, result), Fits(l, what, i, method)
      PROVE  <<l, i>> \in Applicable /\ Directive(<<l, i>>) = given[l][i]
             /\ given[l][i].condition = what
  <2>1. /\ i \in OfKind(l, "rewrite") /\ given[l][i].condition = what /\ <<l, i>> \in E
        /\ Directive(<<l, i>>) = given[l][i]
    BY <1>1, <1>2, <1>5
  <2>2. ASSUME NEW e \in E, Directive(e).condition = what, 
               \A h \in Of(l, what) : method \notin given[l][h].methods
        PROVE  method \notin Directive(e).methods
    BY <1>3, <1>4, <2>2
  <2>3. \/ method \in Directive(<<l, i>>).methods
        \/ /\ Directive(<<l, i>>).methods = {}
           /\ \A h \in Of(l, what) : method \notin given[l][h].methods
    BY <1>8, <2>1 DEF Fits
  <2> QED  BY <1>6, <1>8, <2>1, <2>2, <2>3
<1> QED  BY <1>7, <1>8 DEF l

(* The choice of a rewrite does: the first entry hit is the condition       *)
(* mentioned first.                                                         *)
LEMMA Chosen == LocInv => RewriteChosen
<1> SUFFICES ASSUME LocInv, stage = "acked" PROVE RewriteChosen
  BY DEF RewriteChosen
<1>0. ConfInv /\ TypesInv /\ RewritesInv /\ ResultInv /\ StatusInv
  BY DEF LocInv, QueryInv
<1> DEFINE rs == pglcf.rewrites
           l == RewriteLevel
           FM(d) == FirstMention(Directive(d).condition)
           B == {d \in Applicable : \A e \in Applicable : FM(d) <= FM(e)}
           best == {Directive(d).value : d \in B}
<1>1. result # None /\ GoodRewrites(rs) /\ ListSays(rs, l) /\ l \in Levels
  BY <1>0 DEF TypesInv, RewritesInv, RewriteLevel, Levels
<1>2. PICK to : to = Rewritten(ctx)
  OBVIOUS
<1>3. rs \in Seq([condition : Conditions, table : RewriteTables])
  BY <1>1 DEF GoodRewrites
<1>4. \A k \in DOMAIN rs : k \in Nat /\ rs[k].condition \in Conditions
  <2>1. ASSUME NEW C, NEW s \in Seq(C)  PROVE \A k \in DOMAIN s : k \in Nat /\ s[k] \in C
    OBVIOUS
  <2>2. \A k \in DOMAIN rs : k \in Nat /\ rs[k] \in [condition : Conditions, table : RewriteTables]
    BY <1>3, <2>1
  <2> QED  BY <2>2
<1>5. \A k \in DOMAIN rs :
         Hit(l, k, ctx) <=> /\ Holds(rs[k].condition, result)
                            /\ \E i \in Of(l, rs[k].condition) : Fits(l, rs[k].condition, i, method)
  BY <1>0, <1>1, <1>4, MetHolds DEF Hit
<1>6. \A d \in Applicable : \E k \in DOMAIN rs : \E i \in Of(l, rs[k].condition) :
         /\ Hit(l, k, ctx) /\ Directive(d).condition = rs[k].condition
         /\ Directive(d).value = given[l][i].value /\ Fits(l, rs[k].condition, i, method)
  <2> SUFFICES ASSUME NEW d \in Applicable
               PROVE  \E k \in DOMAIN rs : \E i \in Of(l, rs[k].condition) :
                         /\ Hit(l, k, ctx) /\ Directive(d).condition = rs[k].condition
                         /\ Directive(d).value = given[l][i].value
                         /\ Fits(l, rs[k].condition, i, method)
    OBVIOUS
  <2>1. PICK i \in OfKind(l, "rewrite") :
          /\ Directive(d) = given[l][i]
          /\ Holds(Directive(d).condition, result)
          /\ Fits(l, Directive(d).condition, i, method)
    BY ApplicableIs
  <2>2. PICK k \in DOMAIN rs : rs[k].condition = given[l][i].condition
    BY <1>1, <2>1 DEF ListSays, Says
  <2>3. i \in Of(l, rs[k].condition)
    BY <2>1, <2>2 DEF Of
  <2> QED  BY <1>5, <2>1, <2>2, <2>3
<1>7. to = None => best = {}
  <2> SUFFICES ASSUME to = None PROVE best = {}
    OBVIOUS
  <2>1. \A k \in DOMAIN rs : ~Hit(l, k, ctx)
    BY <1>0, <1>1, <1>2, RewrittenSays
  <2>2. Applicable = {}
    BY <1>6, <2>1
  <2> QED  BY <2>2
<1>8. to # None => best = {to}
  <2> SUFFICES ASSUME to # None PROVE best = {to}
    OBVIOUS
  <2>1. PICK k \in DOMAIN rs :
          /\ Hit(l, k, ctx)
          /\ \A j \in DOMAIN rs : j < k => ~Hit(l, j, ctx)
          /\ \A i \in Of(l, rs[k].condition) :
                Fits(l, rs[k].condition, i, method) => to = given[l][i].value
    BY <1>0, <1>1, <1>2, RewrittenSays
  <2>2. PICK i \in Of(l, rs[k].condition) :
          Holds(rs[k].condition, result) /\ Fits(l, rs[k].condition, i, method)
    BY <1>5, <2>1
  <2>3. PICK d \in Applicable : Directive(d).condition = rs[k].condition
                                /\ Directive(d).value = to
    <3>1. PICK d \in Applicable :
            d = <<l, i>> /\ Directive(d) = given[l][i] /\ given[l][i].condition = rs[k].condition
      BY <2>2, ApplicableIs
    <3>2. to = given[l][i].value
      BY <2>1, <2>2
    <3> QED  BY <3>1, <3>2
  <2>4. \A j \in DOMAIN rs : FirstMention(rs[j].condition) \in Nat
    <3>1. \A j \in DOMAIN rs : Of(l, rs[j].condition) # {}
      BY <1>1 DEF ListSays
    <3>2. \A what : Of(l, what) \subseteq Nat
      BY <1>0, <1>1 DEF Of, OfKind, ConfInv
    <3> QED  BY <1>0, <3>1, <3>2, FirstMentionIs
  <2>5. \A i1, i2 \in DOMAIN rs :
           i1 < i2 => FirstMention(rs[i1].condition) < FirstMention(rs[i2].condition)
    BY <1>0, <1>1, MentionOrder
  <2>6. d \in B
    <3>1. ASSUME NEW e \in Applicable  PROVE FM(d) <= FM(e)
      <4>1. PICK j \in DOMAIN rs : Hit(l, j, ctx) /\ Directive(e).condition = rs[j].condition
        BY <1>6
      <4>2. ~(j < k)
        BY <2>1, <4>1
      <4>3. j = k \/ k < j
        BY <1>4, <4>2
      <4> QED  BY <2>3, <2>4, <2>5, <4>1, <4>3
    <3> QED  BY <3>1
  <2>7. ASSUME NEW e \in B  PROVE Directive(e).value = to
    <3>1. PICK j \in DOMAIN rs : \E h \in Of(l, rs[j].condition) :
            /\ Hit(l, j, ctx) /\ Directive(e).condition = rs[j].condition
            /\ Directive(e).value = given[l][h].value /\ Fits(l, rs[j].condition, h, method)
      BY <1>6
    <3>2. ~(j < k)
      BY <2>1, <3>1
    <3>3. FirstMention(rs[j].condition) <= FirstMention(rs[k].condition)
      BY <2>3, <3>1
    <3>4. ~(k < j)
      BY <2>4, <2>5, <3>3
    <3>5. j = k
      BY <1>4, <3>2, <3>4
    <3> QED  BY <2>1, <3>1, <3>5
  <2> HIDE DEF B
  <2> QED  BY <2>3, <2>6, <2>7
<1>9. /\ \/ ctx.status = 0 /\ to = None
         \/ ctx.status = to /\ to # None
         \/ /\ ctx.status = 500 /\ (to # None => to < 300)
            /\ Unsatisfied \/ pglcf.output \in {"value", "binary_value"}
  BY <1>0, <1>1, <1>2 DEF StatusInv
<1>10. \/ ctx.status \in best
       \/ ctx.status = 0 /\ best = {}
       \/ /\ ctx.status = 500 /\ \A s \in best : s < 300
          /\ Unsatisfied \/ pglcf.output \in {"value", "binary_value"}
  <2> HIDE DEF best
  <2> QED  BY <1>7, <1>8, <1>9
<1> QED  BY <1>10 DEF RewriteChosen

(* The status of a result (ngx_postgres_rewrite, _rewrite_changes and       *)
(* _rewrite_rows, called by ngx_postgres_process_response) is that of the   *)
(* applicable rewrite whose condition the file mentions first; a 500        *)
(* replaces it only where the file leaves a success.                        *)
THEOREM RewriteAlwaysChosen == Spec => []RewriteChosen
<1> QED  BY LocationInvariant, Chosen, PTL
-----------------------------------------------------------------------------
(* The output *)

(* The buffers that nginx can send and that were written as computed.       *)
GoodBuffers == {b \in [size : 1..MemMax, written : Nat] : b.written = b.size}

(* A size that can be allocated is not cut by the modulus.                  *)
LEMMA BufferGood ==
    ASSUME NEW size \in 1..MemMax, NEW written, written = size
    PROVE  Buffer(size, written) \in GoodBuffers
<1>1. /\ MemMax \in Nat /\ SizeMod \in Nat /\ MemMax < SizeMod
  BY OutputAssumption
<1>2. size % SizeMod = size
  BY <1>1
<1> QED  BY <1>1, <1>2 DEF Buffer, GoodBuffers

(* A chain of good buffers is sent.                                         *)
LEMMA GivesGood ==
    ASSUME NEW chain \in Seq(GoodBuffers)
    PROVE  Gives(chain) = [rc |-> "done", status |-> None, response |-> chain]
<1>1. \A i \in DOMAIN chain : chain[i] \in GoodBuffers
  OBVIOUS
<1>2. \A b \in GoodBuffers : ~(b.size > MemMax) /\ b.written = b.size
  BY OutputAssumption DEF GoodBuffers
<1> QED  BY <1>1, <1>2 DEF Gives

(* The cells of some rows, and their sums.                                  *)
LEMMA CellsOf ==
    ASSUME NEW res \in PGresults, NEW rows \in SUBSET (DOMAIN res.rows),
           NEW at \in rows \X (DOMAIN res.names)
    PROVE  res.rows[at[1]][at[2]] \in Nat \cup {Null}
<1>1. res.names \in Seq(DOMAIN NameLen) /\ res.rows \in Seq(Seq(Nat \cup {Null}))
  BY DEF PGresults
<1>2. PICK r \in rows, c \in DOMAIN res.names : at = <<r, c>>
  OBVIOUS
<1>3. r \in DOMAIN res.rows /\ at[1] = r /\ at[2] = c
  BY <1>2
<1>4. res.rows[r] \in Seq(Nat \cup {Null}) /\ Len(res.rows[r]) = Len(res.names)
  BY <1>1, <1>3 DEF PGresults
<1>5. c \in DOMAIN res.rows[r]
  BY <1>1, <1>4
<1> QED  BY <1>3, <1>4, <1>5

(* The rows, the columns and the cells are finite in number.                *)
LEMMA PlacesFinite ==
    ASSUME NEW res \in PGresults
    PROVE  /\ DOMAIN res.names = 1..Cols(res) /\ Cols(res) \in Nat
           /\ DOMAIN res.rows = 1..Rows(res) /\ Rows(res) \in Nat
           /\ IsFiniteSet(DOMAIN res.names) /\ Cardinality(DOMAIN res.names) = Cols(res)
           /\ IsFiniteSet((DOMAIN res.rows) \X (DOMAIN res.names))
           /\ Cardinality((DOMAIN res.rows) \X (DOMAIN res.names)) = Rows(res) * Cols(res)
           /\ \A k : /\ IsFiniteSet({k} \X (DOMAIN res.names))
                     /\ Cardinality({k} \X (DOMAIN res.names)) = Cols(res)
<1>1. /\ DOMAIN res.names = 1..Cols(res) /\ Cols(res) \in Nat
      /\ DOMAIN res.rows = 1..Rows(res) /\ Rows(res) \in Nat
  BY DEF PGresults, Cols, Rows
<1>2. \A n \in Nat : IsFiniteSet(1..n) /\ Cardinality(1..n) = n
  <2> TAKE n \in Nat
  <2>1. Cardinality(1..n) = IF 1 > n THEN 0 ELSE n - 1 + 1
    BY FS_Interval
  <2> QED  BY <2>1, FS_Interval
<1>3. IsFiniteSet(DOMAIN res.names) /\ Cardinality(DOMAIN res.names) = Cols(res)
      /\ IsFiniteSet(DOMAIN res.rows) /\ Cardinality(DOMAIN res.rows) = Rows(res)
  BY <1>1, <1>2
<1>4. /\ IsFiniteSet((DOMAIN res.rows) \X (DOMAIN res.names))
      /\ Cardinality((DOMAIN res.rows) \X (DOMAIN res.names)) = Rows(res) * Cols(res)
  BY <1>3, FS_Product
<1>5. \A k : IsFiniteSet({k} \X (DOMAIN res.names))
             /\ Cardinality({k} \X (DOMAIN res.names)) = Cols(res)
  <2> TAKE k
  <2>1. IsFiniteSet({k}) /\ Cardinality({k}) = 1
    BY FS_Singleton
  <2>2. /\ IsFiniteSet({k} \X (DOMAIN res.names))
        /\ Cardinality({k} \X (DOMAIN res.names)) = Cardinality({k}) * Cardinality(DOMAIN res.names)
    BY <1>3, <2>1, FS_Product
  <2> QED  BY <1>1, <1>3, <2>1, <2>2
<1> QED  BY <1>1, <1>3, <1>4, <1>5

(* The text of a result takes the space computed for it.                    *)
LEMMA TextFits ==
    ASSUME NEW res \in PGresults, Rows(res) # 0, Cols(res) # 0, Allocatable(res)
    PROVE  OutputText(res) = Nothing \/ \E chain \in Seq(GoodBuffers) : OutputText(res) = Gives(chain)
<1> DEFINE D == (DOMAIN res.rows) \X (DOMAIN res.names)
           f == [at \in D |-> TextLength(res.rows[at[1]][at[2]])]
           h == [at \in D |-> IF at[1] # Rows(res) \/ at[2] # Cols(res) THEN 1 ELSE 0]
           z == <<Rows(res), Cols(res)>>
<1>1. PICK n \in Nat : n = Rows(res) * Cols(res) /\ Cardinality(D) = n /\ IsFiniteSet(D)
  BY PlacesFinite
<1>2. f \in [D -> Nat]
  <2>1. \A at \in D : TextLength(res.rows[at[1]][at[2]]) \in Nat
    BY CellsOf DEF TextLength
  <2> QED  BY <2>1
<1>3. h \in [D -> Int] /\ z \in D
  <2>1. /\ DOMAIN res.names = 1..Cols(res) /\ Cols(res) \in Nat
        /\ DOMAIN res.rows = 1..Rows(res) /\ Rows(res) \in Nat
    BY PlacesFinite
  <2>2. Cols(res) \in DOMAIN res.names /\ Rows(res) \in DOMAIN res.rows
    BY <2>1
  <2> QED  BY <2>2
<1>4. \A at \in D : h[at] = IF at = z THEN 0 ELSE 1
  <2>1. \A at \in D : at = z <=> at[1] = Rows(res) /\ at[2] = Cols(res)
    OBVIOUS
  <2> QED  BY <2>1
<1>5. SumCells(res, DOMAIN res.rows, TextLength) = SumFunction(f)
  BY DEF SumCells
<1>6. TextWritten(res) = SumFunction(f) + SumFunction(h)
  BY <1>5 DEF TextWritten
<1> HIDE DEF D, f, h, z
<1>7. PICK s \in Nat : s = SumFunction(f)
  BY <1>1, <1>2, SumNat
<1>8. SumFunction(h) = n - 1
  BY <1>1, <1>3, <1>4, SumButOne
<1>9. n # 0
  BY <1>1, <1>3, FS_EmptySet
<1>10. s + n - 1 \in 0..MemMax
  BY <1>1, <1>5, <1>7, <1>9, OutputAssumption DEF Allocatable
<1>11. TextSize(res) = s + n - 1
  <2>1. TextSize(res) = (s + n - 1) % SizeMod
    BY <1>1, <1>5, <1>7 DEF TextSize
  <2>2. PICK m \in 0..MemMax : m = s + n - 1
    BY <1>10
  <2>3. m % SizeMod = m
    BY OutputAssumption
  <2> QED  BY <2>1, <2>2, <2>3
<1>12. TextWritten(res) = s + n - 1
  BY <1>6, <1>7, <1>8
<1>13. CASE TextSize(res) = 0
  BY <1>13 DEF OutputText
<1>14. CASE TextSize(res) # 0
  <2>1. Buffer(TextSize(res), TextWritten(res)) \in GoodBuffers
    BY <1>10, <1>11, <1>12, <1>14, BufferGood
  <2>2. <<Buffer(TextSize(res), TextWritten(res))>> \in Seq(GoodBuffers)
    BY <2>1
  <2> QED  BY <1>14, <2>2 DEF OutputText
<1> QED  BY <1>13, <1>14

(* The only cell does.                                                      *)
LEMMA ValueFits ==
    ASSUME NEW res \in PGresults, Allocatable(res)
    PROVE  \/ OutputValue(res) = [rc |-> "done", status |-> 500, response |-> None]
           \/ \E chain \in Seq(GoodBuffers) : OutputValue(res) = Gives(chain)
<1> DEFINE size == PQgetlength(Cell(res, 0, 0))
<1>1. CASE Rows(res) # 1 \/ Cols(res) # 1 \/ size = 0
  BY <1>1 DEF OutputValue
<1>2. CASE ~(Rows(res) # 1 \/ Cols(res) # 1 \/ size = 0)
  <2>1. 1 \in DOMAIN res.rows /\ 1 \in DOMAIN res.names
    <3>1. DOMAIN res.names = 1..Cols(res) /\ DOMAIN res.rows = 1..Rows(res)
      BY PlacesFinite
    <3> QED  BY <1>2, <3>1
  <2>2. Cell(res, 0, 0) = res.rows[1][1]
    BY DEF Cell
  <2>3. res.rows[1][1] \in Nat \cup {Null}
    <3>1. <<1, 1>> \in (DOMAIN res.rows) \X (DOMAIN res.names) /\ <<1, 1>>[1] = 1 /\ <<1, 1>>[2] = 1
      BY <2>1
    <3> QED  BY <3>1, CellsOf
  <2>4. size \in 1..MemMax
    <3>1. PQgetlength(res.rows[1][1]) <= MemMax
      BY <2>1 DEF Allocatable
    <3>2. size \in Nat /\ size # 0
      BY <1>2, <2>2, <2>3 DEF PQgetlength
    <3> QED  BY <2>2, <3>1, <3>2, OutputAssumption
  <2>5. OutputValue(res) = Gives(<<Buffer(size, size)>>)
    BY <1>2 DEF OutputValue
  <2> HIDE DEF size
  <2>6. <<Buffer(size, size)>> \in Seq(GoodBuffers)
    BY <2>4, BufferGood
  <2> QED  BY <2>5, <2>6
<1> QED  BY <1>1, <1>2

(* The parts of the chain of RDS do.                                        *)
LEMMA HeaderGood ==
    ASSUME 30 <= MemMax
    PROVE  RdsHeader \in GoodBuffers
<1> DEFINE fields == <<1, 4, 1, 2, 2, 2, 8, 8, 2>>
<1>1. fields \in [1..9 -> Int]
  OBVIOUS
<1>2. /\ fields[1] = 1 /\ fields[2] = 4 /\ fields[3] = 1 /\ fields[4] = 2 /\ fields[5] = 2
      /\ fields[6] = 2 /\ fields[7] = 8 /\ fields[8] = 8 /\ fields[9] = 2
  OBVIOUS
<1>3. RdsHeader = Buffer(30, SumFunction(fields))
  BY DEF RdsHeader
<1> HIDE DEF fields
<1>4. PICK g : /\ g[0] = 0 /\ SumFunction(fields) = g[9]
               /\ \A i \in 1..9 : g[i] = fields[i] + g[i - 1]
  <2>1. PICK n \in Nat : n = 9
    OBVIOUS
  <2>2. fields \in [1..n -> Int]
    BY <1>1, <2>1
  <2>3. \E g : /\ g[0] = 0 /\ SumFunction(fields) = g[n]
               /\ \A i \in 1..n : g[i] = fields[i] + g[i - 1]
    BY <2>2, SumInterval
  <2> QED  BY <2>1, <2>3
<1>5. g[1] = 1 /\ g[2] = 5 /\ g[3] = 6
  BY <1>2, <1>4
<1>6. g[4] = 8 /\ g[5] = 10 /\ g[6] = 12
  BY <1>2, <1>4, <1>5
<1>7. g[7] = 20 /\ g[8] = 28 /\ g[9] = 30
  BY <1>2, <1>4, <1>6
<1> QED  BY <1>3, <1>4, <1>7, BufferGood, OutputAssumption

(* The columns: each takes six bytes more than its name.                    *)
LEMMA ColumnsGood ==
    ASSUME NEW res \in PGresults, Cols(res) > 0, Allocatable(res)
    PROVE  RdsColumns(res) \in GoodBuffers
<1> DEFINE D == DOMAIN res.names
           f == [k \in D |-> NameLen[res.names[k]]]
           h == [k \in D |-> 2 + 2 + 2 + NameLen[res.names[k]]]
<1>1. PICK n \in Nat : n = Cols(res) /\ Cardinality(D) = n /\ IsFiniteSet(D)
  BY PlacesFinite
<1>2. \A k \in D : NameLen[res.names[k]] \in Nat
  <2>1. \A k \in D : res.names[k] \in DOMAIN NameLen
    BY DEF PGresults
  <2> QED  BY <2>1, OutputAssumption
<1>3. f \in [D -> Nat] /\ f \in [D -> Int] /\ h \in [D -> Int]
  BY <1>2
<1>4. \A k \in D : h[k] = 6 + f[k]
  BY <1>2
<1>5. RdsColumns(res) = Buffer(n * (2 + 2 + 2) + SumFunction(f), SumFunction(h))
  BY <1>1 DEF RdsColumns
<1>6. n * 6 + SumFunction(f) <= MemMax
  BY <1>1 DEF Allocatable
<1> HIDE DEF D, f, h
<1>7. PICK s \in Nat : s = SumFunction(f)
  BY <1>1, <1>3, SumNat
<1>8. SumFunction(h) = 6 * n + s
  BY <1>1, <1>3, <1>4, <1>7, SumShift
<1>9. n * (2 + 2 + 2) + s = 6 * n + s /\ 6 * n + s \in 1..MemMax
  BY <1>1, <1>6, <1>7, OutputAssumption
<1> QED  BY <1>5, <1>7, <1>8, <1>9, BufferGood

(* A row: each cell takes four bytes more than its value.                   *)
LEMMA RowGood ==
    ASSUME NEW res \in PGresults, Allocatable(res), NEW k \in DOMAIN res.rows
    PROVE  RdsRow(res, k) \in GoodBuffers
<1> DEFINE D == {k} \X (DOMAIN res.names)
           f == [at \in D |-> PQgetlength(res.rows[at[1]][at[2]])]
           h == [at \in D |-> 4 + PQgetlength(res.rows[at[1]][at[2]])]
<1>1. PICK n \in Nat : n = Cols(res) /\ Cardinality(D) = n /\ IsFiniteSet(D)
  BY PlacesFinite
<1>2. \A at \in D : PQgetlength(res.rows[at[1]][at[2]]) \in Nat
  <2>1. {k} \in SUBSET (DOMAIN res.rows)
    OBVIOUS
  <2>2. \A at \in D : res.rows[at[1]][at[2]] \in Nat \cup {Null}
    BY <2>1, CellsOf
  <2> QED  BY <2>2 DEF PQgetlength
<1>3. f \in [D -> Nat] /\ f \in [D -> Int] /\ h \in [D -> Int]
  BY <1>2
<1>d. \A at \in D : h[at] = 4 + f[at]
  BY <1>2
<1>4. PICK last \in 0..1 : last = IF k = Rows(res) THEN 1 ELSE 0
  OBVIOUS
<1>5. RdsRow(res, k) = Buffer(1 + n * 4 + last + SumFunction(f), 1 + SumFunction(h) + last)
  BY <1>1, <1>4 DEF RdsRow, SumCells
<1>6. 2 + n * 4 + SumFunction(f) <= MemMax
  BY <1>1 DEF Allocatable, SumCells
<1> HIDE DEF D, f, h
<1>7. PICK s \in Nat : s = SumFunction(f)
  BY <1>1, <1>3, SumNat
<1>8. SumFunction(h) = 4 * n + s
  <2>1. SumFunction(h) = 4 * Cardinality(D) + SumFunction(f)
    BY <1>1, <1>3, <1>d, SumShift
  <2> QED  BY <1>1, <1>7, <2>1
<1>9. /\ 1 + n * 4 + last + s \in 1..MemMax
      /\ 1 + (4 * n + s) + last = 1 + n * 4 + last + s
  BY <1>6, <1>7, OutputAssumption
<1> QED  BY <1>5, <1>7, <1>8, <1>9, BufferGood

(* The whole chain.                                                         *)
LEMMA RdsFits ==
    ASSUME NEW res \in PGresults, Allocatable(res), res.tuples => Cols(res) > 0
    PROVE  \E chain \in Seq(GoodBuffers) : OutputRds(res) = Gives(chain)
<1>1. /\ RdsHeader \in GoodBuffers
      /\ res.tuples => RdsColumns(res) \in GoodBuffers
      /\ \A k \in DOMAIN res.rows : RdsRow(res, k) \in GoodBuffers
      /\ Buffer(1, 1) \in GoodBuffers
  <2>1. 1 \in 1..MemMax
    BY OutputAssumption DEF Allocatable
  <2> QED  BY <2>1, HeaderGood, ColumnsGood, RowGood, BufferGood DEF Allocatable
<1> DEFINE header == <<RdsHeader>>
           columns == <<RdsColumns(res)>>
           rows == [k \in DOMAIN res.rows |-> RdsRow(res, k)]
           end == RdsTerminator(res)
<1>2. header \in Seq(GoodBuffers) /\ (res.tuples => columns \in Seq(GoodBuffers))
  BY <1>1
<1>3. rows \in Seq(GoodBuffers)
  <2>1. DOMAIN res.rows = 1..Rows(res) /\ Rows(res) \in Nat
    BY PlacesFinite
  <2>2. rows \in [1..Rows(res) -> GoodBuffers]
    BY <1>1, <2>1
  <2> HIDE DEF rows
  <2> QED  BY <2>1, <2>2
<1>4. end \in Seq(GoodBuffers)
  BY <1>1 DEF RdsTerminator
<1>5. OutputRds(res) = Gives(header \o (IF res.tuples THEN columns \o rows \o end ELSE <<>>))
  BY DEF OutputRds
<1> HIDE DEF header, columns, rows, end
<1>6. <<>> \in Seq(GoodBuffers)
  OBVIOUS
<1>7. CASE res.tuples
  <2>1. columns \o rows \o end \in Seq(GoodBuffers)
    BY <1>2, <1>3, <1>4, <1>7
  <2>2. header \o (columns \o rows \o end) \in Seq(GoodBuffers)
    BY <1>2, <2>1
  <2> QED  BY <1>5, <1>7, <2>2
<1>8. CASE ~res.tuples
  <2>1. header \o <<>> \in Seq(GoodBuffers)
    BY <1>2, <1>6
  <2> QED  BY <1>5, <1>8, <2>1
<1> QED  BY <1>7, <1>8

(* Whatever the format, the renderer succeeds, and gives buffers that were  *)
(* written in full.                                                         *)
LEMMA HandlerFits ==
    ASSUME NEW format \in Formats, NEW res \in PGresults, Allocatable(res),
           res.tuples => Cols(res) > 0
    PROVE  /\ OutputHandler(format, res).rc = "done"
           /\ OutputHandler(format, res).response # None =>
                 OutputHandler(format, res).response \in Seq(GoodBuffers)
<1>1. \A out : out = Nothing \/ out = [rc |-> "done", status |-> 500, response |-> None]
              \/ (\E chain \in Seq(GoodBuffers) : out = Gives(chain))
         => out.rc = "done" /\ (out.response # None => out.response \in Seq(GoodBuffers))
  BY GivesGood DEF Nothing
<1>2. CASE format = "none"
  BY <1>1, <1>2 DEF OutputHandler
<1>3. CASE format = "rds"
  BY <1>1, <1>3, RdsFits DEF OutputHandler
<1>4. CASE format = "text"
  <2>1. CASE Rows(res) = 0
    BY <1>1, <1>4, <2>1 DEF OutputHandler, OutputText
  <2>2. CASE Rows(res) # 0
    <3>1. Cols(res) # 0
      <4>1. res.tuples
        BY <2>2 DEF PGresults, Rows
      <4>2. Cols(res) \in Nat
        BY PlacesFinite
      <4> QED  BY <4>1, <4>2
    <3> QED  BY <1>1, <1>4, <2>2, <3>1, TextFits DEF OutputHandler
  <2> QED  BY <2>1, <2>2
<1>5. CASE format \in {"value", "binary_value"}
  <2>1. OutputHandler(format, res) = OutputValue(res)
    BY <1>5 DEF OutputHandler
  <2> QED  BY <1>1, <2>1, ValueFits
<1> QED  BY <1>2, <1>3, <1>4, <1>5 DEF Formats

(* So the output of a result is always written.                             *)
LEMMA OutputsFit ==
    ASSUME \A res \in Results : Allocatable(res)
    PROVE  LocInv => OutputFits
<1> SUFFICES ASSUME LocInv, result # None, result.tuples => Cols(result) > 0
             PROVE  OutputFits
  BY DEF OutputFits
<1>0. TypesInv /\ ResultInv /\ StatusInv
  BY DEF LocInv
<1>1. /\ result \in PGresults /\ pglcf.output \in Formats /\ Allocatable(result)
  BY <1>0, ResultFacts DEF TypesInv, ResultInv
<1>2. PICK out : out = OutputHandler(pglcf.output, result)
  OBVIOUS
<1>3. /\ ctx.response # None => ctx.response = out.response
      /\ stage = "broken" => out.rc = "error"
  BY <1>0, <1>2 DEF StatusInv
<1>4. /\ out.rc = "done"
      /\ out.response # None => out.response \in Seq(GoodBuffers)
  BY <1>1, <1>2, HandlerFits
<1>5. stage # "broken"
  BY <1>3, <1>4
<1>6. ctx.response # None =>
         \A i \in DOMAIN ctx.response : /\ ctx.response[i].written = ctx.response[i].size
                                        /\ ctx.response[i].size > 0
  <2>1. ASSUME NEW chain \in Seq(GoodBuffers), NEW i \in DOMAIN chain
        PROVE  chain[i].written = chain[i].size /\ chain[i].size > 0
    <3>1. chain[i] \in GoodBuffers
      OBVIOUS
    <3> QED  BY <3>1, OutputAssumption DEF GoodBuffers
  <2> QED  BY <1>3, <1>4, <2>1
<1> QED  BY <1>5, <1>6 DEF OutputFits

(* As long as memory can be had for it, the output of every result that has *)
(* a column, or is of a command, is written: no renderer                    *)
(* (ngx_postgres_output.c) finds that it filled less or more of a buffer    *)
(* than it computed, or makes one that nginx would refuse as empty.         *)
THEOREM OutputAlwaysFits ==
    ASSUME \A res \in Results : Allocatable(res)
    PROVE  Spec => []OutputFits
<1>1. LocInv => OutputFits
  BY OutputsFit
<1> QED  BY <1>1, LocationInvariant, PTL
=============================================================================
