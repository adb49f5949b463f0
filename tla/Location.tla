------------------------------ MODULE Location ------------------------------
(***************************************************************************)
(* A location of the configuration: the directives that describe it, what  *)
(* it inherits, and the requests it serves, from the choice of the query   *)
(* to the status and the body of the answer.  Talking to the database is   *)
(* the subject of Worker; here it returns a result or fails.               *)
(***************************************************************************)
EXTENDS Output, FiniteSets

CONSTANTS
    Methods,        \* HTTP methods
    MethodSets,     \* the methods a directive may list; {} for none
    Targets,        \* the status codes written in postgres_rewrite; -N for "=N"
    Positions,      \* what postgres_set may ask for: a row and a column,
                    \* or the name of a column
    Results,        \* what the database may answer
    FailCodes,      \* what the client is told when the database fails
    MaxDirectives,  \* bound: directives read
    MaxOuter,       \* bound: of them, those of the outer level
    Unset           \* NGX_CONF_UNSET_PTR

ASSUME LocationAssumption ==
    /\ MethodSets \subseteq SUBSET Methods
    /\ Targets \subseteq Int /\ FailCodes \subseteq 500..599
    /\ MaxDirectives \in Nat /\ MaxOuter \in Nat
    /\ Unset # None
    /\ None \notin {"outer", "inner"} \X Nat

ASSUME ResultsAssumption ==
    /\ Results \subseteq PGresults \ {None}
    /\ \A at \in Positions : at.row \in Nat     \* ngx_atoi
    /\ None \notin Int

Levels == {"outer", "inner"}
Conditions == {"no_changes", "changes", "no_rows", "rows"}

(* The part that ngx_postgres_query_conf_t and ngx_postgres_rewrite_conf_t  *)
(* share: entries for sets of methods, methods_set their union, a default.  *)
Table(V) == [methods_set : SUBSET Methods,
             methods : Seq([key : SUBSET Methods, value : V]),
             def : V \cup {None}]
NewTable == [methods_set |-> {}, methods |-> <<>>, def |-> None]

RewriteLists == Seq([condition : Conditions, table : Table(Targets)])
ASSUME UnsetAssumption == Unset \notin RewriteLists

VARIABLES
    given,      \* per level: the directives accepted, in the order of the file
    conf,       \* per level: its ngx_postgres_loc_conf_t
    stage,      \* "reading", "refused", "serving", or how far the request is
    method,     \* r->method, None before the first request
    result,     \* the result of the request, None before
    ctx,        \* its ngx_postgres_ctx_t
    answer      \* what the last request was answered

vars == <<given, conf, stage, method, result, ctx, answer>>

(* ngx_postgres_create_loc_conf *)
CreateLocConf == [query |-> NewTable, rewrites |-> Unset, output |-> Unset,
                  variables |-> Unset]

(* var_cols, var_rows and var_affected are NGX_ERROR. *)
NewCtx(n) == [query |-> None, cols |-> -1, rows |-> -1, affected |-> -1,
              status |-> 0, store |-> [k \in 1..n |-> 0], response |-> None]
NoCtx == NewCtx(0)

Init ==
    /\ given = [l \in Levels |-> <<>>]
    /\ conf = [l \in Levels |-> CreateLocConf]
    /\ stage = "reading"
    /\ method = None
    /\ result = None
    /\ ctx = NoCtx
    /\ answer = None

-----------------------------------------------------------------------------
(* The directives *)

(* A method, or the default, is given twice for the same table. *)
Duplicate_DefaultOnly(t, ms) == ms = {} /\ t.def # None
Duplicate(t, ms) == IF ms = {} THEN t.def # None ELSE t.methods_set \cap ms # {}

Insert(t, ms, v) ==
    IF ms = {} THEN [t EXCEPT !.def = v]
    ELSE [t EXCEPT !.methods_set = @ \cup ms,
                   !.methods = Append(@, [key |-> ms, value |-> v])]

Reading(l) ==
    /\ stage = "reading"
    /\ Len(given["outer"]) + Len(given["inner"]) < MaxDirectives
    /\ l = "outer" => Len(given["outer"]) < MaxOuter

Accept(l, directive, c) ==
    /\ given' = [given EXCEPT ![l] = Append(@, directive)]
    /\ conf' = [conf EXCEPT ![l] = c]
    /\ UNCHANGED <<stage, method, result, ctx, answer>>

(* NGX_CONF_ERROR or "is duplicate": nginx does not start. *)
Refuse ==
    /\ stage' = "refused"
    /\ UNCHANGED <<given, conf, method, result, ctx, answer>>

(* The query of a directive is identified by its place in the file. *)
ConfQuery(l) ==
    /\ Reading(l)
    /\ \E ms \in MethodSets :
          LET sql == <<l, Len(given[l]) + 1>>
          IN  IF Duplicate(conf[l].query, ms) THEN Refuse
              ELSE Accept(l, [kind |-> "query", methods |-> ms, value |-> sql],
                          [conf[l] EXCEPT !.query = Insert(@, ms, sql)])

(* The number written, with or without "=". *)
ValidStatus(to) ==
    LET valid == (200..507) \ (300..399) IN to \in valid \/ -to \in valid

(* The entries of one condition are kept together, where it came first. *)
ConfRewrite(l) ==
    /\ Reading(l)
    /\ \E ms \in MethodSets, what \in Conditions, to \in Targets :
          LET old == IF conf[l].rewrites = Unset THEN <<>> ELSE conf[l].rewrites
              known == {k \in DOMAIN old : old[k].condition = what}
              grown == IF known # {} THEN old
                       ELSE Append(old, [condition |-> what, table |-> NewTable])
              at == CHOOSE k \in DOMAIN grown : grown[k].condition = what
          IN  IF Duplicate(grown[at].table, ms) \/ ~ValidStatus(to) THEN Refuse
              ELSE Accept(l, [kind |-> "rewrite", methods |-> ms, value |-> to,
                              condition |-> what],
                          [conf[l] EXCEPT !.rewrites =
                             [grown EXCEPT ![at].table = Insert(@, ms, to)]])

ConfOutput(l) ==
    /\ Reading(l)
    /\ \E format \in Formats :
          IF conf[l].output # Unset THEN Refuse
          ELSE Accept(l, [kind |-> "output", value |-> format],
                      [conf[l] EXCEPT !.output = format])

(* Each directive names a variable of its own: a second one of the same     *)
(* name is refused wherever it is.                                          *)
ConfSet(l) ==
    /\ Reading(l)
    /\ \E at \in Positions, required \in BOOLEAN :
          LET v == [at |-> at, required |-> required]
              old == IF conf[l].variables = Unset THEN <<>> ELSE conf[l].variables
          IN  Accept(l, [kind |-> "set", value |-> v],
                     [conf[l] EXCEPT !.variables = Append(old, v)])

(* ngx_postgres_merge_loc_conf, at the end of the configuration. *)
Inherited(own, prev, default) ==
    IF own # Unset THEN own ELSE IF prev # Unset THEN prev ELSE default

MergedQuery(prev, own) ==
    IF own.def = None /\ own.methods = <<>> THEN prev ELSE own

MergeLocConf ==
    /\ stage = "reading"
    /\ LET prev == conf["outer"]
           own == conf["inner"]
       IN  conf' = [conf EXCEPT !["inner"] =
             [query |-> MergedQuery(prev.query, own.query),
              rewrites |-> Inherited(own.rewrites, prev.rewrites, <<>>),
              output |-> Inherited(own.output, prev.output, "rds"),
              variables |-> Inherited(own.variables, prev.variables, <<>>)]]
    /\ stage' = "serving"
    /\ UNCHANGED <<given, method, result, ctx, answer>>

pglcf == conf["inner"]

-----------------------------------------------------------------------------
(* A request *)

(* The value a table has for a method: ngx_postgres_rewrite, and the choice *)
(* of the query in ngx_postgres_upstream_init_peer.                         *)
Lookup_FirstEntry(t, m) ==
    IF m \in t.methods_set THEN t.methods[1].value ELSE t.def
Lookup(t, m) ==
    IF m \in t.methods_set
    THEN LET k == CHOOSE k \in DOMAIN t.methods :
                     /\ m \in t.methods[k].key
                     /\ \A j \in 1..(k - 1) : m \notin t.methods[j].key
         IN  t.methods[k].value
    ELSE t.def

(* ngx_http_finalize_request with a special status: nginx's own page. *)
Page(status) == [status |-> status, page |-> TRUE, body |-> None]

(* ngx_postgres_handler, up to ngx_http_upstream_init. *)
HandleRequest ==
    /\ stage = "serving"
    /\ method' \in Methods
    /\ result' = None
    /\ LET known == pglcf.query.methods_set
       IN  IF pglcf.query.def = None /\ method' \notin known
           THEN /\ answer' = Page(IF known # {} THEN 405 ELSE 500)
                /\ ctx' = NoCtx
                /\ UNCHANGED stage
           ELSE /\ answer' = None
                /\ ctx' = NewCtx(Len(pglcf.variables))
                /\ stage' = "upstream"
    /\ UNCHANGED <<given, conf>>

(* What ends the handler before a context is made: a subrequest in memory,  *)
(* a body that cannot be discarded, no memory, or no upstream (Upstream);   *)
(* nginx answers 500 for the second, the handler for the others.            *)
TurnAway ==
    /\ stage = "serving"
    /\ method' \in Methods
    /\ result' = None
    /\ ctx' = NoCtx
    /\ answer' = Page(500)
    /\ UNCHANGED <<given, conf, stage>>

(* ngx_postgres_upstream_init_peer *)
InitPeer ==
    /\ stage = "upstream"
    /\ ctx' = [ctx EXCEPT !.query = Lookup(pglcf.query, method)]
    /\ stage' = "sent"
    /\ UNCHANGED <<given, conf, method, result, answer>>

(* ngx_postgres_upstream_finalize_request with an error code. *)
Fail ==
    /\ stage \in {"upstream", "sent", "broken", "acked"}
    /\ \E code \in FailCodes : answer' = Page(code)
    /\ stage' = "serving"
    /\ UNCHANGED <<given, conf, method, result, ctx>>

(* PQcmdStatus and PQcmdTuples, lines 393-401. *)
Affected_Select(res) == IF res.tag = None THEN -1 ELSE res.tag
Affected(res) == IF res.select \/ res.tag = None THEN -1 ELSE res.tag

Seen(res) == [ctx EXCEPT !.cols = Cols(res), !.rows = Rows(res),
                         !.affected = Affected(res)]

(* ngx_postgres_rewrite_changes, ngx_postgres_rewrite_rows. *)
Met_NonZero(condition, c) ==
    CASE condition = "no_changes" -> c.affected = 0
      [] condition = "changes"    -> c.affected # 0
      [] condition = "no_rows"    -> c.rows = 0
      [] condition = "rows"       -> c.rows > 0
Met(condition, c) ==
    CASE condition = "no_changes" -> c.affected = 0
      [] condition = "changes"    -> c.affected > 0
      [] condition = "no_rows"    -> c.rows = 0
      [] condition = "rows"       -> c.rows > 0

(* The first rewrite that does not decline. *)
Rewritten(c) ==
    LET hits == {k \in DOMAIN pglcf.rewrites :
                   /\ Met(pglcf.rewrites[k].condition, c)
                   /\ Lookup(pglcf.rewrites[k].table, method) # None}
    IN  IF hits = {} THEN None
        ELSE Lookup(pglcf.rewrites[CHOOSE k \in hits : \A j \in hits : k <= j].table,
                    method)

(* ngx_postgres_variable_set_custom: the length of the value, 0 when there  *)
(* is none.  A column given by name is looked up (PQfnumber).               *)
SetCustom(res, v) ==
    LET cols == {k \in 0..(Cols(res) - 1) :
                   IF v.at.name = None THEN k = v.at.column
                   ELSE /\ res.names[k + 1] = v.at.name
                        /\ \A j \in 1..k : res.names[j] # v.at.name}
    IN  IF cols = {} \/ v.at.row >= Rows(res) THEN 0
        ELSE PQgetlength(Cell(res, v.at.row, CHOOSE k \in cols : TRUE))

(* lost are the variables for whose values there was no memory.             *)
Missing(res, lost) ==
    {k \in DOMAIN pglcf.variables :
       /\ pglcf.variables[k].required
       /\ k \in lost \/ SetCustom(res, pglcf.variables[k]) = 0}

(* The loop stops at the first required variable without a value. *)
Stored(res, lost) ==
    [k \in DOMAIN pglcf.variables |->
       IF k \in lost \/ \E j \in Missing(res, lost) : j < k THEN 0
       ELSE SetCustom(res, pglcf.variables[k])]

Processed(c) == ctx' = c /\ stage' = "acked"

(* ngx_postgres_process_response *)
ProcessResponse ==
    /\ stage = "sent"
    /\ \E res \in Results, lost \in SUBSET DOMAIN pglcf.variables :
          LET to == Rewritten(Seen(res))
              special == to # None /\ to >= 300
              rewritten == IF to = None THEN Seen(res)
                           ELSE [Seen(res) EXCEPT !.status = to]
              stored == [rewritten EXCEPT !.store = Stored(res, lost)]
              out == OutputHandler(pglcf.output, res)
          IN  /\ \A k \in lost : SetCustom(res, pglcf.variables[k]) # 0
              /\ result' = res
              /\ \/ special /\ Processed(rewritten)
                 \/ /\ ~special /\ Missing(res, lost) # {}
                    /\ Processed([stored EXCEPT !.status = 500])
                 \/ /\ ~special /\ Missing(res, lost) = {} /\ out.rc = "done"
                    /\ Processed([stored EXCEPT
                          !.status = IF out.status = None THEN @ ELSE out.status,
                          !.response = out.response])
                 \/ /\ ~special /\ Missing(res, lost) = {} /\ out.rc = "error"
                    /\ ctx' = stored /\ stage' = "broken"
    /\ UNCHANGED <<given, conf, method, answer>>

Status_Signed(to) == to
Status(to) == IF to < 0 THEN -to ELSE to     \* ngx_abs

(* ngx_postgres_output_chain, called back by ngx_postgres_finalize_request. *)
OutputChain ==
    [status |-> IF ctx.status = 0 THEN 200 ELSE Status(ctx.status),
     page |-> FALSE, body |-> ctx.response]

(* ngx_postgres_upstream_done: a status below 0 is no error here. *)
Done_KeepsNothing ==
    /\ stage = "acked"
    /\ answer' = IF Status(ctx.status) >= 300 THEN Page(Status(ctx.status)) ELSE OutputChain
    /\ stage' = "serving"
    /\ UNCHANGED <<given, conf, method, result, ctx>>
Done ==
    /\ stage = "acked"
    /\ answer' = IF ctx.status >= 300 THEN Page(ctx.status) ELSE OutputChain
    /\ stage' = "serving"
    /\ UNCHANGED <<given, conf, method, result, ctx>>

(* ngx_postgres_variable_get_custom: the slot of the store that is read for *)
(* the k-th variable of a level, in a request of the location.              *)
SlotRead(l, k) == IF ctx.store = <<>> THEN {} ELSE {k}

(* What the variables of the module say, None for not found: those of       *)
(* ngx_postgres_variables, and the k-th postgres_set of the location.       *)
Counter(n) == IF n = -1 THEN None ELSE n
Variable(name) ==
    CASE name = "columns"  -> Counter(ctx.cols)
      [] name = "rows"     -> Counter(ctx.rows)
      [] name = "affected" -> Counter(ctx.affected)
      [] name = "query"    -> ctx.query
GetCustom(k) == IF ctx.store = <<>> \/ ctx.store[k] = 0 THEN None ELSE ctx.store[k]

Next ==
    \/ \E l \in Levels : ConfQuery(l) \/ ConfRewrite(l) \/ ConfOutput(l) \/ ConfSet(l)
    \/ MergeLocConf
    \/ HandleRequest \/ TurnAway \/ InitPeer \/ ProcessResponse \/ Done \/ Fail
    \/ stage = "refused" /\ UNCHANGED vars

Spec == Init /\ [][Next]_vars
-----------------------------------------------------------------------------
(* Properties.  They are stated over the directives as the file gives them. *)

LocationTypeOK ==
    /\ \A l \in Levels :
          /\ conf[l].query.methods_set \subseteq Methods
          /\ conf[l].query.def \in {None} \cup (Levels \X Nat)
          /\ conf[l].output \in Formats \cup {Unset}
    /\ stage \in {"reading", "refused", "serving", "upstream", "sent", "broken", "acked"}
    /\ method \in Methods \cup {None}
    /\ result \in Results \cup {None}
    /\ ctx.cols \in Nat \cup {-1} /\ ctx.rows \in Nat \cup {-1}
    /\ ctx.affected \in Nat \cup {-1} /\ ctx.status \in Int
    /\ \A k \in DOMAIN ctx.store : ctx.store[k] \in Nat
    /\ answer # None => answer.status \in 200..599

OfKind(l, kind) == {k \in DOMAIN given[l] : given[l][k].kind = kind}

(* The directives of a kind that the location uses: its own, or, when it    *)
(* has none, those of the level around it.                                  *)
InEffect(kind) ==
    LET l == IF OfKind("inner", kind) # {} THEN "inner" ELSE "outer"
    IN  {<<l, k>> : k \in OfKind(l, kind)}
Directive(at) == given[at[1]][at[2]]

(* Every query sent is the one the file has for the method of the request,  *)
(* the one for all methods when none lists it; and a request is refused     *)
(* exactly when the file has neither, as not allowed when it has others     *)
(* (405 can also be the status of a rewrite, but then there is a context).  *)
QueryOfMethod ==
    LET ds == InEffect("query")
        listing == {d \in ds : method \in Directive(d).methods}
        defaults == {d \in ds : Directive(d).methods = {}}
    IN  /\ ctx.query # None =>
              \/ ctx.query \in listing
              \/ listing = {} /\ ctx.query \in defaults
        /\ stage \in {"sent", "broken", "acked"} => ctx.query # None
        /\ answer # None /\ answer.status = 405 /\ ctx = NoCtx =>
              ds # {} /\ listing = {} /\ defaults = {}

(* What the conditions of postgres_rewrite mean: commands that report how   *)
(* many rows they affected, and the rows of the result-set.                 *)
Holds(condition, res) ==
    CASE condition = "no_changes" -> ~res.select /\ res.tag = 0
      [] condition = "changes"    -> ~res.select /\ res.tag \notin {0, None}
      [] condition = "no_rows"    -> res.rows = <<>>
      [] condition = "rows"       -> res.rows # <<>>

(* The rewrites that apply to the result of the request: the condition      *)
(* holds, and the method is listed, or no rewrite of the same condition     *)
(* lists it.                                                                *)
Applicable ==
    {d \in InEffect("rewrite") :
       LET x == Directive(d)
       IN  /\ Holds(x.condition, result)
           /\ \/ method \in x.methods
              \/ /\ x.methods = {}
                 /\ \A e \in InEffect("rewrite") :
                       Directive(e).condition = x.condition
                       => method \notin Directive(e).methods}

FirstMention(condition) ==
    CHOOSE k \in 1..MaxDirectives :
       /\ \E d \in InEffect("rewrite") :
             d[2] = k /\ Directive(d).condition = condition
       /\ \A d \in InEffect("rewrite") :
             Directive(d).condition = condition => k <= d[2]

(* A required variable got no value in this request. *)
Unsatisfied ==
    \E k \in DOMAIN pglcf.variables :
       pglcf.variables[k].required /\ ctx.store[k] = 0

(* Among the rewrites of one condition the one that lists the method goes   *)
(* before the one for all methods, and among conditions the one that the    *)
(* file mentions first: the status is that of the applicable rewrite this   *)
(* picks, which need not be the first in the file (FirstOneWins).  Only     *)
(* when it is no error can the status become the 500 of a variable without  *)
(* a value, or of an output that wants a single value.                      *)
RewriteChosen ==
    stage = "acked" =>
       LET best == {Directive(d).value :
                      d \in {d \in Applicable : \A e \in Applicable :
                               FirstMention(Directive(d).condition)
                               <= FirstMention(Directive(e).condition)}}
       IN  \/ ctx.status \in best
           \/ ctx.status = 0 /\ best = {}
           \/ /\ ctx.status = 500 /\ \A s \in best : s < 300
              /\ Unsatisfied \/ pglcf.output \in {"value", "binary_value"}

(* The rule the README gives for postgres_rewrite: "Rewrite response        *)
(* status_code when given condition is met (first one wins!)".  Of the      *)
(* rewrites for this method, or for all, whose condition is met, the first  *)
(* in the file gives the status, if nothing after it fails with 500.  The   *)
(* code does otherwise: ngx_postgres_conf_rewrite adds a rewrite to those   *)
(* of its condition, wherever that condition first came, and                *)
(* ngx_postgres_rewrite tries the ones that list methods before the default.*)
FirstOneWins ==
    stage = "acked" =>
       LET met == {d \in InEffect("rewrite") :
                     /\ Holds(Directive(d).condition, result)
                     /\ Directive(d).methods = {} \/ method \in Directive(d).methods}
       IN  \A d \in met : (\A e \in met : d[2] <= e[2])
                            => ctx.status \in {Directive(d).value, 500}

(* What the client gets.  A response has a status of success or one written *)
(* "=N", every required variable has a value, and a body comes only from    *)
(* the result of this very request; an error page never has a status that   *)
(* was written "=N" alone.                                                  *)
AnswerMatches ==
    answer # None =>
       LET targets == {Directive(d).value : d \in InEffect("rewrite")}
       IN  IF answer.page
           THEN answer.status \in targets \cup {405, 500} \cup FailCodes
           ELSE /\ result # None /\ ~Unsatisfied
                /\ answer.status \in 200..299 \/ -answer.status \in targets
                /\ answer.body = None \/ answer.body = OutputHandler(pglcf.output, result).response

(* The variables that other modules read are found exactly when there is    *)
(* something to say, and then describe the result of this request: no rows  *)
(* and none affected are 0, not "not found"; nothing is left of the request *)
(* before; and rows are affected only by a command that says how many.      *)
VariablesAreFresh ==
    IF result = None
    THEN /\ \A name \in {"columns", "rows", "affected"} : Variable(name) = None
         /\ ctx # NoCtx => \A k \in DOMAIN pglcf.variables : GetCustom(k) = None
    ELSE /\ Variable("query") # None
         /\ Variable("columns") = Len(result.names)
         /\ Variable("rows") = Len(result.rows)
         /\ Variable("affected") = IF result.select THEN None ELSE result.tag
         /\ \A k \in DOMAIN pglcf.variables : GetCustom(k) # None =>
                \E at \in (DOMAIN result.rows) \X (DOMAIN result.names) :
                   GetCustom(k) = result.rows[at[1]][at[2]]

(* Whatever the result, as long as it has a column or is of a command, the  *)
(* output is written in full into buffers of the right size, none of them   *)
(* empty: nginx would refuse an empty one.                                  *)
OutputFits ==
    result # None /\ (result.tuples => Cols(result) > 0) =>
       /\ stage # "broken"
       /\ ctx.response # None =>
             \A i \in DOMAIN ctx.response :
                /\ ctx.response[i].written = ctx.response[i].size
                /\ ctx.response[i].size > 0

(* The comment of ngx_postgres_variable_get_custom: "idx is always valid".  *)
IdxAlwaysValid ==
    \A l \in Levels : conf[l].variables # Unset =>
       \A k \in DOMAIN conf[l].variables : SlotRead(l, k) \subseteq DOMAIN ctx.store

(* No table of an accepted configuration is ambiguous: a method is in at    *)
(* most one entry, and listed exactly when it is in one.                    *)
Unambiguous(t) ==
    /\ \A j, k \in DOMAIN t.methods : j # k => t.methods[j].key \cap t.methods[k].key = {}
    /\ t.methods_set = UNION {t.methods[k].key : k \in DOMAIN t.methods}

TablesUnambiguous ==
    \A l \in Levels :
       /\ Unambiguous(conf[l].query)
       /\ conf[l].rewrites # Unset =>
             \A k \in DOMAIN conf[l].rewrites : Unambiguous(conf[l].rewrites[k].table)
=============================================================================
