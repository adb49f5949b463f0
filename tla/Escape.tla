------------------------------- MODULE Escape -------------------------------
(***************************************************************************)
(* postgres_escape: the directives of a location, the script codes they    *)
(* append to those of nginx's rewrite module, and the run of the script in *)
(* the rewrite phase of a request, which leaves literals of SQL in the     *)
(* variables that its query is made of.                                    *)
(*                                                                         *)
(* A text is a sequence of bytes, of which those matter that libpq or the  *)
(* server treats specially: the quote, the backslash and the zero byte.    *)
(***************************************************************************)
EXTENDS Integers, SequencesExt

CONSTANTS
    Texts,          \* what a variable may be worth when the phase begins
    Sources,        \* the values a directive may have
    Destinations,   \* its first argument when it has two, <<>> when it has not
    MaxCodes        \* bound: directives read

Bytes == {"'", "\\", "0", "x"}
Parts == [var : {"", "a", "b"}, text : Seq(Bytes)]

ASSUME EscapeAssumption ==
    /\ MaxCodes \in Nat
    /\ Texts \subseteq Seq(Bytes)
    /\ Sources \subseteq [equals : BOOLEAN, parts : Seq(Parts)]
    /\ Destinations \subseteq Seq(Parts)

VARIABLES
    codes,      \* rlcf->codes: three codes for each directive accepted
    ip,         \* e->ip: the directive whose codes run next, 0 while reading
    status,     \* e->status, "none" or "error" (500); or "refused", when nginx
                \* does not start, "overrun", after a write past a buffer
    var,        \* the variables of the request
    std         \* what libpq last heard of standard_conforming_strings

escapeVars == <<codes, ip, status, var, std>>

(* libpq: PQescapeString stops at a zero byte and doubles quotes; it        *)
(* doubles backslashes too unless the connection last used reported         *)
(* standard_conforming_strings.                                             *)
TextOf(v) ==
    LET zeros == {i \in DOMAIN v : v[i] = "0"}
    IN  IF zeros = {} THEN v ELSE SubSeq(v, 1, Min(zeros) - 1)
PQescapeString(v) ==
    LET text == TextOf(v)
        special == IF std THEN {"'"} ELSE {"'", "\\"}
    IN  FlattenSeq([i \in DOMAIN text |->
           IF text[i] \in special THEN <<text[i], text[i]>> ELSE <<text[i]>>])

NullWord == <<"NULL">>      \* the word, not a text

-----------------------------------------------------------------------------
(* The directive.  An argument is a sequence of parts, each a variable or a *)
(* text, and the last argument may begin with "=".                          *)

Var(name) == [var |-> name, text |-> <<>>]
Text(bytes) == [var |-> "", text |-> bytes]
IsVariable(part) == part.var # ""

(* With one argument the value is also the destination.  A destination must *)
(* begin with "$"; if more follows than a name, all of it is the name of    *)
(* one variable ("odd"), which no value of a directive can refer to.        *)
Destination(dst, src) == IF dst = <<>> THEN src.parts ELSE dst
ConfEscapeOK(dst, src) ==
    src.parts # <<>> /\ IsVariable(Destination(dst, src)[1])

(* ngx_postgres_conf_escape *)
ConfEscape(dst, src) ==
    /\ ip = 0 /\ status = "none"
    /\ Len(codes) < MaxCodes
    /\ IF ConfEscapeOK(dst, src)
       THEN LET to == Destination(dst, src)
                code == [value |-> src.parts, empty |-> src.equals,
                         to |-> IF Len(to) = 1 THEN to[1].var ELSE "odd"]
            IN  codes' = Append(codes, code) /\ UNCHANGED status
       ELSE status' = "refused" /\ UNCHANGED codes
    /\ UNCHANGED <<ip, var, std>>

-----------------------------------------------------------------------------
(* The script *)

EscapeInit ==
    /\ codes = <<>>
    /\ ip = 0
    /\ status = "none"
    /\ var = [a |-> <<>>, b |-> <<>>, odd |-> <<>>]
    /\ std = TRUE

(* nginx: the rewrite phase of a request begins, whatever used libpq        *)
(* before.  One request stands for all: none leaves anything to the next.   *)
BeginScript ==
    /\ status = "none"
    /\ ip = 0 /\ codes # <<>>
    /\ ip' = 1
    /\ \E a, b \in Texts : var' = [a |-> a, b |-> b, odd |-> <<>>]
    /\ std' \in BOOLEAN
    /\ UNCHANGED <<codes, status>>

(* ngx_postgres_rewrite_value: what its codes leave on the stack. *)
ScriptValue(parts) ==
    FlattenSeq([i \in DOMAIN parts |->
       IF IsVariable(parts[i]) THEN var[parts[i].var] ELSE parts[i].text])

(* The buffer of ngx_postgres_escape_string; the quotes around the text.    *)
Allocated(v) == 2 * Len(v) + 2
Quoted_Unclosed(text) == <<"'">> \o text
Quoted(text) == <<"'">> \o text \o <<"'">>

(* ngx_postgres_script_exit_code, which ends the script: ip points past it. *)
Exit_StatusForgotten == ip' = Len(codes) + 1 /\ UNCHANGED <<status, var>>
Exit == ip' = Len(codes) + 1 /\ status' = "error" /\ UNCHANGED var

Assign(literal) ==
    /\ var' = [var EXCEPT ![codes[ip].to] = literal]
    /\ ip' = ip + 1
    /\ UNCHANGED status

(* The codes of one directive: the value, ngx_postgres_escape_string, the   *)
(* assignment.  An empty text and a variable that does not exist are the    *)
(* same here; "=" (empty) decides what both become.  There may be no memory *)
(* for the buffer.                                                          *)
EscapeString ==
    /\ ip \in DOMAIN codes /\ status = "none"
    /\ LET v == ScriptValue(codes[ip].value)
           literal == Quoted(PQescapeString(v))
       IN  \/ v = <<>> /\ Assign(IF codes[ip].empty THEN Quoted(<<>>) ELSE NullWord)
           \/ v # <<>> /\ Exit
           \/ v # <<>> /\ Len(literal) <= Allocated(v) /\ Assign(literal)
           \/ /\ v # <<>> /\ Len(literal) > Allocated(v)
              /\ status' = "overrun" /\ UNCHANGED <<ip, var>>
    /\ UNCHANGED <<codes, std>>

PhaseOver == status \in {"refused", "overrun"} \/ ip > Len(codes)

EscapeNext ==
    \/ \E dst \in Destinations, src \in Sources : ConfEscape(dst, src)
    \/ BeginScript
    \/ EscapeString
    \/ PhaseOver /\ UNCHANGED escapeVars

EscapeSpec == EscapeInit /\ [][EscapeNext]_escapeVars
-----------------------------------------------------------------------------
(* Properties, against how the server reads a query. *)

(* One byte of a literal: outside, inside, after a quote that ends the      *)
(* literal unless another follows, or after a backslash.  The server has    *)
(* standard_conforming_strings or not.                                      *)
ReadByte(conforming, state, byte) ==
    CASE state.at = "outside" ->
           [state EXCEPT !.at = IF byte = "'" THEN "inside" ELSE "bad"]
      [] state.at = "inside" ->
           IF byte = "'" THEN [state EXCEPT !.at = "quote"]
           ELSE IF byte = "\\" /\ ~conforming THEN [state EXCEPT !.at = "backslash"]
           ELSE [state EXCEPT !.text = Append(@, byte)]
      [] state.at = "quote" ->
           IF byte = "'" THEN [at |-> "inside", text |-> Append(state.text, byte)]
           ELSE [state EXCEPT !.at = "bad"]
      [] state.at = "backslash" ->
           [at |-> "inside", text |-> Append(state.text, byte)]
      [] OTHER -> state
Read(conforming, literal) ==
    FoldLeft(LAMBDA state, byte : ReadByte(conforming, state, byte),
             [at |-> "outside", text |-> <<>>], literal)

(* Whatever the text, what a directive leaves in its variable is read back  *)
(* by the server as that text, up to its first zero byte, from one complete *)
(* literal; an empty one as NULL, or as empty if so asked.  It is taken     *)
(* that the server has the setting that libpq last heard of.                *)
EscapeReadsBack ==
    [][ip # 0 /\ ip' = ip + 1 /\ var' # var =>
          LET v == ScriptValue(codes[ip].value)
              literal == var'[codes[ip].to]
          IN  IF v = <<>> /\ ~codes[ip].empty THEN literal = NullWord
              ELSE Read(std, literal) = [at |-> "quote", text |-> TextOf(v)]]_escapeVars

(* However many directives there are, whichever of them finds no memory and *)
(* whatever the variables were, also escaped in place or by both of them:   *)
(* when the phase is over the request is answered 500 or has one complete   *)
(* literal in every variable that a postgres_escape names, so that no query *)
(* is made of a text as it came; and no buffer is overrun.                  *)
EscapedOrRefused ==
    /\ status # "overrun"
    /\ ip = Len(codes) + 1 /\ status # "error" =>
          \A k \in DOMAIN codes :
             LET literal == var[codes[k].to]
             IN  literal = NullWord \/ Read(std, literal).at = "quote"
=============================================================================
