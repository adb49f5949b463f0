------------------------------- MODULE Output -------------------------------
(***************************************************************************)
(* What ngx_postgres_output.c makes of a result: the chain of buffers of   *)
(* each format.  The size of every buffer is computed before it is         *)
(* allocated, the data is written by a second pass, and the renderers give *)
(* up when the two disagree.  A cell is its length in bytes, or Null; the  *)
(* bytes themselves and their order within a buffer are left out.          *)
(***************************************************************************)
EXTENDS Integers, Sequences, Functions

CONSTANTS
    Null,       \* an SQL NULL
    None,       \* a NULL pointer, or a value that is not there
    NameLen,    \* the length of each column name
    SizeMod,    \* size_t is an integer modulo this
    MemMax      \* the largest allocation that succeeds

ASSUME OutputAssumption ==
    /\ MemMax \in Nat /\ SizeMod \in Nat /\ MemMax < SizeMod - 1
    /\ NameLen \in [DOMAIN NameLen -> Nat]
    /\ Null # None

-----------------------------------------------------------------------------
(* A result of libpq: names are its columns, rows its cells, tuples whether *)
(* its status is PGRES_TUPLES_OK; select and tag are PQcmdStatus and        *)
(* PQcmdTuples (None: empty).  Every row has all the columns; what is no    *)
(* PGRES_TUPLES_OK has neither.                                             *)
PGresults ==
    {res \in [names : Seq(DOMAIN NameLen), rows : Seq(Seq(Nat \cup {Null})),
              tuples : BOOLEAN, select : BOOLEAN, tag : Nat \cup {None}] :
       /\ \A k \in DOMAIN res.rows : Len(res.rows[k]) = Len(res.names)
       /\ ~res.tuples => res.names = <<>> /\ res.rows = <<>>}

Cols(res) == Len(res.names)
Rows(res) == Len(res.rows)
Cell(res, row, col) == res.rows[row + 1][col + 1]
PQgetlength(cell) == IF cell = Null THEN 0 ELSE cell

(* The sum of len over the cells of the given rows. *)
SumCells(res, rows, len(_)) ==
    SumFunction([at \in rows \X (DOMAIN res.names) |-> len(res.rows[at[1]][at[2]])])

(* One buffer: the size allocated and the bytes written into it. *)
Buffer(size, written) == [size |-> size % SizeMod, written |-> written]

(* ngx_create_temp_buf fails, or the check at the end of the renderer.     *)
Gives(chain) ==
    IF \E i \in DOMAIN chain : chain[i].size > MemMax
                               \/ chain[i].written # chain[i].size
    THEN [rc |-> "error", status |-> None, response |-> None]
    ELSE [rc |-> "done", status |-> None, response |-> chain]

Nothing == [rc |-> "done", status |-> None, response |-> None]

-----------------------------------------------------------------------------
(* postgres_output text: the cells, a newline between each two of them.     *)

TextLength(cell) == IF cell = Null THEN 6 ELSE cell    \* "(null)"

TextSize_Separators(res) ==
    (SumCells(res, DOMAIN res.rows, TextLength) + Rows(res) * Cols(res)) % SizeMod
TextSize(res) ==
    (SumCells(res, DOMAIN res.rows, TextLength) + Rows(res) * Cols(res) - 1) % SizeMod

TextWritten(res) ==
    SumCells(res, DOMAIN res.rows, TextLength)
    + SumFunction([at \in (DOMAIN res.rows) \X (DOMAIN res.names) |->
                     IF at[1] # Rows(res) \/ at[2] # Cols(res) THEN 1 ELSE 0])

OutputText(res) ==
    IF Rows(res) = 0 \/ TextSize(res) = 0 THEN Nothing
    ELSE Gives(<<Buffer(TextSize(res), TextWritten(res))>>)

-----------------------------------------------------------------------------
(* postgres_output value and binary_value: the only cell, or status 500.    *)

OutputValue(res) ==
    IF \/ Rows(res) # 1 \/ Cols(res) # 1
       \/ PQgetlength(Cell(res, 0, 0)) = 0
    THEN [rc |-> "done", status |-> 500, response |-> None]
    ELSE LET size == PQgetlength(Cell(res, 0, 0)) IN Gives(<<Buffer(size, size)>>)

-----------------------------------------------------------------------------
(* postgres_output rds: a header; for a result-set the columns, a buffer    *)
(* for each row and a terminator, inside the last row if there is one.      *)

(* The error message of a result that succeeded is empty. *)
RdsHeader ==
    LET fields == <<1, 4, 1, 2, 2, 2, 8, 8, 2>>
    IN  Buffer(30, SumFunction(fields))

RdsColumns(res) ==
    Buffer(Cols(res) * (2 + 2 + 2)
             + SumFunction([k \in DOMAIN res.names |-> NameLen[res.names[k]]]),
           SumFunction([k \in DOMAIN res.names |-> 2 + 2 + 2 + NameLen[res.names[k]]]))

RdsRow(res, k) ==
    LET last == IF k = Rows(res) THEN 1 ELSE 0
        written(cell) == 4 + PQgetlength(cell)
    IN  Buffer(1 + Cols(res) * 4 + last + SumCells(res, {k}, PQgetlength),
               1 + SumCells(res, {k}, written) + last)

RdsTerminator(res) == IF Rows(res) = 0 THEN <<Buffer(1, 1)>> ELSE <<>>

OutputRds(res) ==
    Gives(<<RdsHeader>>
          \o (IF res.tuples
              THEN <<RdsColumns(res)>> \o [k \in DOMAIN res.rows |-> RdsRow(res, k)]
                   \o RdsTerminator(res)
              ELSE <<>>))

(* No buffer that a result can need is larger than the largest allocation.  *)
Allocatable(res) ==
    /\ 30 <= MemMax
    /\ \A k \in DOMAIN res.rows, c \in DOMAIN res.names :
          PQgetlength(res.rows[k][c]) <= MemMax
    /\ SumCells(res, DOMAIN res.rows, TextLength) + Rows(res) * Cols(res) - 1 <= MemMax
    /\ Cols(res) * 6 + SumFunction([k \in DOMAIN res.names |-> NameLen[res.names[k]]]) <= MemMax
    /\ \A k \in DOMAIN res.rows :
          2 + Cols(res) * 4 + SumCells(res, {k}, PQgetlength) <= MemMax

-----------------------------------------------------------------------------
(* pglcf->output_handler *)
Formats == {"none", "rds", "text", "value", "binary_value"}

OutputHandler(format, res) ==
    CASE format = "none" -> Nothing
      [] format = "rds"  -> OutputRds(res)
      [] format = "text" -> OutputText(res)
      [] OTHER           -> OutputValue(res)
=============================================================================
