----------------------------- MODULE MCLocation -----------------------------
(***************************************************************************)
(* Small instances of Location and of Escape for TLC, side by side: they   *)
(* share no state, and a behaviour is one of Location or one of Escape.    *)
(***************************************************************************)
EXTENDS Location, Escape

MCNameLen == ("id" :> 2) @@ ("name" :> 4)

(* GET and POST are interchangeable. *)
MethodSymmetry == Permutations(Methods)
MCMethodSets == {{}} \cup {{m} : m \in Methods}
MCTargets == {201, 404, -404, 302}
MCPositions == {[row |-> 1, column |-> 0, name |-> None],
                [row |-> 0, column |-> None, name |-> "name"]}

Select(names, rows) == [names |-> names, rows |-> rows, tuples |-> TRUE,
                        select |-> TRUE, tag |-> Len(rows)]
Command(n) == [names |-> <<>>, rows |-> <<>>, tuples |-> FALSE,
               select |-> FALSE, tag |-> n]

(* No column; no row; an empty value; one value; UPDATE of two rows         *)
(* RETURNING a table with a NULL and an empty value; UPDATE of no row and   *)
(* of one, and CREATE TABLE.                                                *)
MCResults == {Select(<<>>, << <<>> >>),
              Select(<<"id">>, <<>>),
              Select(<<"name">>, << <<0>> >>),
              Select(<<"name">>, << <<3>> >>),
              [Select(<<"id", "name">>, << <<1, Null>>, <<2, 0>> >>)
                 EXCEPT !.select = FALSE],
              Command(0), Command(1), Command(None)}

(* No result is too large for the memory: LocationProofs assumes it.       *)
ASSUME \A res \in Results : Allocatable(res)

-----------------------------------------------------------------------------
MCTexts == {<<>>, <<"x">>, <<"'">>, <<"\\">>, <<"0">>, <<"'", "0">>,
            <<"\\", "'">>, <<"'", "\\">>}

(* $a, a value of three parts, a constant and nothing, with and without "=". *)
MCSources == [equals : BOOLEAN,
              parts : {<<Var("a")>>, <<Var("b"), Text(<<"x">>), Var("a")>>,
                       <<Text(<<"'">>)>>, <<>>}]
MCDestinations == {<<>>, <<Var("a")>>, <<Var("b")>>, <<Text(<<"x">>)>>}

Untouched == stage = "reading" /\ \A l \in Levels : given[l] = <<>>

MCInit == Init /\ EscapeInit
MCNext ==
    \/ codes = <<>> /\ status = "none" /\ Next /\ UNCHANGED escapeVars
    \/ Untouched /\ EscapeNext /\ UNCHANGED vars
MCSpec == MCInit /\ [][MCNext]_<<vars, escapeVars>>
=============================================================================
