----------------------------- MODULE MCUpstream -----------------------------
(***************************************************************************)
(* A small instance of Upstream for TLC.                                   *)
(***************************************************************************)
EXTENDS Upstream

Slots == Permutations(Requests) \cup Permutations(Names) \cup Permutations(Databases)

(* A host with one address and one with two. *)
MCResolve == ("one" :> <<"a">>) @@ ("two" :> <<"a", "b">>)

Keep(max, single, reject) == [max |-> max, single |-> single, reject |-> reject]

(* "off"; max alone; everything; a mode alone; max=10 with a policy.        *)
MCKeepaliveArgs == {Keep(0, None, None), Keep(3, None, None), Keep(3, FALSE, TRUE),
                    Keep(None, FALSE, None), Keep(10, None, TRUE)}
=============================================================================
