------------------------------- MODULE MCWorker -------------------------------
(***************************************************************************)
(* Small instances of Worker for TLC.                                      *)
(***************************************************************************)
EXTENDS Worker, TLC

OneAddr == (0 :> "a")
TwoAddrs == (0 :> "a") @@ (1 :> "b")

(* A result; an error; two results, from two statements in one query.      *)
AllScripts == {<<"ok", "ready">>, <<"err", "ready">>, <<"ok", "ok", "ready">>}
OneScript == {<<"ok", "ready">>}

Slots == Permutations(Requests) \cup Permutations(Connections)
             \cup Permutations(PGconns)
=============================================================================
