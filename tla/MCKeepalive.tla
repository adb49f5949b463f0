----------------------------- MODULE MCKeepalive -----------------------------
(***************************************************************************)
(* Small instances of Keepalive for TLC.                                   *)
(***************************************************************************)
EXTENDS Keepalive, TLC

OneAddr == (0 :> "a")
TwoAddrs == (0 :> "a") @@ (1 :> "b")

(* The slots are interchangeable; no liveness is checked with it. *)
Slots == Permutations(Requests) \cup Permutations(Connections)
             \cup Permutations(PGconns)
=============================================================================
