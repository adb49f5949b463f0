---------------------------- MODULE ConnectionPool ----------------------------
(***************************************************************************)
(* What a keepalive pool promises its users, without its queues, items,    *)
(* counters and event handlers: a connection is closed, idle, or in use by *)
(* one user; a user has at most one connection; at most Max connections    *)
(* are idle; an idle connection is sacrificed only to keep another one     *)
(* when Max are idle already; and with Reject at most Max connections      *)
(* exist, so that none is ever sacrificed.  Keepalive implements it.       *)
(***************************************************************************)
EXTENDS Integers, FiniteSets

CONSTANTS Users, Conns, Addrs, Max, Reject, Nobody

VARIABLES
    idle,       \* connections kept for the next user
    user,       \* the user of each connection, or Nobody
    addr        \* the address of each open connection, or Nobody

vars == <<idle, user, addr>>

InUse == {p \in Conns : user[p] # Nobody}
Live == idle \cup InUse
HasNone(u) == \A p \in Conns : user[p] # u

PoolTypeOK ==
    /\ idle \subseteq Conns
    /\ user \in [Conns -> Users \cup {Nobody}]
    /\ addr \in [Conns -> Addrs \cup {Nobody}]

Init ==
    /\ idle = {}
    /\ user = [p \in Conns |-> Nobody]
    /\ addr = [p \in Conns |-> Nobody]

Open(u, p, a) ==
    /\ HasNone(u) /\ p \notin Live
    /\ Reject => Cardinality(Live) < Max
    /\ user' = [user EXCEPT ![p] = u]
    /\ addr' = [addr EXCEPT ![p] = a]
    /\ UNCHANGED idle

Reuse(u, p) ==
    /\ HasNone(u) /\ p \in idle
    /\ idle' = idle \ {p}
    /\ user' = [user EXCEPT ![p] = u]
    /\ UNCHANGED addr

Keep(p) ==
    /\ p \in InUse
    /\ Cardinality(idle) < Max
    /\ idle' = idle \cup {p}
    /\ user' = [user EXCEPT ![p] = Nobody]
    /\ UNCHANGED addr

KeepInsteadOf(p, v) ==
    /\ p \in InUse /\ v \in idle
    /\ ~Reject /\ Cardinality(idle) = Max
    /\ idle' = (idle \ {v}) \cup {p}
    /\ user' = [user EXCEPT ![p] = Nobody]
    /\ addr' = [addr EXCEPT ![v] = Nobody]

Close(p) ==
    /\ p \in Live
    /\ idle' = idle \ {p}
    /\ user' = [user EXCEPT ![p] = Nobody]
    /\ addr' = [addr EXCEPT ![p] = Nobody]

CloseIdle ==
    /\ idle' = {}
    /\ addr' = [p \in Conns |-> IF p \in idle THEN Nobody ELSE addr[p]]
    /\ UNCHANGED user

Next ==
    \/ \E p \in Conns :
          \/ \E u \in Users : Reuse(u, p) \/ \E a \in Addrs : Open(u, p, a)
          \/ Keep(p) \/ Close(p)
          \/ \E v \in Conns : KeepInsteadOf(p, v)
    \/ CloseIdle

Spec == Init /\ [][Next]_vars

=============================================================================
