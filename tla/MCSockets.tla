------------------------------ MODULE MCSockets ------------------------------
(***************************************************************************)
(* Two connections for order updates and one for prices, of one user.      *)
(***************************************************************************)
EXTENDS Sockets

CONSTANTS u1, k1, k2, p1

TwoAndOne == [k \in {k1, k2, p1} |-> IF k = p1 THEN "prices" ELSE "orders"]

(* Nothing happens after an exit or a panic: such a state is checked but   *)
(* left out of the graph for liveness, where GetsToClient excepts it.      *)
Running == phase \in {"boot", "up"}
=============================================================================
