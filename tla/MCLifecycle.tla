---------------------------- MODULE MCLifecycle ----------------------------
(***************************************************************************)
(* Instances of Lifecycle for TLC.                                         *)
(***************************************************************************)
EXTENDS Lifecycle, TLC

CONSTANTS owner, guest, k1, k2, k3, s1

OneCaller == {owner}
TwoCallers == {owner, guest}
TwoConns == {k1, k2}
ThreeConns == {k1, k2, k3}
OneSub == {s1}

(* k1 and k2 compete for one slot. *)
MCSlotOf == [k \in Conns |-> IF k = k3 THEN "prices" ELSE "orders"]

(* Two connections for one slot can be swapped. *)
ConnSymmetry == Permutations({k1, k2})

(* The owner's requests are CreateOrders, the guest's are GetPrices. *)
MCNeeds == [c \in Callers |-> IF c = owner THEN Trackers ELSE {}]
=============================================================================
