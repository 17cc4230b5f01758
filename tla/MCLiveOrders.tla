---------------------------- MODULE MCLiveOrders ----------------------------
(* LiveOrders for TLC: plans and slots are only compared for equality. *)
EXTENDS LiveOrders, TLC

Symmetry == Permutations(Plans) \cup Permutations(Slots)
=============================================================================
