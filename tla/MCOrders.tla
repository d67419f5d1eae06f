------------------------------ MODULE MCOrders ------------------------------
(* The instance of Orders for TLC. *)
EXTENDS Orders, TLC

CONSTANTS p1, p2, r1, r2, o1, o2, o3

Symmetry == Permutations(Pages)
=============================================================================
