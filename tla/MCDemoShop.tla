----------------------------- MODULE MCDemoShop -----------------------------
(* The instance of DemoShop for TLC. *)
EXTENDS DemoShop, TLC

CONSTANTS t1, t2, c1, c2

Symmetry == Permutations(Tabs) \cup Permutations(Calls)
=============================================================================
