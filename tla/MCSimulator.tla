----------------------------- MODULE MCSimulator ----------------------------
(* The instance of Simulator for TLC. *)
EXTENDS Simulator, TLC

CONSTANTS u1, u2

Symmetry == Permutations(Users)
=============================================================================
