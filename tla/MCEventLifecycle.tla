--------------------------- MODULE MCEventLifecycle ---------------------------
(* EventLifecycle for TLC: administrators are interchangeable. *)
EXTENDS EventLifecycle, TLC

Symmetry == Permutations(Admins)
=============================================================================
