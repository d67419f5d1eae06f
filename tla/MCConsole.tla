----------------------------- MODULE MCConsole ------------------------------
(* Two tabs, of one browser or of two, and two requests at a time. *)
EXTENDS Console, TLC

Symmetry == Permutations(Tabs) \cup Permutations(Requests) \cup Permutations(Browsers)
=============================================================================
