----------------------------- MODULE MCSaleQueue -----------------------------
(* Instances of SaleQueue for TLC.                                         *)
EXTENDS SaleQueue, TLC

\* Identities without an order: which uuid, which tick, which request.
Symmetry == Permutations(Jtis) \cup Permutations(Ticks) \cup Permutations(Requests)

\* Who joins again, if the queue lets them.
EachOnce == [u \in Users |-> 1]
FirstTwice == [u \in Users |-> IF u = 1 THEN 2 ELSE 1]
=============================================================================
