------------------------------- MODULE SaleLife -------------------------------
(***************************************************************************)
(* What an administrator may count on: the official status of a sale event *)
(* goes through its life in order and an ended sale never comes back.      *)
(***************************************************************************)
VARIABLE status

Init == status = "none"

Create == status = "none" /\ status' = "PENDING"
Activate == status = "PENDING" /\ status' = "ACTIVE"
Pause == status = "ACTIVE" /\ status' = "PAUSED"
Resume == status = "PAUSED" /\ status' = "ACTIVE"
End == status \in {"PENDING", "ACTIVE", "PAUSED"} /\ status' = "ENDED"

Next == Create \/ Activate \/ Pause \/ Resume \/ End

Spec == Init /\ [][Next]_status
=============================================================================
