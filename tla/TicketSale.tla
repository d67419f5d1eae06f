----------------------------- MODULE TicketSale -----------------------------
(***************************************************************************)
(* What a sale does with its units, whatever queue is in front of it: a    *)
(* unit that is free is offered to a winner as a ticket, the ticket is     *)
(* turned into a purchase or not, and what is given back is free again.    *)
(* The three constants say which misfortunes may be met; without them no   *)
(* unit is lost and none is counted twice.                                 *)
(***************************************************************************)
EXTENDS Naturals

CONSTANTS
  Tickets,    \* the tickets that may be issued
  Inventory,  \* the units on sale
  MayLose,    \* free units may vanish
  MayRepeat,  \* a ticket given back may free a unit once more
  MayReuse    \* a ticket given back may still be turned into a purchase

VARIABLES
  free,       \* units that no ticket holds
  place       \* of a ticket: "unissued", "held", "bought" or "back"

sale == <<free, place>>

Init == free = Inventory /\ place = [j \in Tickets |-> "unissued"]

\* A ticket comes to another place, free units change by its unit.
Moves(j, from, to) == place[j] \in from /\ place' = [place EXCEPT ![j] = to]

Offer(j) == Moves(j, {"unissued"}, "held") /\ free > 0 /\ free' = free - 1

Buy(j) == Moves(j, {"held"}, "bought") /\ UNCHANGED free

GiveBack(j) == Moves(j, {"held", "bought"}, "back") /\ free' = free + 1

Lose == MayLose /\ free' \in 0..free /\ UNCHANGED place

Repeat(j) == MayRepeat /\ place[j] = "back" /\ free' = free + 1 /\ UNCHANGED place

Reuse(j) == MayReuse /\ Moves(j, {"back"}, "bought") /\ UNCHANGED free

Next ==
  \/ \E j \in Tickets : Offer(j) \/ Buy(j) \/ GiveBack(j) \/ Repeat(j) \/ Reuse(j)
  \/ Lose

Spec == Init /\ [][Next]_sale
=============================================================================
