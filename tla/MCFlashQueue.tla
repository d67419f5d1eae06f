---------------------------- MODULE MCFlashQueue ----------------------------
(* FlashQueue for TLC: the slots of polls. *)
EXTENDS FlashQueue

TwoPolls == {"poll1", "poll2"}
=============================================================================
