--------------------------- MODULE MCSlotRecords ---------------------------
(* Instance of SlotRecords for TLC: the slots are model values of the cfg. *)
EXTENDS SlotRecords
=============================================================================
