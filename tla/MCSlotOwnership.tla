--------------------------- MODULE MCSlotOwnership ---------------------------
(***************************************************************************)
(* Two runs that want the same slot.                                       *)
(***************************************************************************)
EXTENDS SlotOwnership, TLC

CONSTANTS r1, r2

ASSUME SlotAssumption

Symmetry == Permutations(Run)
=============================================================================
