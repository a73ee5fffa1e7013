------------------------- MODULE ReplacementPolicy -------------------------
(***************************************************************************)
(* What the four policies of src/replacement/ have in common.  A policy is *)
(* modelled as the code writes it: a state and functions of that state,    *)
(* on_load, on_access, on_evict, choose_victim and tick.  A function that  *)
(* returns -1 leaves the state as it was.                                  *)
(***************************************************************************)
EXTENDS Integers, FiniteSets

CONSTANT FrameCount

ASSUME FrameCountAssumption == FrameCount \in Nat \ {0}

Frame == 0 .. FrameCount - 1
InvalidFrame == -1

=============================================================================
