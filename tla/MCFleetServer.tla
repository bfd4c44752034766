--------------------------- MODULE MCFleetServer ----------------------------
(***************************************************************************)
(* FleetServer with a phase of sixteen values, two periods of the wobble   *)
(* table, frames of two or three bytes and room for two.                   *)
(***************************************************************************)
EXTENDS FleetServer

MCFrameLen == [p \in 0 .. PHASE_MOD - 1 |-> 2 + (p % 2)]
=============================================================================
