---------------------------- MODULE MCSharakNode ----------------------------
(***************************************************************************)
(* SharakNode with a sequence counter of five bits, two periods of the     *)
(* vibration; a FIFO shorter than an item; RAM with a section left empty,  *)
(* a gap between the two, or a word that is neither; and two resets.       *)
(***************************************************************************)
EXTENDS SharakNode

SomeLayouts == {[edata |-> 1, sbss |-> 2, ebss |-> 3],
                [edata |-> 0, sbss |-> 0, ebss |-> 2]}
=============================================================================
