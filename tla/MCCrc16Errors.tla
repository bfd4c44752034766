--------------------------- MODULE MCCrc16Errors ----------------------------
(***************************************************************************)
(* Messages of every length up to SK_PAYLOAD_MAX over one byte value, with *)
(* ten damage patterns in one byte or in two neighbours: each single bit,  *)
(* the two outer bits, and all bits.  By linearity of the register the     *)
(* message's own bytes do not matter to what is detected.                  *)
(***************************************************************************)
EXTENDS Crc16Errors

MCDamage == {1, 2, 4, 8, 16, 32, 64, 128, 129, 255}
=============================================================================
