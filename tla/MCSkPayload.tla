---------------------------- MODULE MCSkPayload -----------------------------
(***************************************************************************)
(* SkPayload over the edges of every width, with bytes that differ.        *)
(***************************************************************************)
EXTENDS SkPayload

MCSeqs == {0, 255, 65280}
MCWords == {-2147483647 - 1, -258, 305419896}
MCHalves == {-32768, -1, 258}
=============================================================================
