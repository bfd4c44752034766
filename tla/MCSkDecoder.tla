---------------------------- MODULE MCSkDecoder -----------------------------
(***************************************************************************)
(* SkDecoder on a small instance: payloads of 1 or 2 bytes, the two        *)
(* special bytes, their escaped forms and one ordinary byte with its       *)
(* toggled form.  The check value depends on the first and the last byte.  *)
(***************************************************************************)
EXTENDS SkDecoder

MCByte == {SK_FLAG, SK_ESC, EscXor(SK_FLAG), EscXor(SK_ESC), 1, EscXor(1)}
MCCrc(p) == <<p[Len(p)], EscXor(p[1])>>
=============================================================================
