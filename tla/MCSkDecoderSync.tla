-------------------------- MODULE MCSkDecoderSync ---------------------------
(***************************************************************************)
(* SkDecoderSync with one-byte payloads: the buffer overflows at the fourth*)
(* data byte.                                                              *)
(***************************************************************************)
EXTENDS SkDecoderSync

MCByte == {SK_FLAG, SK_ESC, EscXor(SK_FLAG), EscXor(SK_ESC)}
MCCrc(p) == <<p[1], EscXor(p[1])>>
=============================================================================
