---------------------------- MODULE MCSkLoopback ----------------------------
(***************************************************************************)
(* SkLoopback with payloads of 1 or 2 bytes (and refused ones of 0 and 3). *)
(* The toy CRC of a payload of special bytes is made of special bytes, so  *)
(* the longest frame SK_FRAME_MAX allows for does occur.                   *)
(***************************************************************************)
EXTENDS SkLoopback

MCByte == {SK_FLAG, SK_ESC, EscXor(SK_FLAG), EscXor(SK_ESC)}
MCCrc(p) == <<p[Len(p)], IF NeedsEscape(p[1]) THEN SK_ESC ELSE p[1]>>
MCMessage == {<<>>, <<126>>, <<125>>, <<94>>, <<125, 93>>, <<93, 126>>,
              <<126, 125>>, <<94, 94, 94>>}
=============================================================================
