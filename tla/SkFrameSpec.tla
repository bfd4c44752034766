----------------------------- MODULE SkFrameSpec ----------------------------
(***************************************************************************)
(* What the decoder of protocol.h promises, without a state machine: keep  *)
(* every raw byte since the last FLAG, and judge all of them at once when  *)
(* the next FLAG arrives.  SkDecoder, which keeps one escape bit, one      *)
(* overflow bit and a bounded buffer, is shown to implement this.          *)
(***************************************************************************)
EXTENDS SkProtocol

CONSTANT Caps       \* the room for a payload the callers offer

VARIABLES
    open,           \* a FLAG has been seen
    raw,            \* the bytes since the last one
    result,         \* what the last call returned
    out             \* what the last call delivered

vars == <<open, raw, result, out>>

(***************************************************************************)
(* The data bytes of a raw sequence: ESC bytes vanish, and a byte right    *)
(* after an ESC has bit 5 toggled.                                         *)
(***************************************************************************)
AfterEscape(r, k) == k > 1 /\ r[k - 1] = SK_ESC

Unstuff(r) ==
    LET upTo[k \in 0 .. Len(r)] ==
          IF k = 0 THEN <<>>
          ELSE IF r[k] = SK_ESC THEN upTo[k - 1]
          ELSE Append(upTo[k - 1], IF AfterEscape(r, k) THEN EscXor(r[k]) ELSE r[k])
    IN  upTo[Len(r)]

\* A payload of a legal length, followed by its CRC.
IsFrame(data) ==
    \E n \in SK_PAYLOAD_MIN .. SK_PAYLOAD_MAX :
        /\ Len(data) = n + SK_CRC_LEN
        /\ SubSeq(data, n + 1, n + 2) = Crc(SubSeq(data, 1, n))

Judge(data, cap) ==
    CASE data = <<>>                                  -> SK_DEC_MORE
      [] Len(data) > SK_FRAME_INNER                   -> SK_DEC_ERR_OFLOW
      [] Len(data) \in 1 .. SK_PAYLOAD_MIN + SK_CRC_LEN - 1
                                                      -> SK_DEC_ERR_LEN
      [] OTHER -> IF ~IsFrame(data) THEN SK_DEC_ERR_CRC
                  ELSE IF cap < Len(data) - SK_CRC_LEN THEN SK_DEC_ERR_LEN
                  ELSE Len(data) - SK_CRC_LEN

Init == open = FALSE /\ raw = <<>> /\ result = SK_DEC_MORE /\ out = <<>>

\* A FLAG: the bytes since the previous FLAG are judged.
Flag(cap) ==
    /\ open' = TRUE
    /\ raw' = <<>>
    /\ result' = IF open THEN Judge(Unstuff(raw), cap) ELSE SK_DEC_MORE
    /\ out' = IF result' > 0 THEN SubSeq(Unstuff(raw), 1, result') ELSE <<>>

\* Any other byte says nothing; outside a frame it is not even kept.
Other(byte) ==
    /\ raw' = IF open THEN Append(raw, byte) ELSE raw
    /\ result' = SK_DEC_MORE
    /\ out' = <<>>
    /\ UNCHANGED open

Next == \/ \E cap \in Caps : Flag(cap)
        \/ \E byte \in Byte \ {SK_FLAG} : Other(byte)

Spec == Init /\ [][Next]_vars
=============================================================================
