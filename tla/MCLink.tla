------------------------------- MODULE MCLink -------------------------------
(***************************************************************************)
(* Link with the real payload lengths and the real CRC: two temperature    *)
(* messages, short enough for both to fit in one buffer when the FLAGs     *)
(* between them are lost, and a current message; FLAG and ESC occur in the *)
(* first two, as a sequence number and as a value.                         *)
(***************************************************************************)
EXTENDS Link

C == INSTANCE Crc16

MCByte == 0 .. 255
MCCrc(p) == C!WireBytes(C!crc16_ccitt_false(p))

\* The published check value: the CRC of "123456789" is 0x29B1 (protocol.h:85).
ASSUME CheckValue ==
    C!ValueOf(C!crc16_ccitt_false([k \in 1 .. 9 |-> 48 + k])) = 10673

MCFrame == << <<1, 2, 126, 0, 10, 9>>, <<1, 2, 127, 0, 125, 9>>,
              <<1, 3, 128, 0, 80, 0, 0, 255>> >>
MCText == <<83, 13, 10>>
MCDebris == {SK_FLAG, SK_ESC, 10}
=============================================================================
