------------------------------- MODULE Crc16 --------------------------------
(***************************************************************************)
(* crc16_ccitt_false of protocol/src/protocol.c: the 16-bit register is    *)
(* the set of its bits that are 1, so exclusive or is symmetric difference *)
(* and a left shift moves every element up by one and drops bit 15.        *)
(***************************************************************************)
EXTENDS Integers, Sequences

BitsOf(n, width) == {k \in 0 .. width - 1 : (n \div 2 ^ k) % 2 = 1}

ValueOf(bits) ==
    LET sum[k \in 0 .. 16] ==
          IF k = 0 THEN 0
          ELSE sum[k - 1] + IF k - 1 \in bits THEN 2 ^ (k - 1) ELSE 0
    IN  sum[16]

Xor(r, s) == (r \ s) \cup (s \ r)

CRC_INIT == 0 .. 15          \* 0xFFFF
CRC_POLY_Ibm == {0, 2, 15}   \* mutant: 0x8005
CRC_POLY == {0, 5, 12}       \* 0x1021

\* crc << 1, as a uint16_t
ShiftLeft(r) == {k + 1 : k \in r \ {15}}

\* Mutant: the polynomial is never added.
BitStep_NoPoly(r) == ShiftLeft(r)

\* One turn of the inner loop.
BitStep(r) == IF 15 \in r THEN Xor(ShiftLeft(r), CRC_POLY) ELSE ShiftLeft(r)

\* One turn of the outer loop: the byte enters the high half, and eight
\* turns of the inner loop follow.
ByteStep(r, byte) ==
    LET turns[n \in 0 .. 8] ==
          [s \in SUBSET (0 .. 15) |-> IF n = 0 THEN s ELSE turns[n - 1][BitStep(s)]]
    IN  turns[8][Xor(r, {k + 8 : k \in BitsOf(byte, 8)})]

crc16_ccitt_false(data) ==
    LET after[i \in 0 .. Len(data)] ==
          IF i = 0 THEN CRC_INIT ELSE ByteStep(after[i - 1], data[i])
    IN  after[Len(data)]

\* Mutant: low byte first, like the rest of the wire.
WireBytes_Little(r) == LET v == ValueOf(r) IN <<v % 256, v \div 256>>

\* As sk_frame_encode writes it to the wire: high byte, then low byte.
WireBytes(r) == LET v == ValueOf(r) IN <<v \div 256, v % 256>>
=============================================================================
