----------------------------- MODULE SkProtocol -----------------------------
(***************************************************************************)
(* The framing layer of protocol/src/protocol.c: HDLC byte stuffing and    *)
(* the byte-at-a-time decoder, as operators on values.  The modules        *)
(* SkDecoder, SkDecoderSync, SkLoopback and Link give them state.          *)
(*                                                                         *)
(* The payload lengths, the byte alphabet and the CRC are parameters: the  *)
(* framing code never looks inside them.  The real ones are 6, 16, 0..255  *)
(* and Crc16; a small alphabet with short payloads makes every byte        *)
(* sequence up to one longer than the decoder's buffer explorable.         *)
(***************************************************************************)
EXTENDS Integers, Sequences

CONSTANTS
    Byte,            \* the bytes that occur on the wire
    SK_PAYLOAD_MIN,  \* the smallest payload the codec carries (6)
    SK_PAYLOAD_MAX,  \* the largest one (16)
    Crc(_)           \* CRC of a byte sequence, as <<high byte, low byte>>

SK_CRC_LEN == 2
SK_FRAME_INNER == SK_PAYLOAD_MAX + SK_CRC_LEN
SK_FRAME_MAX_OneFlag == 2 * SK_FRAME_INNER + 1          \* mutant
SK_FRAME_MAX == 1 + 2 * SK_FRAME_INNER + 1

SK_FLAG == 126     \* 0x7E
SK_ESC  == 125     \* 0x7D

SK_DEC_MORE      == 0
SK_DEC_ERR_LEN   == -1
SK_DEC_ERR_CRC   == -2
SK_DEC_ERR_OFLOW == -3

\* b ^ SK_ESC_XOR: bit 5 of the byte is toggled.
EscXor(b) == IF (b \div 32) % 2 = 1 THEN b - 32 ELSE b + 32

ASSUME ByteAssumption ==
    /\ {SK_FLAG, SK_ESC} \subseteq Byte
    /\ Byte \subseteq 0 .. 255
    /\ \A b \in Byte : EscXor(b) \in Byte

ASSUME LengthAssumption ==
    /\ SK_PAYLOAD_MIN \in Nat \ {0}
    /\ SK_PAYLOAD_MAX \in Nat
    /\ SK_PAYLOAD_MIN <= SK_PAYLOAD_MAX

Bit == {0, 1}

NeedsEscape_OnlyFlag(b) == b = SK_FLAG                  \* mutant

NeedsEscape(b) == b \in {SK_FLAG, SK_ESC}

-----------------------------------------------------------------------------
(***************************************************************************)
(* sk_frame_encode given room enough, as one value: FLAG, the payload and  *)
(* its CRC with FLAG and ESC stuffed, FLAG.  SkLoopback has its loop.      *)
(***************************************************************************)
Stuffed(b) == IF NeedsEscape(b) THEN <<SK_ESC, EscXor(b)>> ELSE <<b>>

Inner(p) == p \o Crc(p)

Encoded(p) ==
    LET upTo[k \in 0 .. Len(Inner(p))] ==
          IF k = 0 THEN <<SK_FLAG>> ELSE upTo[k - 1] \o Stuffed(Inner(p)[k])
    IN  upTo[Len(Inner(p))] \o <<SK_FLAG>>

LegalLength(p) == Len(p) \in SK_PAYLOAD_MIN .. SK_PAYLOAD_MAX

-----------------------------------------------------------------------------
(***************************************************************************)
(* sk_decoder_t.  buf stands for the first count bytes of the C array, so  *)
(* count is Len(buf); what the array holds beyond count is never read.     *)
(***************************************************************************)
sk_decoder_t == [in_frame : Bit, esc : Bit, overflow : Bit, buf : Seq(Byte)]

sk_decoder_init == [in_frame |-> 0, esc |-> 0, overflow |-> 0, buf |-> <<>>]

\* Mutants: a field the FLAG branch forgets; a closing FLAG that does not
\* open the next frame.
NewFrame_KeepsEscape(d) == [in_frame |-> 1, esc |-> d.esc, overflow |-> 0, buf |-> <<>>]
NewFrame_KeepsOverflow(d) ==
    [in_frame |-> 1, esc |-> 0, overflow |-> d.overflow, buf |-> <<>>]
NewFrame_KeepsCount(d) == [in_frame |-> 1, esc |-> 0, overflow |-> 0, buf |-> d.buf]
NewFrame_Closes(d) == [in_frame |-> 1 - d.in_frame, esc |-> 0, overflow |-> 0, buf |-> <<>>]

\* What a FLAG leaves behind, whatever the state before it.
NewFrame(d) == [in_frame |-> 1, esc |-> 0, overflow |-> 0, buf |-> <<>>]

\* Mutants: the CRC bytes counted as payload, the CRC not compared, its
\* error not reported.
decoder_finish_WithCrc(d, cap) ==
    IF Len(d.buf) < SK_PAYLOAD_MIN + SK_CRC_LEN THEN SK_DEC_ERR_LEN ELSE Len(d.buf)
decoder_finish_NoCrc(d, cap) ==
    IF d.overflow = 1 THEN SK_DEC_ERR_OFLOW
    ELSE IF Len(d.buf) < SK_PAYLOAD_MIN + SK_CRC_LEN THEN SK_DEC_ERR_LEN
    ELSE Len(d.buf) - SK_CRC_LEN
decoder_finish_Silent(d, cap) ==
    LET n == Len(d.buf) - SK_CRC_LEN
    IN  IF /\ d.overflow = 0 /\ n >= SK_PAYLOAD_MIN
           /\ Crc(SubSeq(d.buf, 1, n)) = SubSeq(d.buf, n + 1, n + 2)
        THEN n ELSE SK_DEC_MORE

\* The verdict on the frame just closed: the payload length, or an error.
\* cap is the caller's room for the payload, 0 for a NULL buffer.
decoder_finish(d, cap) ==
    LET count == Len(d.buf)
        payload_len == count - SK_CRC_LEN
    IN  CASE d.overflow = 1 \/ count > SK_FRAME_INNER   -> SK_DEC_ERR_OFLOW
          [] d.overflow = 0 /\ count < SK_PAYLOAD_MIN + SK_CRC_LEN
                                                        -> SK_DEC_ERR_LEN
          [] OTHER ->
               IF Crc(SubSeq(d.buf, 1, payload_len))
                    # <<d.buf[payload_len + 1], d.buf[payload_len + 2]>>
               THEN SK_DEC_ERR_CRC
               ELSE IF cap < payload_len THEN SK_DEC_ERR_LEN
               ELSE payload_len

\* Mutant: one byte too many fits.
StoreByte_OneTooMany(d, byte) ==
    LET b == IF d.esc = 1 THEN EscXor(byte) ELSE byte
        fits == Len(d.buf) <= SK_FRAME_INNER
    IN  [in_frame |-> d.in_frame,
         esc      |-> 0,
         overflow |-> IF fits THEN d.overflow ELSE 1,
         buf      |-> IF fits THEN Append(d.buf, b) ELSE d.buf]

\* A data byte inside a frame, unescaped and stored; too many are counted
\* as an overflow, reported when the frame closes.
StoreByte(d, byte) ==
    LET b == IF d.esc = 1 THEN EscXor(byte) ELSE byte
        fits == Len(d.buf) < SK_FRAME_INNER
    IN  [in_frame |-> d.in_frame,
         esc      |-> 0,
         overflow |-> IF fits THEN d.overflow ELSE 1,
         buf      |-> IF fits THEN Append(d.buf, b) ELSE d.buf]

\* Mutant: escapes are counted.
FeedState_CountsEscapes(d, byte) ==
    CASE byte = SK_FLAG                        -> NewFrame(d)
      [] byte # SK_FLAG /\ d.in_frame = 0      -> d
      [] byte = SK_ESC  /\ d.in_frame = 1      -> [d EXCEPT !.esc = @ + 1]
      [] OTHER                                 -> StoreByte(d, byte)

\* sk_decoder_feed: the state it leaves ...
FeedState(d, byte) ==
    CASE byte = SK_FLAG                        -> NewFrame(d)
      [] byte # SK_FLAG /\ d.in_frame = 0      -> d
      [] byte = SK_ESC  /\ d.in_frame = 1      -> [d EXCEPT !.esc = 1]
      [] OTHER                                 -> StoreByte(d, byte)

\* Mutant: an empty frame is judged too.
FeedResult_EmptyFrame(d, byte, cap) ==
    IF byte = SK_FLAG /\ d.in_frame = 1 THEN decoder_finish(d, cap) ELSE SK_DEC_MORE

\* ... the value it returns ...
FeedResult(d, byte, cap) ==
    IF byte = SK_FLAG /\ d.in_frame = 1 /\ d.buf # <<>>
    THEN decoder_finish(d, cap)
    ELSE SK_DEC_MORE

\* ... and the bytes it writes to the caller's buffer.
FeedOut(d, byte, cap) ==
    IF FeedResult(d, byte, cap) > 0
    THEN SubSeq(d.buf, 1, FeedResult(d, byte, cap))
    ELSE <<>>

\* The states the four fields can take together.
DecoderOK(d) ==
    /\ d \in sk_decoder_t
    /\ Len(d.buf) <= SK_FRAME_INNER
    /\ d.overflow = 1 => Len(d.buf) = SK_FRAME_INNER
    /\ d.in_frame = 0 => d = sk_decoder_init
=============================================================================
