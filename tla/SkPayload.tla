----------------------------- MODULE SkPayload ------------------------------
(***************************************************************************)
(* The payload codec of protocol.c: three message types sharing a 4-byte   *)
(* envelope, packed little-endian into a caller's buffer that is reused    *)
(* from message to message (main.c keeps one static buffer) and unpacked   *)
(* from it.                                                                *)
(***************************************************************************)
EXTENDS Integers, Sequences

CONSTANTS
    Seqs,           \* sequence numbers (uint16_t)
    Words,          \* axis values and currents (int32_t)
    Halves,         \* temperatures (int16_t)
    PackCaps        \* the cap arguments callers pass; 0 stands for NULL too

\* The bounds of <stdint.h>.
UINT16_MAX == 65535
INT16_MAX == 32767
INT32_MAX == 2147483647

Uint16 == 0 .. UINT16_MAX
Int16 == -INT16_MAX - 1 .. INT16_MAX
Int32 == -INT32_MAX - 1 .. INT32_MAX

ASSUME PayloadAssumption ==
    /\ Seqs \subseteq Uint16
    /\ Words \subseteq Int32
    /\ Halves \subseteq Int16
    /\ PackCaps \subseteq Nat

SK_PAYLOAD_LEN == 16
SK_ENVELOPE_LEN == 4
SK_VER == 1
SK_TYPE_ACCEL == 1
SK_TYPE_TEMP == 2
SK_TYPE_CURRENT == 3

-----------------------------------------------------------------------------
(* Little-endian two's complement.  \div rounds down, so the bytes of a    *)
(* negative number are those of its unsigned conversion.                   *)

Low(n) == n % 256
Le2_BigEndian(n) == <<Low(n \div 256), Low(n)>>          \* mutant
Le2(n) == <<Low(n), Low(n \div 256)>>
Le4(n) == <<Low(n), Low(n \div 256), Low(n \div 65536), Low(n \div 16777216)>>

\* A top byte from 128 up makes the value negative.
SignedByte(b) == IF b >= 128 THEN b - 256 ELSE b

Uint16At(b, k) == b[k] + 256 * b[k + 1]
Int16At(b, k) == b[k] + 256 * SignedByte(b[k + 1])
Int32At(b, k) == b[k] + 256 * b[k + 1] + 65536 * b[k + 2]
                   + 16777216 * SignedByte(b[k + 3])

-----------------------------------------------------------------------------
VARIABLES
    buf,            \* the caller's buffer
    rc,             \* what the last pack returned
    sent            \* history: the message last packed

codecVars == <<buf, rc, sent>>

None == [type |-> 0]

CodecInit ==
    /\ buf = [k \in 0 .. SK_PAYLOAD_LEN - 1 |-> 0]
    /\ rc = 0
    /\ sent = None

\* bytes overwrite the front of the buffer; what lies behind them stays.
Write(bytes) ==
    buf' = [k \in DOMAIN buf |-> IF k < Len(bytes) THEN bytes[k + 1] ELSE buf[k]]

Refuse == rc' = -1 /\ UNCHANGED <<buf, sent>>

Envelope(type, seq) == <<SK_VER, type>> \o Le2(seq)

sk_payload_pack(cap, seq, x, y, z) ==
    IF cap < SK_PAYLOAD_LEN THEN Refuse
    ELSE /\ Write(Envelope(SK_TYPE_ACCEL, seq) \o Le4(x) \o Le4(y) \o Le4(z))
         /\ rc' = SK_PAYLOAD_LEN
         /\ sent' = [type |-> SK_TYPE_ACCEL, seq |-> seq,
                     x_mg |-> x, y_mg |-> y, z_mg |-> z]

sk_pack_temp(cap, seq, temp) ==
    IF cap < 6 THEN Refuse
    ELSE /\ Write(Envelope(SK_TYPE_TEMP, seq) \o Le2(temp))
         /\ rc' = 6
         /\ sent' = [type |-> SK_TYPE_TEMP, seq |-> seq, temp_centi_c |-> temp]

sk_pack_current(cap, seq, current) ==
    IF cap < 8 THEN Refuse
    ELSE /\ Write(Envelope(SK_TYPE_CURRENT, seq) \o Le4(current))
         /\ rc' = 8
         /\ sent' = [type |-> SK_TYPE_CURRENT, seq |-> seq, current_ma |-> current]

CodecNext == \E cap \in PackCaps, seq \in Seqs :
    \/ \E x, y, z \in Words : sk_payload_pack(cap, seq, x, y, z)
    \/ \E temp \in Halves : sk_pack_temp(cap, seq, temp)
    \/ \E current \in Words : sk_pack_current(cap, seq, current)

CodecSpec == CodecInit /\ [][CodecNext]_codecVars

-----------------------------------------------------------------------------
\* The unpackers of the first len bytes; -1 when there are too few.  NULL
\* destinations, which only skip a field, are left out.
sk_envelope_unpack(b, len) ==
    IF len < SK_ENVELOPE_LEN THEN -1
    ELSE [ver |-> b[0], type |-> b[1], seq |-> Uint16At(b, 2)]

sk_payload_unpack(b, len) ==
    IF len < SK_PAYLOAD_LEN THEN -1
    ELSE [ver |-> b[0], type |-> b[1], seq |-> Uint16At(b, 2),
          x_mg |-> Int32At(b, 4), y_mg |-> Int32At(b, 8), z_mg |-> Int32At(b, 12)]

sk_unpack_temp(b, len) == IF len < 6 THEN -1 ELSE Int16At(b, 4)

\* Mutant: the length check of the temperature.
sk_unpack_current_Short(b, len) == IF len < 6 THEN -1 ELSE Int32At(b, 4)

sk_unpack_current(b, len) == IF len < 8 THEN -1 ELSE Int32At(b, 4)

-----------------------------------------------------------------------------
(***************************************************************************)
(* The buffer holds bytes, and whatever was in it before, a receiver of    *)
(* its first rc bytes that goes by the envelope's type recovers the        *)
(* sequence number and every value of the last message packed, negative    *)
(* ones and the extremes of each width included.                           *)
(***************************************************************************)
CodecRoundTrip ==
    /\ buf \in [0 .. SK_PAYLOAD_LEN - 1 -> 0 .. 255]
    /\ rc > 0 =>
      LET env == sk_envelope_unpack(buf, rc)
      IN  /\ env = [ver |-> SK_VER, type |-> sent.type, seq |-> sent.seq]
          /\ sent.type = SK_TYPE_ACCEL =>
               LET got == sk_payload_unpack(buf, rc)
               IN  got.seq = sent.seq /\ got.x_mg = sent.x_mg
                     /\ got.y_mg = sent.y_mg /\ got.z_mg = sent.z_mg
          /\ sent.type = SK_TYPE_TEMP =>
               sk_unpack_temp(buf, rc) = sent.temp_centi_c
          /\ sent.type = SK_TYPE_CURRENT =>
               sk_unpack_current(buf, rc) = sent.current_ma

(***************************************************************************)
(* A message cut short is refused by the unpacker of its own type rather   *)
(* than completed with what an earlier, longer message left in the buffer. *)
(***************************************************************************)
NoStaleBytes ==
    rc > 0 => \A len \in 0 .. rc - 1 :
        /\ sent.type = SK_TYPE_ACCEL   => sk_payload_unpack(buf, len) = -1
        /\ sent.type = SK_TYPE_TEMP    => sk_unpack_temp(buf, len) = -1
        /\ sent.type = SK_TYPE_CURRENT => sk_unpack_current(buf, len) = -1
=============================================================================
