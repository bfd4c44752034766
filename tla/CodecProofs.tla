----------------------------- MODULE CodecProofs ----------------------------
(***************************************************************************)
(* The arithmetic of protocol.c: what the payload codec packs it unpacks,  *)
(* for every value of every width, and the CRC's bitwise loop is           *)
(* polynomial division and detects what the line does to a byte or two.    *)
(* (SkProtocolProofs is here for its induction and recursion.)             *)
(***************************************************************************)
EXTENDS SkPayload, Crc16Errors, SkProtocolProofs

-----------------------------------------------------------------------------
(* Little-endian bytes. *)

\* A number is its low byte and the rest.
LEMMA LowAndRest ==
  ASSUME NEW n \in Int
  PROVE  /\ Low(n) \in 0 .. 255 /\ n \div 256 \in Int
         /\ n = Low(n) + 256 * (n \div 256)
BY SMT DEF Low

\* Taking two bytes off is taking one off twice.
LEMMA TwoBytesOff ==
  ASSUME NEW n \in Int
  PROVE  n \div 65536 = (n \div 256) \div 256
BY SMT

LEMMA ThreeBytesOff ==
  ASSUME NEW n \in Int
  PROVE  n \div 16777216 = ((n \div 256) \div 256) \div 256
BY SMT

\* A byte is what it is when it is small, or small and negative.
LEMMA SmallReturns ==
  /\ \A n \in 0 .. 255 : Low(n) = n
  /\ \A n \in -128 .. 127 : SignedByte(Low(n)) = n
BY SMT DEF Low, SignedByte

\* What a range contains, whatever its bounds.
LEMMA RangeOf ==
  ASSUME NEW low \in Int, NEW high \in Int
  PROVE  \A n \in low .. high : n \in Int /\ low <= n /\ n <= high
OBVIOUS

\* The bounds of the widths, in bytes.
LEMMA MaxInBytes ==
  /\ UINT16_MAX = 256 * 256 - 1
  /\ INT16_MAX = 128 * 256 - 1
  /\ INT32_MAX = 128 * (256 * (256 * 256)) - 1
<1>1. UINT16_MAX = 256 * 256 - 1
  BY SMT DEF UINT16_MAX
<1>2. INT16_MAX = 128 * 256 - 1
  BY SMT DEF INT16_MAX
<1>3. INT32_MAX = 128 * (256 * (256 * 256)) - 1
  BY SMT DEF INT32_MAX
<1> QED
  BY ONLY <1>1, <1>2, <1>3, SMT

LEMMA MaxAreIntegers ==
  /\ UINT16_MAX \in Int
  /\ INT16_MAX \in Int /\ -INT16_MAX - 1 \in Int
  /\ INT32_MAX \in Int /\ -INT32_MAX - 1 \in Int
BY MaxInBytes, SMT

\* Two bytes whose upper one is not cut give a number back ...
LEMMA TwoBytes ==
  ASSUME NEW n \in Int, NEW top, top = n \div 256
  PROVE  Low(n) + 256 * top = n
BY LowAndRest

LEMMA SumOfFour ==
  ASSUME NEW a \in Int, NEW b \in Int, NEW c \in Int, NEW top \in Int,
         NEW x, NEW y, NEW z,
         x = a + 256 * y, y = b + 256 * z, z = c + 256 * top
  PROVE  a + 256 * b + 65536 * c + 16777216 * top = x
BY SMT

\* ... as four do.
LEMMA FourBytes ==
  ASSUME NEW n \in Int, NEW top, top = ((n \div 256) \div 256) \div 256
  PROVE  Low(n) + 256 * Low(n \div 256) + 65536 * Low(n \div 65536)
           + 16777216 * top = n
<1>1. PICK p \in Int : /\ p = n \div 256
                       /\ Low(n) \in 0 .. 255 /\ n = Low(n) + 256 * p
  BY LowAndRest
<1>2. PICK q \in Int : /\ q = p \div 256
                       /\ Low(p) \in 0 .. 255 /\ p = Low(p) + 256 * q
  BY LowAndRest
<1>3. top \in Int /\ Low(q) \in 0 .. 255 /\ q = Low(q) + 256 * top
  <2>1. top = q \div 256
    BY <1>1, <1>2
  <2> QED
    BY <2>1, LowAndRest
<1>4. n \div 65536 = q
  BY <1>1, <1>2, TwoBytesOff
<1>5. Low(n) + 256 * Low(p) + 65536 * Low(q) + 16777216 * top = n
  <2>1. Low(n) \in Int /\ Low(p) \in Int /\ Low(q) \in Int
    BY <1>1, <1>2, <1>3, SMT
  <2> HIDE DEF Low
  <2> QED
    BY <2>1, <1>1, <1>2, <1>3, SumOfFour, SMT
<1>6. n \div 256 = p
  BY <1>1
<1> QED
  BY ONLY <1>4, <1>5, <1>6, SMT

\* Two bytes give back every uint16_t ...
LEMMA Uint16Returns ==
  ASSUME NEW n \in Uint16
  PROVE  Low(n) + 256 * Low(n \div 256) = n
<1>1. n \in Int /\ 0 <= n /\ n <= UINT16_MAX
  BY RangeOf, MaxAreIntegers, SMT DEF Uint16
<1>2. n \div 256 \in 0 .. 255
  BY <1>1, MaxInBytes, SMT
<1>3. Low(n \div 256) = n \div 256
  BY <1>2, SmallReturns, SMT
<1> QED
  BY <1>1, <1>3, TwoBytes

\* ... and every int16_t.
LEMMA Int16Returns ==
  ASSUME NEW n \in Int16
  PROVE  Low(n) + 256 * SignedByte(Low(n \div 256)) = n
<1>1. n \in Int /\ -INT16_MAX - 1 <= n /\ n <= INT16_MAX
  BY RangeOf, MaxAreIntegers, SMT DEF Int16
<1>2. n \div 256 \in -128 .. 127
  BY <1>1, MaxInBytes, SMT
<1>3. SignedByte(Low(n \div 256)) = n \div 256
  BY <1>2, SmallReturns, SMT
<1> QED
  BY <1>1, <1>3, TwoBytes

\* Four bytes give back every int32_t.
LEMMA Int32Returns ==
  ASSUME NEW n \in Int32
  PROVE  Low(n) + 256 * Low(n \div 256) + 65536 * Low(n \div 65536)
           + 16777216 * SignedByte(Low(n \div 16777216)) = n
<1>1. n \in Int /\ -INT32_MAX - 1 <= n /\ n <= INT32_MAX
  BY RangeOf, MaxAreIntegers, SMT DEF Int32
<1>2. ((n \div 256) \div 256) \div 256 \in -128 .. 127
  BY <1>1, MaxInBytes, SMT
<1>3. n \div 16777216 = ((n \div 256) \div 256) \div 256
  BY <1>1, ThreeBytesOff, SMT
<1>4. SignedByte(Low(n \div 16777216)) = ((n \div 256) \div 256) \div 256
  BY <1>2, <1>3, SmallReturns, SMT
<1> QED
  BY <1>1, <1>4, FourBytes, SMT

-----------------------------------------------------------------------------
(* What the packers write. *)

Octet == 0 .. 255

\* Bytes as the unpackers put them together.
Unsigned2(a, b) == a + 256 * b
Signed2(a, b) == a + 256 * SignedByte(b)
Signed4(a, b, c, d) == a + 256 * b + 65536 * c + 16777216 * SignedByte(d)

LEMMA Le2OfUint16 ==
  ASSUME NEW n \in Uint16
  PROVE  \E a, b \in Octet : Le2(n) = <<a, b>> /\ Unsigned2(a, b) = n
<1>1. n \in Int
  BY RangeOf, MaxAreIntegers, SMT DEF Uint16
<1>2. Low(n) \in Octet /\ Low(n \div 256) \in Octet
  <2>1. n \div 256 \in Int
    BY <1>1, SMT
  <2> QED
    BY <1>1, <2>1, LowAndRest DEF Octet
<1>3. Unsigned2(Low(n), Low(n \div 256)) = n
  BY Uint16Returns DEF Unsigned2
<1>4. Le2(n) = <<Low(n), Low(n \div 256)>>
  BY DEF Le2
<1> QED
  BY <1>2, <1>3, <1>4

LEMMA Le2OfInt16 ==
  ASSUME NEW n \in Int16
  PROVE  \E a, b \in Octet : Le2(n) = <<a, b>> /\ Signed2(a, b) = n
<1>1. n \in Int
  BY RangeOf, MaxAreIntegers, SMT DEF Int16
<1>2. Low(n) \in Octet /\ Low(n \div 256) \in Octet
  <2>1. n \div 256 \in Int
    BY <1>1, SMT
  <2> QED
    BY <1>1, <2>1, LowAndRest DEF Octet
<1>3. Signed2(Low(n), Low(n \div 256)) = n
  BY Int16Returns DEF Signed2
<1>4. Le2(n) = <<Low(n), Low(n \div 256)>>
  BY DEF Le2
<1> QED
  BY <1>2, <1>3, <1>4

LEMMA Le4OfInt32 ==
  ASSUME NEW n \in Int32
  PROVE  \E a, b, c, d \in Octet :
            Le4(n) = <<a, b, c, d>> /\ Signed4(a, b, c, d) = n
<1>1. n \in Int
  BY RangeOf, MaxAreIntegers, SMT DEF Int32
<1>2. \A m \in Int : Low(m) \in Octet
  BY LowAndRest DEF Octet
<1>3. n \div 256 \in Int /\ n \div 65536 \in Int /\ n \div 16777216 \in Int
  BY <1>1, SMT
<1> DEFINE a == Low(n)
           b == Low(n \div 256)
           c == Low(n \div 65536)
           d == Low(n \div 16777216)
<1>4. a \in Octet /\ b \in Octet /\ c \in Octet /\ d \in Octet
  BY <1>1, <1>2, <1>3, SMT
<1>5. Le4(n) = <<a, b, c, d>>
  BY SMT DEF Le4
<1>6. Signed4(a, b, c, d) = n
  BY Int32Returns, SMT DEF Signed4
<1> HIDE DEF a, b, c, d
<1> QED
  BY <1>4, <1>5, <1>6

\* Bytes behind bytes.

\* u is s with two bytes, or four, put behind it.
PutsTwo(S, n, s, a, b, u) ==
    /\ u \in Seq(S) /\ Len(u) = n + 2
    /\ \A i \in 1 .. n : u[i] = s[i]
    /\ u[n + 1] = a /\ u[n + 2] = b

PutsFour(S, n, s, a, b, c, d, u) ==
    /\ u \in Seq(S) /\ Len(u) = n + 4
    /\ \A i \in 1 .. n : u[i] = s[i]
    /\ u[n + 1] = a /\ u[n + 2] = b /\ u[n + 3] = c /\ u[n + 4] = d

LEMMA PutTwo ==
  ASSUME NEW S, NEW n \in Nat, NEW s \in Seq(S), Len(s) = n, NEW a \in S, NEW b \in S
  PROVE  PutsTwo(S, n, s, a, b, s \o <<a, b>>)
<1>1. PICK t \in Seq(S) : t = <<a, b>> /\ Len(t) = 2 /\ t[1] = a /\ t[2] = b
  <2>1. <<a, b>> \in Seq(S) /\ Len(<<a, b>>) = 2
    OBVIOUS
  <2> QED
    BY <2>1
<1>2. s \o t \in Seq(S) /\ Len(s \o t) = n + 2
  BY <1>1, ConcatProperties
<1>3. \A i \in 1 .. n + 2 : (s \o t)[i] = IF i <= n THEN s[i] ELSE t[i - n]
  BY <1>1, ConcatProperties
<1>4. \A i \in 1 .. n : (s \o t)[i] = s[i]
  BY <1>3
<1>5. (s \o t)[n + 1] = a
  <2>1. n + 1 \in 1 .. n + 2 /\ ~(n + 1 <= n) /\ (n + 1) - n = 1
    OBVIOUS
  <2> QED
    BY <1>1, <1>3, <2>1
<1>6. (s \o t)[n + 2] = b
  <2>1. n + 2 \in 1 .. n + 2 /\ ~(n + 2 <= n) /\ (n + 2) - n = 2
    OBVIOUS
  <2> QED
    BY <1>1, <1>3, <2>1
<1> QED
  BY <1>1, <1>2, <1>4, <1>5, <1>6 DEF PutsTwo

LEMMA PutFour ==
  ASSUME NEW S, NEW n \in Nat, NEW s \in Seq(S), Len(s) = n,
         NEW a \in S, NEW b \in S, NEW c \in S, NEW d \in S
  PROVE  PutsFour(S, n, s, a, b, c, d, s \o <<a, b, c, d>>)
<1>1. PICK t \in Seq(S) : /\ t = <<a, b, c, d>> /\ Len(t) = 4
                          /\ t[1] = a /\ t[2] = b /\ t[3] = c /\ t[4] = d
  <2>1. <<a, b, c, d>> \in Seq(S) /\ Len(<<a, b, c, d>>) = 4
    OBVIOUS
  <2> QED
    BY <2>1
<1>2. s \o t \in Seq(S) /\ Len(s \o t) = n + 4
  BY <1>1, ConcatProperties
<1>3. \A i \in 1 .. n + 4 : (s \o t)[i] = IF i <= n THEN s[i] ELSE t[i - n]
  BY <1>1, ConcatProperties
<1>4. \A i \in 1 .. n : (s \o t)[i] = s[i]
  BY <1>3
<1>5. \A j \in 1 .. 4 : (s \o t)[n + j] = t[j]
  <2> TAKE j \in 1 .. 4
  <2>1. n + j \in 1 .. n + 4 /\ ~(n + j <= n) /\ (n + j) - n = j
    OBVIOUS
  <2> QED
    BY <1>3, <2>1
<1>6. /\ (s \o t)[n + 1] = a /\ (s \o t)[n + 2] = b
      /\ (s \o t)[n + 3] = c /\ (s \o t)[n + 4] = d
  <2>1. 1 \in 1 .. 4 /\ 2 \in 1 .. 4 /\ 3 \in 1 .. 4 /\ 4 \in 1 .. 4
    OBVIOUS
  <2> QED
    BY <1>1, <1>5, <2>1, Zenon
<1> QED
  BY <1>1, <1>2, <1>4, <1>6 DEF PutsFour

\* The envelope of a message, whose sequence number reads back.
LEMMA EnvelopeBytes ==
  ASSUME NEW type \in Octet, NEW seq \in Seqs
  PROVE  /\ Envelope(type, seq) \in Seq(Octet) /\ Len(Envelope(type, seq)) = 4
         /\ Envelope(type, seq)[1] = 1 /\ Envelope(type, seq)[2] = type
         /\ Unsigned2(Envelope(type, seq)[3], Envelope(type, seq)[4]) = seq
<1>1. PICK a, b \in Octet : Le2(seq) = <<a, b>> /\ Unsigned2(a, b) = seq
  BY Le2OfUint16, PayloadAssumption
<1> DEFINE s == <<1, type>>
<1>2. s \in Seq(Octet) /\ Len(s) = 2 /\ s[1] = 1 /\ s[2] = type
  <2>1. 1 \in Octet
    BY DEF Octet
  <2> QED
    BY <2>1
<1>3. Envelope(type, seq) = s \o <<a, b>>
  BY <1>1 DEF Envelope, SK_VER
<1> HIDE DEF s
<1> DEFINE e == s \o <<a, b>>
<1>4. /\ e \in Seq(Octet) /\ Len(e) = 4 /\ e[1] = 1 /\ e[2] = type
      /\ e[3] = a /\ e[4] = b
  <2>1. PutsTwo(Octet, 2, s, a, b, e)
    BY <1>2, PutTwo, 2 \in Nat
  <2> HIDE DEF e
  <2> QED
    BY <1>2, <2>1 DEF PutsTwo
<1> QED
  BY <1>1, <1>3, <1>4

\* The parameters lie in their widths.
LEMMA Parameters ==
  /\ \A n \in Seqs : n \in Uint16
  /\ \A n \in Words : n \in Int32
  /\ \A n \in Halves : n \in Int16
  /\ \A cap \in PackCaps : cap \in Nat
BY PayloadAssumption

\* The two properties and what the buffer is: inductive as they stand.
CodecInv ==
    /\ rc \in Int
    /\ CodecRoundTrip
    /\ NoStaleBytes

LEMMA InitCodecInv == CodecInit => CodecInv
<1> SUFFICES ASSUME CodecInit PROVE CodecInv
  OBVIOUS
<1>1. buf \in [0 .. SK_PAYLOAD_LEN - 1 -> Octet] /\ rc = 0
  BY DEF CodecInit, SK_PAYLOAD_LEN, Octet
<1> QED
  BY <1>1 DEF CodecInv, CodecRoundTrip, NoStaleBytes, Octet

\* A refusal leaves the buffer alone and promises nothing about it.
LEMMA RefuseKeeps ==
  ASSUME CodecInv, Refuse
  PROVE  CodecInv'
<1>1. rc' = -1 /\ buf' = buf
  BY DEF Refuse
<1> QED
  BY <1>1 DEF CodecInv, CodecRoundTrip, NoStaleBytes

\* A message lies at the front of the buffer, and bytes behind it.
LEMMA WriteFront ==
  ASSUME CodecInv, NEW bytes \in Seq(Octet), Len(bytes) <= 16, Write(bytes)
  PROVE  /\ buf' \in [0 .. 15 -> Octet]
         /\ \A k \in 0 .. Len(bytes) - 1 : buf'[k] = bytes[k + 1]
<1>1. buf \in [0 .. 15 -> Octet]
  BY DEF CodecInv, CodecRoundTrip, SK_PAYLOAD_LEN, Octet
<1>2. buf' = [k \in 0 .. 15 |-> IF k < Len(bytes) THEN bytes[k + 1] ELSE buf[k]]
  BY <1>1 DEF Write
<1>3. Len(bytes) \in Nat /\ \A i \in 1 .. Len(bytes) : bytes[i] \in Octet
  OBVIOUS
<1>4. \A k \in 0 .. Len(bytes) - 1 : k + 1 \in 1 .. Len(bytes) /\ k < Len(bytes) /\ k \in 0 .. 15
  BY <1>3
<1>5. \A k \in 0 .. 15 :
        (IF k < Len(bytes) THEN bytes[k + 1] ELSE buf[k]) \in Octet
  BY <1>1, <1>3
<1> QED
  BY <1>2, <1>4, <1>5

LEMMA PayloadPackKeeps ==
  ASSUME CodecInv, NEW cap \in PackCaps, NEW seq \in Seqs,
         NEW x \in Words, NEW y \in Words, NEW z \in Words,
         sk_payload_pack(cap, seq, x, y, z)
  PROVE  CodecInv'
<1>1. CASE cap < SK_PAYLOAD_LEN
  BY <1>1, RefuseKeeps DEF sk_payload_pack
<1>2. CASE ~(cap < SK_PAYLOAD_LEN)
  <2>1. PICK x0, x1, x2, x3 \in Octet :
          Le4(x) = <<x0, x1, x2, x3>> /\ Signed4(x0, x1, x2, x3) = x
    BY Le4OfInt32, Parameters
  <2>2. PICK y0, y1, y2, y3 \in Octet :
          Le4(y) = <<y0, y1, y2, y3>> /\ Signed4(y0, y1, y2, y3) = y
    BY Le4OfInt32, Parameters
  <2>3. PICK z0, z1, z2, z3 \in Octet :
          Le4(z) = <<z0, z1, z2, z3>> /\ Signed4(z0, z1, z2, z3) = z
    BY Le4OfInt32, Parameters
  <2> DEFINE e == Envelope(1, seq)
             ex == e \o <<x0, x1, x2, x3>>
             exy == ex \o <<y0, y1, y2, y3>>
             bytes == exy \o <<z0, z1, z2, z3>>
  <2>4. /\ e \in Seq(Octet) /\ Len(e) = 4 /\ e[1] = 1 /\ e[2] = 1
        /\ Unsigned2(e[3], e[4]) = seq
    <3>1. 1 \in Octet
      BY DEF Octet
    <3> QED
      BY <3>1, EnvelopeBytes
  <2> HIDE DEF e
  <2>5. /\ ex \in Seq(Octet) /\ Len(ex) = 8 /\ \A i \in 1 .. 4 : ex[i] = e[i]
        /\ ex[5] = x0 /\ ex[6] = x1 /\ ex[7] = x2 /\ ex[8] = x3
    <3>1. PutsFour(Octet, 4, e, x0, x1, x2, x3, ex)
      BY <2>4, PutFour, 4 \in Nat
    <3> HIDE DEF ex
    <3> QED
      BY <2>4, <3>1 DEF PutsFour
  <2> HIDE DEF ex
  <2>6. /\ exy \in Seq(Octet) /\ Len(exy) = 12 /\ \A i \in 1 .. 8 : exy[i] = ex[i]
        /\ exy[9] = y0 /\ exy[10] = y1 /\ exy[11] = y2 /\ exy[12] = y3
    <3>1. PutsFour(Octet, 8, ex, y0, y1, y2, y3, exy)
      BY <2>5, PutFour, 8 \in Nat
    <3> HIDE DEF exy
    <3> QED
      BY <2>5, <3>1 DEF PutsFour
  <2> HIDE DEF exy
  <2>7. /\ bytes \in Seq(Octet) /\ Len(bytes) = 16 /\ \A i \in 1 .. 12 : bytes[i] = exy[i]
        /\ bytes[13] = z0 /\ bytes[14] = z1 /\ bytes[15] = z2 /\ bytes[16] = z3
    <3>1. PutsFour(Octet, 12, exy, z0, z1, z2, z3, bytes)
      BY <2>6, PutFour, 12 \in Nat
    <3> HIDE DEF bytes
    <3> QED
      BY <2>6, <3>1 DEF PutsFour
  <2>8. /\ Write(bytes) /\ rc' = 16
        /\ sent' = [type |-> 1, seq |-> seq, x_mg |-> x, y_mg |-> y, z_mg |-> z]
    BY <1>2, <2>1, <2>2, <2>3
       DEF sk_payload_pack, SK_PAYLOAD_LEN, SK_TYPE_ACCEL, e, ex, exy
  <2> HIDE DEF bytes
  <2>9. /\ buf' \in [0 .. 15 -> Octet]
        /\ \A k \in 0 .. 15 : buf'[k] = bytes[k + 1]
    <3>1. Len(bytes) <= 16 /\ Len(bytes) - 1 = 15
      BY <2>7
    <3> QED
      BY <2>7, <2>8, <3>1, WriteFront
  <2>10. /\ buf'[0] = 1 /\ buf'[1] = 1 /\ buf'[2] = e[3] /\ buf'[3] = e[4]
         /\ buf'[4] = x0 /\ buf'[5] = x1 /\ buf'[6] = x2 /\ buf'[7] = x3
         /\ buf'[8] = y0 /\ buf'[9] = y1 /\ buf'[10] = y2 /\ buf'[11] = y3
         /\ buf'[12] = z0 /\ buf'[13] = z1 /\ buf'[14] = z2 /\ buf'[15] = z3
    BY <2>4, <2>5, <2>6, <2>7, <2>9, SMT
  <2>11. /\ Uint16At(buf', 2) = seq
        /\ Int32At(buf', 4) = x /\ Int32At(buf', 8) = y /\ Int32At(buf', 12) = z
    BY <2>1, <2>2, <2>3, <2>4, <2>10, SMT DEF Uint16At, Int32At, Unsigned2, Signed4
  <2>12. CodecRoundTrip'
    BY <2>8, <2>9, <2>10, <2>11, SMT
       DEF CodecRoundTrip, Octet, sk_envelope_unpack, sk_payload_unpack,
           SK_PAYLOAD_LEN, SK_ENVELOPE_LEN, SK_VER, SK_TYPE_ACCEL, SK_TYPE_TEMP,
           SK_TYPE_CURRENT
  <2>13. NoStaleBytes'
    BY <2>8, SMT
       DEF NoStaleBytes, sk_payload_unpack, SK_PAYLOAD_LEN, SK_TYPE_TEMP,
           SK_TYPE_CURRENT
  <2> QED
    BY <2>8, <2>12, <2>13 DEF CodecInv
<1> QED
  BY <1>1, <1>2

LEMMA PackTempKeeps ==
  ASSUME CodecInv, NEW cap \in PackCaps, NEW seq \in Seqs, NEW v \in Halves,
         sk_pack_temp(cap, seq, v)
  PROVE  CodecInv'
<1>1. CASE cap < 6
  BY <1>1, RefuseKeeps DEF sk_pack_temp
<1>2. CASE ~(cap < 6)
  <2>1. PICK v0, v1 \in Octet :
          Le2(v) = <<v0, v1>> /\ Signed2(v0, v1) = v
    BY Le2OfInt16, Parameters
  <2> DEFINE e == Envelope(2, seq)
             bytes == e \o <<v0, v1>>
  <2>2. /\ e \in Seq(Octet) /\ Len(e) = 4 /\ e[1] = 1 /\ e[2] = 2
        /\ Unsigned2(e[3], e[4]) = seq
    <3>1. 2 \in Octet
      BY DEF Octet
    <3> QED
      BY <3>1, EnvelopeBytes
  <2> HIDE DEF e
  <2>3. PutsTwo(Octet, 4, e, v0, v1, bytes)
    BY <2>1, <2>2, PutTwo, 4 \in Nat
  <2>4. /\ Write(bytes) /\ rc' = 6
        /\ sent' = [type |-> 2, seq |-> seq, temp_centi_c |-> v]
    BY <1>2, <2>1 DEF sk_pack_temp, SK_TYPE_TEMP, e
  <2> HIDE DEF bytes
  <2>5. /\ bytes \in Seq(Octet) /\ Len(bytes) = 6
        /\ bytes[1] = 1 /\ bytes[2] = 2 /\ bytes[3] = e[3] /\ bytes[4] = e[4]
        /\ bytes[5] = v0 /\ bytes[6] = v1
    BY <2>2, <2>3 DEF PutsTwo
  <2>6. /\ buf' \in [0 .. 15 -> Octet]
        /\ \A k \in 0 .. 5 : buf'[k] = bytes[k + 1]
    <3>1. Len(bytes) <= 16 /\ Len(bytes) - 1 = 5
      BY <2>5
    <3> QED
      BY <2>4, <2>5, <3>1, WriteFront
  <2>7. /\ buf'[0] = 1 /\ buf'[1] = 2 /\ buf'[2] = e[3] /\ buf'[3] = e[4]
        /\ buf'[4] = v0 /\ buf'[5] = v1
    BY <2>5, <2>6, SMT
  <2>8. Uint16At(buf', 2) = seq /\ Int16At(buf', 4) = v
    BY <2>1, <2>2, <2>7, SMT DEF Uint16At, Int16At, Unsigned2, Signed2
  <2>9. CodecRoundTrip'
    BY <2>4, <2>6, <2>7, <2>8, SMT
       DEF CodecRoundTrip, Octet, sk_envelope_unpack, sk_unpack_temp,
           SK_PAYLOAD_LEN, SK_ENVELOPE_LEN, SK_VER, SK_TYPE_ACCEL, SK_TYPE_TEMP,
           SK_TYPE_CURRENT
  <2>10. NoStaleBytes'
    BY <2>4, SMT
       DEF NoStaleBytes, sk_unpack_temp, SK_TYPE_ACCEL, SK_TYPE_TEMP,
           SK_TYPE_CURRENT
  <2> QED
    BY <2>4, <2>9, <2>10 DEF CodecInv
<1> QED
  BY <1>1, <1>2

LEMMA PackCurrentKeeps ==
  ASSUME CodecInv, NEW cap \in PackCaps, NEW seq \in Seqs, NEW v \in Words,
         sk_pack_current(cap, seq, v)
  PROVE  CodecInv'
<1>1. CASE cap < 8
  BY <1>1, RefuseKeeps DEF sk_pack_current
<1>2. CASE ~(cap < 8)
  <2>1. PICK v0, v1, v2, v3 \in Octet :
          Le4(v) = <<v0, v1, v2, v3>> /\ Signed4(v0, v1, v2, v3) = v
    BY Le4OfInt32, Parameters
  <2> DEFINE e == Envelope(3, seq)
             bytes == e \o <<v0, v1, v2, v3>>
  <2>2. /\ e \in Seq(Octet) /\ Len(e) = 4 /\ e[1] = 1 /\ e[2] = 3
        /\ Unsigned2(e[3], e[4]) = seq
    <3>1. 3 \in Octet
      BY DEF Octet
    <3> QED
      BY <3>1, EnvelopeBytes
  <2> HIDE DEF e
  <2>3. PutsFour(Octet, 4, e, v0, v1, v2, v3, bytes)
    BY <2>1, <2>2, PutFour, 4 \in Nat
  <2>4. /\ Write(bytes) /\ rc' = 8
        /\ sent' = [type |-> 3, seq |-> seq, current_ma |-> v]
    BY <1>2, <2>1 DEF sk_pack_current, SK_TYPE_CURRENT, e
  <2> HIDE DEF bytes
  <2>5. /\ bytes \in Seq(Octet) /\ Len(bytes) = 8
        /\ bytes[1] = 1 /\ bytes[2] = 3 /\ bytes[3] = e[3] /\ bytes[4] = e[4]
        /\ bytes[5] = v0 /\ bytes[6] = v1 /\ bytes[7] = v2 /\ bytes[8] = v3
    BY <2>2, <2>3 DEF PutsFour
  <2>6. /\ buf' \in [0 .. 15 -> Octet]
        /\ \A k \in 0 .. 7 : buf'[k] = bytes[k + 1]
    <3>1. Len(bytes) <= 16 /\ Len(bytes) - 1 = 7
      BY <2>5
    <3> QED
      BY <2>4, <2>5, <3>1, WriteFront
  <2>7. /\ buf'[0] = 1 /\ buf'[1] = 3 /\ buf'[2] = e[3] /\ buf'[3] = e[4]
        /\ buf'[4] = v0 /\ buf'[5] = v1 /\ buf'[6] = v2 /\ buf'[7] = v3
    BY <2>5, <2>6, SMT
  <2>8. Uint16At(buf', 2) = seq /\ Int32At(buf', 4) = v
    BY <2>1, <2>2, <2>7, SMT DEF Uint16At, Int32At, Unsigned2, Signed4
  <2>9. CodecRoundTrip'
    BY <2>4, <2>6, <2>7, <2>8, SMT
       DEF CodecRoundTrip, Octet, sk_envelope_unpack, sk_unpack_current,
           SK_PAYLOAD_LEN, SK_ENVELOPE_LEN, SK_VER, SK_TYPE_ACCEL, SK_TYPE_TEMP,
           SK_TYPE_CURRENT
  <2>10. NoStaleBytes'
    BY <2>4, SMT
       DEF NoStaleBytes, sk_unpack_current, SK_TYPE_ACCEL, SK_TYPE_TEMP,
           SK_TYPE_CURRENT
  <2> QED
    BY <2>4, <2>9, <2>10 DEF CodecInv
<1> QED
  BY <1>1, <1>2

LEMMA CodecInvariant == CodecSpec => []CodecInv
<1>1. CodecInit => CodecInv
  BY InitCodecInv
<1>2. CodecInv /\ [CodecNext]_codecVars => CodecInv'
  <2> SUFFICES ASSUME CodecInv, [CodecNext]_codecVars PROVE CodecInv'
    OBVIOUS
  <2>1. CASE CodecNext
    <3> PICK cap \in PackCaps, seq \in Seqs :
          \/ \E x, y, z \in Words : sk_payload_pack(cap, seq, x, y, z)
          \/ \E temp \in Halves : sk_pack_temp(cap, seq, temp)
          \/ \E current \in Words : sk_pack_current(cap, seq, current)
      BY <2>1 DEF CodecNext
    <3>1. CASE \E x, y, z \in Words : sk_payload_pack(cap, seq, x, y, z)
      BY <3>1, PayloadPackKeeps
    <3>2. CASE \E temp \in Halves : sk_pack_temp(cap, seq, temp)
      BY <3>2, PackTempKeeps
    <3>3. CASE \E current \in Words : sk_pack_current(cap, seq, current)
      BY <3>3, PackCurrentKeeps
    <3> QED
      BY <3>1, <3>2, <3>3
  <2>2. CASE UNCHANGED codecVars
    BY <2>2 DEF codecVars, CodecInv, CodecRoundTrip, NoStaleBytes
  <2> QED
    BY <2>1, <2>2
<1> QED
  BY <1>1, <1>2, PTL DEF CodecSpec

(***************************************************************************)
(* Whatever the buffer held, the unpackers recover what was packed last,   *)
(* for every value of every width: put_le32 and get_le32 (protocol.c) are  *)
(* inverse on all of int32_t, and so are the two-byte ones on uint16_t and *)
(* int16_t.                                                                *)
(***************************************************************************)
THEOREM PackedIsUnpacked == CodecSpec => []CodecRoundTrip
<1>1. CodecInv => CodecRoundTrip
  BY DEF CodecInv
<1> QED
  BY <1>1, CodecInvariant, PTL

(***************************************************************************)
(* A message cut short is refused by the unpacker of its type, so the      *)
(* bytes an earlier message left behind it never become part of it.        *)
(***************************************************************************)
THEOREM StaleBytesRefused == CodecSpec => []NoStaleBytes
<1>1. CodecInv => NoStaleBytes
  BY DEF CodecInv
<1> QED
  BY <1>1, CodecInvariant, PTL

-----------------------------------------------------------------------------
(* The register, bit by bit. *)

\* The places of a 16-bit register, and of its two bytes.
Places == 0 .. 15
LowPlaces == 0 .. 7

LEMMA XorMember ==
  ASSUME NEW r, NEW s, NEW k
  PROVE  k \in Xor(r, s) <=> ~(k \in r <=> k \in s)
BY DEF Xor

LEMMA XorIn ==
  ASSUME NEW r \in SUBSET Places, NEW s \in SUBSET Places
  PROVE  Xor(r, s) \in SUBSET Places
BY DEF Xor

\* Where the ones are after a turn of the inner loop.
LEMMA BitStepMember ==
  ASSUME NEW r \in SUBSET Places, NEW k \in Places
  PROVE  k \in BitStep(r) <=> ~((k # 0 /\ k - 1 \in r) <=> (15 \in r /\ k \in CRC_POLY))
<1>1. k \in ShiftLeft(r) <=> (k # 0 /\ k - 1 \in r)
  BY SMT DEF ShiftLeft, Places
<1>2. CASE 15 \in r
  <2>1. BitStep(r) = Xor(ShiftLeft(r), CRC_POLY)
    BY <1>2 DEF BitStep
  <2>2. k \in BitStep(r) <=> ~(k \in ShiftLeft(r) <=> k \in CRC_POLY)
    BY <2>1, XorMember
  <2> QED
    BY <1>1, <1>2, <2>2
<1>3. CASE 15 \notin r
  <2>1. BitStep(r) = ShiftLeft(r)
    BY <1>3 DEF BitStep
  <2>2. k \in BitStep(r) <=> k \in ShiftLeft(r)
    BY <2>1
  <2> QED
    BY <1>1, <1>3, <2>2
<1> QED
  BY <1>2, <1>3

LEMMA BitStepIn ==
  ASSUME NEW r \in SUBSET Places
  PROVE  BitStep(r) \in SUBSET Places
<1>1. ShiftLeft(r) \in SUBSET Places /\ CRC_POLY \in SUBSET Places
  BY SMT DEF ShiftLeft, CRC_POLY, Places
<1> QED
  BY <1>1 DEF BitStep, Xor

\* No two registers become one.
LEMMA BitStepInjective ==
  ASSUME NEW r \in SUBSET Places, NEW s \in SUBSET Places, BitStep(r) = BitStep(s)
  PROVE  r = s
<1>1. 15 \in r <=> 15 \in s
  <2>1. 0 \in Places /\ 0 \in CRC_POLY
    BY DEF Places, CRC_POLY
  <2>2. /\ 0 \in BitStep(r) <=> 15 \in r
        /\ 0 \in BitStep(s) <=> 15 \in s
    BY <2>1, BitStepMember
  <2> QED
    BY <2>2
<1>2. ASSUME NEW k \in 0 .. 14
      PROVE  k \in r <=> k \in s
  <2>1. k + 1 \in Places /\ k + 1 # 0 /\ (k + 1) - 1 = k
    BY DEF Places
  <2>2. /\ k + 1 \in BitStep(r) <=> ~(k \in r <=> (15 \in r /\ k + 1 \in CRC_POLY))
        /\ k + 1 \in BitStep(s) <=> ~(k \in s <=> (15 \in s /\ k + 1 \in CRC_POLY))
    BY <2>1, BitStepMember
  <2> QED
    BY <1>1, <2>2
<1>3. \A k \in Places : k = 15 \/ k \in 0 .. 14
  BY DEF Places
<1> QED
  BY <1>1, <1>2, <1>3

\* The register of an exclusive or is the exclusive or of the registers.
LEMMA BitStepLinear ==
  ASSUME NEW r \in SUBSET Places, NEW s \in SUBSET Places
  PROVE  BitStep(Xor(r, s)) = Xor(BitStep(r), BitStep(s))
<1>1. Xor(r, s) \in SUBSET Places
  BY XorIn
<1>2. /\ BitStep(Xor(r, s)) \in SUBSET Places
      /\ Xor(BitStep(r), BitStep(s)) \in SUBSET Places
  BY <1>1, BitStepIn, XorIn
<1>3. ASSUME NEW k \in Places
      PROVE  k \in BitStep(Xor(r, s)) <=> k \in Xor(BitStep(r), BitStep(s))
  <2>1. /\ k \in BitStep(r) <=> ~((k # 0 /\ k - 1 \in r) <=> (15 \in r /\ k \in CRC_POLY))
        /\ k \in BitStep(s) <=> ~((k # 0 /\ k - 1 \in s) <=> (15 \in s /\ k \in CRC_POLY))
    BY BitStepMember
  <2>2. k \in BitStep(Xor(r, s))
          <=> ~((k # 0 /\ k - 1 \in Xor(r, s)) <=> (15 \in Xor(r, s) /\ k \in CRC_POLY))
    BY <1>1, BitStepMember
  <2>3. /\ k - 1 \in Xor(r, s) <=> ~(k - 1 \in r <=> k - 1 \in s)
        /\ 15 \in Xor(r, s) <=> ~(15 \in r <=> 15 \in s)
        /\ k \in Xor(BitStep(r), BitStep(s)) <=> ~(k \in BitStep(r) <=> k \in BitStep(s))
    BY XorMember
  <2> QED
    BY <2>1, <2>2, <2>3
<1> QED
  BY <1>2, <1>3

\* The inner loop's eight turns, by two, four and eight.
Two(r) == BitStep(BitStep(r))
Four(r) == Two(Two(r))
Eight(r) == Four(Four(r))

LEMMA EightIn ==
  ASSUME NEW r \in SUBSET Places
  PROVE  Eight(r) \in SUBSET Places
<1>1. \A x \in SUBSET Places : Two(x) \in SUBSET Places
  BY BitStepIn DEF Two
<1> QED
  BY <1>1 DEF Eight, Four

LEMMA EightInjective ==
  ASSUME NEW r \in SUBSET Places, NEW s \in SUBSET Places, Eight(r) = Eight(s)
  PROVE  r = s
<1>1. \A x \in SUBSET Places : Two(x) \in SUBSET Places
  BY BitStepIn DEF Two
<1>2. \A x, y \in SUBSET Places : Two(x) = Two(y) => x = y
  BY BitStepIn, BitStepInjective DEF Two
<1>3. \A x \in SUBSET Places : Four(x) \in SUBSET Places
  BY <1>1 DEF Four
<1>4. \A x, y \in SUBSET Places : Four(x) = Four(y) => x = y
  BY <1>1, <1>2 DEF Four
<1> QED
  BY <1>3, <1>4 DEF Eight

LEMMA EightLinear ==
  ASSUME NEW r \in SUBSET Places, NEW s \in SUBSET Places
  PROVE  Eight(Xor(r, s)) = Xor(Eight(r), Eight(s))
<1>1. \A x \in SUBSET Places : Two(x) \in SUBSET Places
  BY BitStepIn DEF Two
<1>2. \A x, y \in SUBSET Places : Two(Xor(x, y)) = Xor(Two(x), Two(y))
  BY BitStepIn, BitStepLinear DEF Two
<1>3. \A x \in SUBSET Places : Four(x) \in SUBSET Places
  BY <1>1 DEF Four
<1>4. \A x, y \in SUBSET Places : Four(Xor(x, y)) = Xor(Four(x), Four(y))
  BY <1>1, <1>2 DEF Four
<1> QED
  BY <1>3, <1>4 DEF Eight

\* Ones of the low byte alone come out of the eight turns as the high byte.
Up(t) == {k + 8 : k \in t}

LEMMA EightOfLow ==
  ASSUME NEW t \in SUBSET LowPlaces
  PROVE  Eight(t) = Up(t)
<1> DEFINE by(n) == {k + n : k \in t}
<1>1. \A n \in 0 .. 7 : BitStep(by(n)) = by(n + 1)
  <2> TAKE n \in 0 .. 7
  <2>1. 15 \notin by(n)
    BY DEF LowPlaces
  <2>2. BitStep(by(n)) = {k + 1 : k \in by(n)}
    BY <2>1 DEF BitStep, ShiftLeft
  <2>3. \A k \in t : (k + n) + 1 = k + (n + 1)
    BY DEF LowPlaces
  <2> QED
    BY <2>2, <2>3
<1>2. t = by(0)
  <2>1. \A k \in t : k + 0 = k
    BY DEF LowPlaces
  <2> QED
    BY <2>1
<1>3. /\ BitStep(by(0)) = by(1) /\ BitStep(by(1)) = by(2)
      /\ BitStep(by(2)) = by(3) /\ BitStep(by(3)) = by(4)
  BY <1>1
<1>4. /\ BitStep(by(4)) = by(5) /\ BitStep(by(5)) = by(6)
      /\ BitStep(by(6)) = by(7) /\ BitStep(by(7)) = by(8)
  BY <1>1
<1> HIDE DEF by
<1>5. Eight(t) = by(8)
  BY <1>2, <1>3, <1>4, Zenon DEF Eight, Four, Two
<1> QED
  BY <1>5 DEF by, Up

-----------------------------------------------------------------------------
(* One byte. *)

Ones(byte) == BitsOf(byte, 8)

LEMMA OnesIn == \A byte : Ones(byte) \in SUBSET LowPlaces
BY DEF Ones, BitsOf, LowPlaces

LEMMA UpIn ==
  ASSUME NEW t \in SUBSET LowPlaces
  PROVE  /\ Up(t) \in SUBSET Places
         /\ \A k \in LowPlaces : k \notin Up(t) /\ (k + 8 \in Up(t) <=> k \in t)
BY DEF Up, LowPlaces, Places

\* A function that obeys the loop's recursion takes the eight turns.
LEMMA ByteStepIsEight ==
  ASSUME NEW r \in SUBSET Places, NEW byte
  PROVE  ByteStep(r, byte) = Eight(Xor(r, Up(Ones(byte))))
<1> DEFINE x == Xor(r, Up(Ones(byte)))
           V == SUBSET (0 .. 15)
           W == [V -> V]
           step == [n \in Nat |-> [h \in W |-> [s \in V |-> h[BitStep(s)]]]]
           Is(f) == f = [n \in 0 .. 8 |-> [s \in V |->
                            IF n = 0 THEN s ELSE f[n - 1][BitStep(s)]]]
           turns == CHOOSE f : Is(f)
<1>1. x \in V /\ \A s \in V : BitStep(s) \in V
  BY OnesIn, UpIn, XorIn, BitStepIn DEF Places
<1>2. ByteStep(r, byte) = turns[8][x]
  BY DEF ByteStep, Up, Ones
<1> HIDE DEF x, V
<1>3. [s \in V |-> s] \in W
  OBVIOUS
<1>4. step \in [Nat -> [W -> W]]
  BY <1>1
<1>5. PICK g \in [0 .. 8 -> W] : Recursive(g, 8, [s \in V |-> s], step)
  <2> HIDE DEF W, step
  <2> QED
    BY <1>3, <1>4, RecursionExists, 8 \in Nat
<1>6. ASSUME NEW n \in 0 .. 8, NEW s \in V
      PROVE  g[n][s] = IF n = 0 THEN s ELSE g[n - 1][BitStep(s)]
  <2>1. g[n] = IF n = 0 THEN [t \in V |-> t] ELSE step[n][g[n - 1]]
    BY <1>5 DEF Recursive
  <2>2. CASE n = 0
    BY <2>1, <2>2
  <2>3. CASE n # 0
    <3>1. n \in Nat /\ g[n - 1] \in W
      BY <1>5, <2>3
    <3>2. step[n][g[n - 1]] = [t \in V |-> g[n - 1][BitStep(t)]]
      BY <3>1
    <3> QED
      BY <2>1, <2>3, <3>2
  <2> QED
    BY <2>2, <2>3
<1>7. Is(g)
  <2>1. ASSUME NEW n \in 0 .. 8
        PROVE  g[n] = [s \in V |-> IF n = 0 THEN s ELSE g[n - 1][BitStep(s)]]
    <3>1. g[n] \in [V -> V]
      BY <1>5
    <3> QED
      BY <1>6, <3>1
  <2>2. g = [n \in 0 .. 8 |-> g[n]]
    BY <1>5
  <2> QED
    BY <2>1, <2>2, Zenon
<1>8. Is(turns)
  <2> HIDE DEF Is, W, step
  <2> QED
    BY <1>7, Zenon
<1> HIDE DEF turns
<1> HIDE DEF W, step
<1>9. /\ \A s \in V : turns[0][s] = s
      /\ \A n \in 1 .. 8 : \A s \in V : turns[n][s] = turns[n - 1][BitStep(s)]
  <2>1. \A n \in 0 .. 8 :
           turns[n] = [s \in V |-> IF n = 0 THEN s ELSE turns[n - 1][BitStep(s)]]
    <3> DEFINE row(n) == [s \in V |-> IF n = 0 THEN s ELSE turns[n - 1][BitStep(s)]]
    <3>1. turns = [n \in 0 .. 8 |-> row(n)]
      BY <1>8, Zenon
    <3> HIDE DEF row
    <3>2. \A n \in 0 .. 8 : turns[n] = row(n)
      BY <3>1, Zenon
    <3> QED
      BY <3>2, Zenon DEF row
  <2>2. \A n \in 0 .. 8 : \A s \in V :
           turns[n][s] = IF n = 0 THEN s ELSE turns[n - 1][BitStep(s)]
    BY <2>1, Zenon
  <2> HIDE DEF Is
  <2>3. 0 \in 0 .. 8 /\ \A n \in 1 .. 8 : n \in 0 .. 8 /\ n # 0
    OBVIOUS
  <2> QED
    BY <2>2, <2>3, Zenon
<1>10. /\ \A s \in V : turns[1][s] = turns[0][BitStep(s)]
       /\ \A s \in V : turns[2][s] = turns[1][BitStep(s)]
       /\ \A s \in V : turns[3][s] = turns[2][BitStep(s)]
       /\ \A s \in V : turns[4][s] = turns[3][BitStep(s)]
       /\ \A s \in V : turns[5][s] = turns[4][BitStep(s)]
       /\ \A s \in V : turns[6][s] = turns[5][BitStep(s)]
       /\ \A s \in V : turns[7][s] = turns[6][BitStep(s)]
       /\ \A s \in V : turns[8][s] = turns[7][BitStep(s)]
  BY <1>9
<1>11. \A s \in V : turns[2][s] = Two(s)
  BY <1>1, <1>9, <1>10 DEF Two
<1>12. \A s \in V : Two(s) \in V /\ Four(s) \in V
  BY <1>1 DEF Four, Two
<1>13. \A s \in V : turns[4][s] = Four(s)
  BY <1>1, <1>10, <1>11 DEF Four, Two
<1>14. \A s \in V : turns[6][s] = Four(Two(s))
  BY <1>1, <1>10, <1>13 DEF Two
<1>15. \A s \in V : turns[8][s] = Eight(s)
  BY <1>1, <1>10, <1>12, <1>14 DEF Eight, Four, Two
<1> QED
  BY <1>1, <1>2, <1>15 DEF x

LEMMA ByteStepIn ==
  ASSUME NEW r \in SUBSET Places, NEW byte
  PROVE  ByteStep(r, byte) \in SUBSET Places
BY OnesIn, UpIn, XorIn, EightIn, ByteStepIsEight

\* A byte read by both ends leaves them apart if they were.
LEMMA SameByte ==
  ASSUME NEW r \in SUBSET Places, NEW s \in SUBSET Places, NEW byte,
         ByteStep(r, byte) = ByteStep(s, byte)
  PROVE  r = s
<1> DEFINE up == Up(Ones(byte))
<1>1. up \in SUBSET Places
  BY OnesIn, UpIn
<1>2. Xor(r, up) = Xor(s, up)
  BY <1>1, XorIn, EightInjective, ByteStepIsEight
<1> HIDE DEF up
<1>3. \A k : k \in r <=> k \in s
  BY <1>2, XorMember
<1> QED
  BY <1>3

\* Registers that differ in the low byte are apart whatever each reads next:
\* the byte enters the high half.
LEMMA LowStaysApart ==
  ASSUME NEW r \in SUBSET Places, NEW s \in SUBSET Places, NEW b, NEW c,
         ByteStep(r, b) = ByteStep(s, c)
  PROVE  r \cap LowPlaces = s \cap LowPlaces
<1>1. Up(Ones(b)) \in SUBSET Places /\ Up(Ones(c)) \in SUBSET Places
  BY OnesIn, UpIn
<1>2. Xor(r, Up(Ones(b))) = Xor(s, Up(Ones(c)))
  BY <1>1, XorIn, EightInjective, ByteStepIsEight
<1>3. \A k \in LowPlaces : k \notin Up(Ones(b)) /\ k \notin Up(Ones(c))
  BY OnesIn, UpIn
<1>4. \A k \in LowPlaces : k \in r <=> k \in s
  <2> TAKE k \in LowPlaces
  <2>1. /\ k \in Xor(r, Up(Ones(b))) <=> ~(k \in r <=> k \in Up(Ones(b)))
        /\ k \in Xor(s, Up(Ones(c))) <=> ~(k \in s <=> k \in Up(Ones(c)))
    BY XorMember
  <2> QED
    BY <1>2, <1>3, <2>1
<1> QED
  BY <1>4

\* One register that reads two bytes goes apart in its low byte.
LEMMA DamageReachesLow ==
  ASSUME NEW r \in SUBSET Places, NEW b, NEW c, Ones(b) # Ones(c)
  PROVE  ByteStep(r, b) \cap LowPlaces # ByteStep(r, c) \cap LowPlaces
<1> DEFINE p == Ones(b)
           q == Ones(c)
           d == Xor(Up(p), Up(q))
           e == Eight(d)
<1>1. p \in SUBSET LowPlaces /\ q \in SUBSET LowPlaces
  BY OnesIn
<1>2. Up(p) \in SUBSET Places /\ Up(q) \in SUBSET Places
  BY <1>1, UpIn
<1>3. d \in SUBSET Places
  BY <1>2, XorIn
<1> SUFFICES ASSUME ByteStep(r, b) \cap LowPlaces = ByteStep(r, c) \cap LowPlaces
             PROVE  p = q
  OBVIOUS
<1>4. e = Xor(ByteStep(r, b), ByteStep(r, c))
  <2>1. ByteStep(r, b) = Xor(Eight(r), Eight(Up(p)))
    BY <1>2, EightLinear, ByteStepIsEight
  <2>2. ByteStep(r, c) = Xor(Eight(r), Eight(Up(q)))
    BY <1>2, EightLinear, ByteStepIsEight
  <2>3. e = Xor(Eight(Up(p)), Eight(Up(q)))
    BY <1>2, EightLinear
  <2>4. \A k : k \in Xor(Eight(Up(p)), Eight(Up(q)))
                 <=> k \in Xor(Xor(Eight(r), Eight(Up(p))), Xor(Eight(r), Eight(Up(q))))
    BY XorMember
  <2> QED
    BY <2>1, <2>2, <2>3, <2>4
<1> HIDE DEF p, q, d
<1>5. e \in SUBSET Places
  BY <1>3, EightIn
<1> HIDE DEF e
<1>6. \A k \in LowPlaces : k \notin e
  BY <1>4, XorMember
<1> DEFINE t == {k \in LowPlaces : k + 8 \in e}
<1>7. t \in SUBSET LowPlaces /\ Up(t) = e
  <2>1. \A k \in Places : k \in LowPlaces \/ (k - 8 \in LowPlaces /\ (k - 8) + 8 = k)
    BY DEF Places, LowPlaces
  <2>2. \A k \in e : k - 8 \in t /\ (k - 8) + 8 = k
    BY <1>5, <1>6, <2>1
  <2>3. \A k \in t : k + 8 \in e
    OBVIOUS
  <2> HIDE DEF t
  <2>4. Up(t) = e
    BY <2>2, <2>3 DEF Up
  <2> QED
    BY <2>4 DEF t
<1> HIDE DEF t
<1>8. t \in SUBSET Places
  BY <1>7 DEF Places, LowPlaces
<1>9. d = t
  <2>1. Eight(t) = Eight(d)
    BY <1>7, EightOfLow DEF e
  <2> QED
    BY <1>3, <1>8, <2>1, EightInjective
<1>10. \A k \in LowPlaces : k \in p <=> k \in q
  <2> TAKE k \in LowPlaces
  <2>1. k + 8 \notin t
    BY <1>7 DEF LowPlaces
  <2>2. k + 8 \in Up(p) <=> k + 8 \in Up(q)
    BY <1>9, <2>1, XorMember DEF d
  <2> QED
    BY <1>1, <2>2, UpIn
<1> QED
  BY <1>1, <1>10

-----------------------------------------------------------------------------
(* The register as a number. *)

\* The weight of each place is twice that of the place below, and dividing
\* by it is halving once more.
LEMMA Powers ==
  ASSUME NEW k
  PROVE  /\ (k = 0 => 2 ^ k = 2 ^ 0) /\ (k = 1 => 2 ^ k = 2 ^ 1) /\ (k = 2 => 2 ^ k = 2 ^ 2)
         /\ (k = 3 => 2 ^ k = 2 ^ 3) /\ (k = 4 => 2 ^ k = 2 ^ 4) /\ (k = 5 => 2 ^ k = 2 ^ 5)
         /\ (k = 6 => 2 ^ k = 2 ^ 6) /\ (k = 7 => 2 ^ k = 2 ^ 7) /\ (k = 8 => 2 ^ k = 2 ^ 8)
         /\ (k = 9 => 2 ^ k = 2 ^ 9) /\ (k = 10 => 2 ^ k = 2 ^ 10) /\ (k = 11 => 2 ^ k = 2 ^ 11)
         /\ (k = 12 => 2 ^ k = 2 ^ 12) /\ (k = 13 => 2 ^ k = 2 ^ 13) /\ (k = 14 => 2 ^ k = 2 ^ 14)
         /\ (k = 15 => 2 ^ k = 2 ^ 15) /\ (k = 16 => 2 ^ k = 2 ^ 16)
BY Zenon

LEMMA EachPlace ==
  ASSUME NEW k \in Places
  PROVE
         (k = 0 /\ k + 1 = 1) \/ (k = 1 /\ k + 1 = 2)
      \/ (k = 2 /\ k + 1 = 3) \/ (k = 3 /\ k + 1 = 4)
      \/ (k = 4 /\ k + 1 = 5) \/ (k = 5 /\ k + 1 = 6)
      \/ (k = 6 /\ k + 1 = 7) \/ (k = 7 /\ k + 1 = 8)
      \/ (k = 8 /\ k + 1 = 9) \/ (k = 9 /\ k + 1 = 10)
      \/ (k = 10 /\ k + 1 = 11) \/ (k = 11 /\ k + 1 = 12)
      \/ (k = 12 /\ k + 1 = 13) \/ (k = 13 /\ k + 1 = 14)
      \/ (k = 14 /\ k + 1 = 15) \/ (k = 15 /\ k + 1 = 16)
BY SMT DEF Places

LEMMA PowerDoubles ==
  ASSUME NEW k \in Places
  PROVE  2 ^ k \in Int /\ 2 ^ (k + 1) = 2 * 2 ^ k
<1>1. 2 ^ k \in Int
  BY SMT DEF Places
<1>2. 2 ^ (k + 1) = 2 * 2 ^ k
  BY EachPlace, Powers, SMTT(30)
<1> QED
  BY <1>1, <1>2

LEMMA DivideThenHalve ==
  ASSUME NEW k \in Places, NEW v \in Int
  PROVE  v \div 2 ^ (k + 1) = (v \div 2 ^ k) \div 2
BY EachPlace, Powers, SMTT(30)

LEMMA Distribute ==
  ASSUME NEW p \in Int, NEW d \in Int, NEW x \in Int
  PROVE  p * (d + 2 * x) = p * d + (2 * p) * x
BY SMT

\* Taking the lowest digit off.
LEMMA Halve ==
  ASSUME NEW d \in {0, 1}, NEW u \in Int, NEW v \in Int, v = d + 2 * u
  PROVE  v % 2 = d /\ v \div 2 = u
BY SMT

\* What a place adds to the value.
Weight(bits, k) == IF k \in bits THEN 2 ^ k ELSE 0

LEMMA ValueIsSum ==
  ASSUME NEW bits
  PROVE  \E f \in [0 .. 16 -> Int] :
            /\ f[0] = 0 /\ f[16] = ValueOf(bits)
            /\ \A k \in 1 .. 16 : f[k] = f[k - 1] + Weight(bits, k - 1)
<1> DEFINE step == [k \in Nat |-> [v \in Int |-> v + Weight(bits, k - 1)]]
           Is(f) == f = [k \in 0 .. 16 |->
                          IF k = 0 THEN 0
                          ELSE f[k - 1] + IF k - 1 \in bits THEN 2 ^ (k - 1) ELSE 0]
           sum == CHOOSE f : Is(f)
<1>1. ValueOf(bits) = sum[16]
  BY DEF ValueOf
<1>2. \A k \in Nat : Weight(bits, k - 1) \in Int
  BY SMT DEF Weight
<1>3. step \in [Nat -> [Int -> Int]]
  BY <1>2
<1>4. PICK f \in [0 .. 16 -> Int] : Recursive(f, 16, 0, step)
  <2> HIDE DEF step
  <2> QED
    BY <1>3, RecursionExists, 0 \in Int, 16 \in Nat
<1>5. Is(f)
  <2>1. f = [k \in 0 .. 16 |-> IF k = 0 THEN 0 ELSE step[k][f[k - 1]]]
    BY <1>4 DEF Recursive
  <2>2. ASSUME NEW k \in 0 .. 16, k # 0
        PROVE  step[k][f[k - 1]] = f[k - 1] + Weight(bits, k - 1)
    <3>1. k \in Nat /\ f[k - 1] \in Int
      BY <1>4, <2>2
    <3> QED
      BY <3>1
  <2> HIDE DEF step
  <2> QED
    BY <2>1, <2>2 DEF Weight
<1>6. Is(sum)
  BY <1>5
<1> HIDE DEF sum
<1>7. sum[0] = 0 /\ \A k \in 1 .. 16 : sum[k] = sum[k - 1] + Weight(bits, k - 1)
  BY <1>6 DEF Weight
<1>8. sum \in [0 .. 16 -> Int]
  <2>1. sum = [k \in 0 .. 16 |-> sum[k]]
    BY <1>6
  <2> DEFINE S == {k \in 0 .. 16 : sum[k] \in Int}
  <2>2. 0 \in S
    BY <1>7
  <2>3. \A k \in 1 .. 16 : k - 1 \in S => k \in S
    <3> TAKE k \in 1 .. 16
    <3>1. k \in Nat /\ k \in 0 .. 16
      OBVIOUS
    <3>2. Weight(bits, k - 1) \in Int
      BY <1>2, <3>1
    <3> QED
      BY <1>7, <3>1, <3>2
  <2> HIDE DEF S
  <2>4. 0 .. 16 \subseteq S
    BY <2>2, <2>3, UpTo, 16 \in Nat
  <2>5. \A k \in 0 .. 16 : sum[k] \in Int
    BY <2>4 DEF S
  <2> HIDE DEF Is
  <2> QED
    BY <2>1, <2>5
<1> QED
  BY <1>1, <1>7, <1>8

\* The value from the top down: what its digits from place k up stand for.
Digit(bits, k) == IF k \in bits THEN 1 ELSE 0

LEMMA UpperDigits ==
  ASSUME NEW bits
  PROVE  \E u \in [0 .. 16 -> Int] :
            /\ u[16] = 0
            /\ \A k \in Places : u[k] = Digit(bits, k) + 2 * u[k + 1]
<1> DEFINE step == [k \in Nat |-> [v \in Int |-> Digit(bits, 16 - k) + 2 * v]]
<1>1. \A k : Digit(bits, k) \in Int
  BY DEF Digit
<1>2. step \in [Nat -> [Int -> Int]]
  BY <1>1
<1>3. PICK g \in [0 .. 16 -> Int] : Recursive(g, 16, 0, step)
  <2> HIDE DEF step
  <2> QED
    BY <1>2, RecursionExists, 0 \in Int, 16 \in Nat
<1>4. g[0] = 0 /\ \A k \in 1 .. 16 : g[k] = step[k][g[k - 1]]
  <2> HIDE DEF step
  <2> QED
    BY <1>3 DEF Recursive
<1>5. \A k \in 1 .. 16 : g[k] = Digit(bits, 16 - k) + 2 * g[k - 1]
  <2> TAKE k \in 1 .. 16
  <2>1. k \in Nat /\ g[k - 1] \in Int
    BY <1>3
  <2> QED
    BY <1>4, <2>1
<1> DEFINE u == [k \in 0 .. 16 |-> g[16 - k]]
<1>6. \A k \in 0 .. 16 : 16 - k \in 0 .. 16 /\ u[k] = g[16 - k]
  OBVIOUS
<1>7. u \in [0 .. 16 -> Int]
  BY <1>3, <1>6
<1>8. u[16] = 0
  BY <1>4, <1>6, 16 - 16 = 0
<1> HIDE DEF u
<1>9. ASSUME NEW k \in Places
      PROVE  u[k] = Digit(bits, k) + 2 * u[k + 1]
  <2>1. /\ 16 - k \in 1 .. 16 /\ 16 - (16 - k) = k
        /\ (16 - k) - 1 = 16 - (k + 1) /\ k \in 0 .. 16 /\ k + 1 \in 0 .. 16
    BY DEF Places
  <2>2. u[k] = g[16 - k] /\ u[k + 1] = g[16 - (k + 1)]
    BY <1>6, <2>1
  <2> QED
    BY <1>5, <2>1, <2>2
<1> QED
  BY <1>7, <1>8, <1>9

\* Digit k of the value is the bit at place k.
LEMMA BitOfValue ==
  ASSUME NEW bits
  PROVE  /\ ValueOf(bits) \in Int
         /\ \A k \in Places : (ValueOf(bits) \div 2 ^ k) % 2 = Digit(bits, k)
<1>1. PICK f \in [0 .. 16 -> Int] :
            /\ f[0] = 0 /\ f[16] = ValueOf(bits)
            /\ \A k \in 1 .. 16 : f[k] = f[k - 1] + Weight(bits, k - 1)
  BY ValueIsSum
<1>2. PICK u \in [0 .. 16 -> Int] :
            /\ u[16] = 0
            /\ \A k \in Places : u[k] = Digit(bits, k) + 2 * u[k + 1]
  BY UpperDigits
<1>3. \A k : Digit(bits, k) \in {0, 1}
  BY DEF Digit
<1>4. \A k \in 1 .. 16 :
        /\ k - 1 \in Places /\ k - 1 \in 0 .. 16 /\ k \in 0 .. 16 /\ (k - 1) + 1 = k
        /\ u[k - 1] = Digit(bits, k - 1) + 2 * u[k]
        /\ u[k - 1] \in Int /\ u[k] \in Int /\ f[k - 1] \in Int
  <2> TAKE k \in 1 .. 16
  <2>1. k - 1 \in Places /\ k - 1 \in 0 .. 16 /\ k \in 0 .. 16 /\ (k - 1) + 1 = k
    BY DEF Places
  <2> QED
    BY <1>1, <1>2, <2>1
<1>5. f[16] + 2 ^ 16 * u[16] = u[0]
  <2> DEFINE S == {k \in 0 .. 16 : f[k] + 2 ^ k * u[k] = u[0]}
  <2>1. 0 \in S
    <3>1. 0 \in 0 .. 16 /\ u[0] \in Int
      BY <1>2
    <3>2. 0 + 2 ^ 0 * u[0] = u[0]
      BY <3>1, SMT
    <3> QED
      BY <1>1, <3>1, <3>2
  <2>2. ASSUME NEW k \in 1 .. 16, k - 1 \in S
        PROVE  k \in S
    <3> DEFINE p == 2 ^ (k - 1)
               d == Digit(bits, k - 1)
    <3>1. p \in Int /\ 2 ^ k = 2 * p
      BY <1>4, PowerDoubles
    <3>2. f[k] = f[k - 1] + Weight(bits, k - 1)
      BY <1>1
    <3>3. d \in Int
      BY DEF Digit
    <3>4. Weight(bits, k - 1) = p * d
      BY <3>1 DEF Weight, Digit
    <3>5. f[k - 1] + p * u[k - 1] = u[0]
      BY <2>2
    <3> HIDE DEF p, d
    <3>6. p * u[k - 1] = p * d + (2 * p) * u[k]
      BY <1>4, <3>1, <3>3, Distribute DEF d
    <3>7. p * d \in Int /\ (2 * p) * u[k] \in Int
      BY <1>4, <3>1, <3>3
    <3>8. f[k] + (2 * p) * u[k] = u[0]
      BY <1>4, <3>2, <3>4, <3>5, <3>6, <3>7
    <3> QED
      BY <1>4, <3>1, <3>8
  <2> HIDE DEF S
  <2>3. 0 .. 16 \subseteq S
    BY <2>1, <2>2, UpTo, 16 \in Nat
  <2> QED
    BY <2>3 DEF S
<1>6. ValueOf(bits) = u[0] /\ u[0] \in Int
  <2>1. 2 ^ 16 * 0 = 0 /\ f[16] \in Int /\ u[0] \in Int
    BY <1>1, <1>2, SMT
  <2> QED
    BY <1>1, <1>2, <1>5, <2>1, SMT
<1>7. \A k \in 0 .. 16 : u[0] \div 2 ^ k = u[k]
  <2> DEFINE S == {k \in 0 .. 16 : u[0] \div 2 ^ k = u[k]}
  <2>1. 0 \in S
    <3>1. u[0] \div 2 ^ 0 = u[0]
      BY <1>6, SMT
    <3> QED
      BY <3>1
  <2>2. ASSUME NEW k \in 1 .. 16, k - 1 \in S
        PROVE  k \in S
    <3>1. u[0] \div 2 ^ k = (u[0] \div 2 ^ (k - 1)) \div 2
      BY <1>4, <1>6, DivideThenHalve
    <3>2. u[k - 1] \div 2 = u[k]
      BY <1>3, <1>4, Halve
    <3> QED
      BY <1>4, <2>2, <3>1, <3>2
  <2> HIDE DEF S
  <2>3. 0 .. 16 \subseteq S
    BY <2>1, <2>2, UpTo, 16 \in Nat
  <2> QED
    BY <2>3 DEF S
<1>8. ASSUME NEW k \in Places
      PROVE  (ValueOf(bits) \div 2 ^ k) % 2 = Digit(bits, k)
  <2>1. k \in 0 .. 16 /\ k + 1 \in 0 .. 16
    BY DEF Places
  <2>2. u[k] \in Int /\ u[k + 1] \in Int /\ u[k] = Digit(bits, k) + 2 * u[k + 1]
    BY <1>2, <2>1
  <2>3. u[k] % 2 = Digit(bits, k)
    BY <1>3, <2>2, Halve
  <2> QED
    BY <1>6, <1>7, <2>1, <2>3
<1> QED
  BY <1>6, <1>8

-----------------------------------------------------------------------------
(* The ones of the bytes a frame carries. *)

LEMMA LowInPlaces == \A k \in LowPlaces : k \in Places /\ k + 8 \in Places
BY DEF Places, LowPlaces

LEMMA OnesOfValue ==
  ASSUME NEW t \in SUBSET LowPlaces
  PROVE  Ones(ValueOf(t)) = t
<1>1. \A k \in LowPlaces : (ValueOf(t) \div 2 ^ k) % 2 = Digit(t, k)
  BY LowInPlaces, BitOfValue
<1>2. Ones(ValueOf(t)) = {k \in LowPlaces : (ValueOf(t) \div 2 ^ k) % 2 = 1}
  BY DEF Ones, BitsOf, LowPlaces
<1>3. \A k \in LowPlaces : Digit(t, k) = 1 <=> k \in t
  BY DEF Digit
<1> QED
  BY <1>1, <1>2, <1>3

LEMMA OnesOfFlip == \A b, p : Ones(Flip(b, p)) = Xor(Ones(b), Ones(p))
<1> TAKE b, p
<1>1. Xor(Ones(b), Ones(p)) \in SUBSET LowPlaces
  BY OnesIn DEF Xor
<1> QED
  BY <1>1, OnesOfValue DEF Flip, Ones

\* A pattern that is not zero has a one.
LEMMA OnesOfPattern ==
  ASSUME NEW p \in 1 .. 255
  PROVE  Ones(p) # {}
<1> SUFFICES ASSUME Ones(p) = {} PROVE FALSE
  OBVIOUS
<1> DEFINE w(k) == p \div 2 ^ k
<1>1. w(0) = p /\ w(8) = 0
  BY SMT
<1>2. \A k \in LowPlaces : w(k) = 2 * w(k + 1)
  <2> TAKE k \in LowPlaces
  <2>1. k \in Places /\ p \in Int
    BY DEF Places, LowPlaces
  <2>2. w(k + 1) = w(k) \div 2
    BY <2>1, DivideThenHalve
  <2>3. w(k) % 2 # 1
    <3>1. Ones(p) = {j \in LowPlaces : w(j) % 2 = 1}
      BY DEF Ones, BitsOf, LowPlaces
    <3> HIDE DEF w
    <3> QED
      BY <3>1
  <2>4. w(k) \in Int
    BY <2>1, EachPlace, Powers, SMTT(30)
  <2> HIDE DEF w
  <2> QED
    BY <2>2, <2>3, <2>4, SMT
<1> HIDE DEF w
<1>3. /\ w(0) = 2 * w(1) /\ w(1) = 2 * w(2) /\ w(2) = 2 * w(3) /\ w(3) = 2 * w(4)
      /\ w(4) = 2 * w(5) /\ w(5) = 2 * w(6) /\ w(6) = 2 * w(7) /\ w(7) = 2 * w(8)
  BY <1>2 DEF LowPlaces
<1> QED
  BY <1>1, <1>3, SMT

\* The check value's two bytes are the register's two halves.
LEMMA OnesOfHigh ==
  ASSUME NEW bits
  PROVE  Ones(ValueOf(bits) \div 256) = {k \in LowPlaces : k + 8 \in bits}
<1> DEFINE v == ValueOf(bits)
<1>1. v \in Int
  BY BitOfValue
<1>2. \A k \in LowPlaces : (v \div 2 ^ (k + 8)) % 2 = Digit(bits, k + 8)
  <2>1. \A k \in LowPlaces : k + 8 \in Places
    BY DEF Places, LowPlaces
  <2> QED
    BY <2>1, BitOfValue
<1> HIDE DEF v
<1>3. \A k \in LowPlaces : (v \div 256) \div 2 ^ k = v \div 2 ^ (k + 8)
  <2> DEFINE S == {k \in 0 .. 7 : (v \div 256) \div 2 ^ k = v \div 2 ^ (k + 8)}
  <2>1. 0 \in S
    <3>1. (v \div 256) \div 2 ^ 0 = v \div 2 ^ 8
      BY <1>1, SMT
    <3> QED
      BY <3>1, 0 + 8 = 8
  <2>2. ASSUME NEW k \in 1 .. 7, k - 1 \in S
        PROVE  k \in S
    <3>1. /\ k - 1 \in Places /\ (k - 1) + 1 = k
          /\ (k - 1) + 8 \in Places /\ ((k - 1) + 8) + 1 = k + 8
      BY DEF Places
    <3>2. v \div 256 \in Int
      BY <1>1, SMT
    <3>3. (v \div 256) \div 2 ^ k = ((v \div 256) \div 2 ^ (k - 1)) \div 2
      BY <3>1, <3>2, DivideThenHalve
    <3>4. v \div 2 ^ (k + 8) = (v \div 2 ^ ((k - 1) + 8)) \div 2
      BY <1>1, <3>1, DivideThenHalve
    <3> QED
      BY <2>2, <3>3, <3>4
  <2> HIDE DEF S
  <2>3. 0 .. 7 \subseteq S
    BY <2>1, <2>2, UpTo, 7 \in Nat
  <2> QED
    BY <2>3 DEF S, LowPlaces
<1>4. Ones(v \div 256) = {k \in LowPlaces : ((v \div 256) \div 2 ^ k) % 2 = 1}
  BY DEF Ones, BitsOf, LowPlaces
<1>5. \A k \in LowPlaces : Digit(bits, k + 8) = 1 <=> k + 8 \in bits
  BY DEF Digit
<1> QED
  BY <1>2, <1>3, <1>4, <1>5 DEF v

LEMMA OnesOfLow ==
  ASSUME NEW bits
  PROVE  Ones(ValueOf(bits) % 256) = bits \cap LowPlaces
<1> DEFINE v == ValueOf(bits)
<1>1. v \in Int
  BY BitOfValue
<1>2. \A k \in LowPlaces : (v \div 2 ^ k) % 2 = Digit(bits, k)
  BY LowInPlaces, BitOfValue
<1> HIDE DEF v
<1>3. \A k \in LowPlaces : ((v % 256) \div 2 ^ k) % 2 = (v \div 2 ^ k) % 2
  <2> DEFINE a == v % 256
  <2>1. \A k \in LowPlaces : (k = 0 \/ k = 1 \/ k = 2 \/ k = 3)
                          \/ (k = 4 \/ k = 5 \/ k = 6 \/ k = 7)
    BY DEF LowPlaces
  <2>2. (a \div 2 ^ 0) % 2 = (v \div 2 ^ 0) % 2
    BY <1>1, SMT
  <2>3. (a \div 2 ^ 1) % 2 = (v \div 2 ^ 1) % 2
    BY <1>1, SMT
  <2>4. (a \div 2 ^ 2) % 2 = (v \div 2 ^ 2) % 2
    BY <1>1, SMT
  <2>5. (a \div 2 ^ 3) % 2 = (v \div 2 ^ 3) % 2
    BY <1>1, SMT
  <2>6. (a \div 2 ^ 4) % 2 = (v \div 2 ^ 4) % 2
    BY <1>1, SMT
  <2>7. (a \div 2 ^ 5) % 2 = (v \div 2 ^ 5) % 2
    BY <1>1, SMT
  <2>8. (a \div 2 ^ 6) % 2 = (v \div 2 ^ 6) % 2
    BY <1>1, SMT
  <2>9. (a \div 2 ^ 7) % 2 = (v \div 2 ^ 7) % 2
    BY <1>1, SMT
  <2> HIDE DEF a
  <2>10. ASSUME NEW k \in LowPlaces PROVE (a \div 2 ^ k) % 2 = (v \div 2 ^ k) % 2
    <3>1. CASE k = 0 \/ k = 1 \/ k = 2 \/ k = 3
      BY <3>1, <2>2, <2>3, <2>4, <2>5, Zenon
    <3>2. CASE k = 4 \/ k = 5 \/ k = 6 \/ k = 7
      BY <3>2, <2>6, <2>7, <2>8, <2>9, Zenon
    <3> QED
      BY <2>1, <3>1, <3>2
  <2> QED
    BY <2>10 DEF a
<1>4. Ones(v % 256) = {k \in LowPlaces : ((v % 256) \div 2 ^ k) % 2 = 1}
  BY DEF Ones, BitsOf, LowPlaces
<1>5. \A k \in LowPlaces : Digit(bits, k) = 1 <=> k \in bits
  BY DEF Digit
<1> QED
  BY <1>2, <1>3, <1>4, <1>5 DEF v

\* Run over its own check value a register comes to zero: the first byte
\* cancels its high half and moves its low half up, the second cancels that.
LEMMA OwnTrailer ==
  ASSUME sender \in SUBSET Places
  PROVE  Trailer(sender) = {}
<1> DEFINE high == WireBytes(sender)[1]
           low == WireBytes(sender)[2]
           t == sender \cap LowPlaces
<1>1. Ones(high) = {k \in LowPlaces : k + 8 \in sender} /\ Ones(low) = t
  BY OnesOfHigh, OnesOfLow DEF WireBytes
<1>2. Trailer(sender) = ByteStep(ByteStep(sender, high), low)
  BY DEF Trailer
<1> HIDE DEF high, low
<1>3. Xor(sender, Up(Ones(high))) = t
  <2>1. \A k \in Places : k \in LowPlaces \/ (k - 8 \in LowPlaces /\ (k - 8) + 8 = k)
    BY DEF Places, LowPlaces
  <2>2. Ones(high) \in SUBSET LowPlaces
    BY <1>1
  <2>3. Up(Ones(high)) \in SUBSET Places
    BY <2>2, UpIn
  <2>4. ASSUME NEW k \in Places PROVE k \in Xor(sender, Up(Ones(high))) <=> k \in t
    <3>1. k \in Xor(sender, Up(Ones(high))) <=> ~(k \in sender <=> k \in Up(Ones(high)))
      BY XorMember
    <3>2. CASE k \in LowPlaces
      BY <2>2, <3>1, <3>2, UpIn
    <3>3. CASE k \notin LowPlaces
      <4>1. PICK j \in LowPlaces : j + 8 = k
        BY <2>1, <3>3
      <4>2. k \in Up(Ones(high)) <=> j \in Ones(high)
        BY <2>2, <4>1, UpIn
      <4>3. j \in Ones(high) <=> k \in sender
        BY <1>1, <4>1
      <4> QED
        BY <3>1, <3>3, <4>2, <4>3
    <3> QED
      BY <3>2, <3>3
  <2>5. Xor(sender, Up(Ones(high))) \in SUBSET Places
    BY <2>3, XorIn
  <2> QED
    BY <2>4, <2>5
<1>4. t \in SUBSET LowPlaces /\ t \in SUBSET Places
  OBVIOUS
<1>5. ByteStep(sender, high) = Up(t)
  BY <1>3, <1>4, ByteStepIsEight, EightOfLow
<1> HIDE DEF t
<1>6. Up(t) \in SUBSET Places
  BY <1>4, UpIn
<1>7. Xor(Up(t), Up(Ones(low))) = {}
  BY <1>1 DEF Xor
<1>8. {} \in SUBSET LowPlaces /\ Up({}) = {}
  BY DEF Up
<1> QED
  BY <1>2, <1>5, <1>6, <1>7, <1>8, ByteStepIsEight, EightOfLow

-----------------------------------------------------------------------------
(* The whole message. *)

\* A byte more is a turn of the outer loop more.
LEMMA CrcAppend ==
  ASSUME NEW S, NEW m \in Seq(S), NEW byte \in S
  PROVE  crc16_ccitt_false(Append(m, byte)) = ByteStep(crc16_ccitt_false(m), byte)
<1> DEFINE Is(data, f) == f = [i \in 0 .. Len(data) |->
                                 IF i = 0 THEN CRC_INIT ELSE ByteStep(f[i - 1], data[i])]
           V == SUBSET Places
<1>1. ASSUME NEW data \in Seq(S)
      PROVE  \E f \in [0 .. Len(data) -> V] : Is(data, f)
  <2> DEFINE step == [i \in Nat |-> [r \in V |-> ByteStep(r, data[i])]]
  <2>1. step \in [Nat -> [V -> V]]
    BY ByteStepIn
  <2>2. CRC_INIT \in V /\ Len(data) \in Nat
    BY DEF CRC_INIT, Places
  <2>3. PICK f \in [0 .. Len(data) -> V] : Recursive(f, Len(data), CRC_INIT, step)
    <3> HIDE DEF step, V
    <3> QED
      BY <2>1, <2>2, RecursionExists
  <2>4. f = [i \in 0 .. Len(data) |-> IF i = 0 THEN CRC_INIT ELSE step[i][f[i - 1]]]
    BY <2>3 DEF Recursive
  <2>5. ASSUME NEW i \in 0 .. Len(data), i # 0
        PROVE  step[i][f[i - 1]] = ByteStep(f[i - 1], data[i])
    <3>1. i \in Nat /\ i - 1 \in 0 .. Len(data)
      BY <2>2, <2>5
    <3>2. f[i - 1] \in V
      BY <2>3, <3>1
    <3> HIDE DEF V
    <3> QED
      BY <3>1, <3>2
  <2> HIDE DEF step
  <2> QED
    BY <2>4, <2>5
<1> DEFINE after(data) == CHOOSE f : Is(data, f)
           more == Append(m, byte)
           n == Len(m)
<1>2. \A data : crc16_ccitt_false(data) = after(data)[Len(data)]
  BY DEF crc16_ccitt_false
<1>3. \A data \in Seq(S) : Is(data, after(data))
  BY <1>1
<1>4. /\ more \in Seq(S) /\ Len(more) = n + 1 /\ n \in Nat /\ more[n + 1] = byte
      /\ \A i \in 1 .. n : more[i] = m[i]
  BY AppendProperties
<1>5. ASSUME NEW data \in Seq(S)
      PROVE  /\ after(data)[0] = CRC_INIT
             /\ \A i \in 1 .. Len(data) :
                  after(data)[i] = ByteStep(after(data)[i - 1], data[i])
  <2> DEFINE f == after(data)
  <2>1. f = [i \in 0 .. Len(data) |->
               IF i = 0 THEN CRC_INIT ELSE ByteStep(f[i - 1], data[i])]
    BY <1>3
  <2> HIDE DEF f
  <2>2. Len(data) \in Nat
    OBVIOUS
  <2>3. f[0] = CRC_INIT /\ \A i \in 1 .. Len(data) : f[i] = ByteStep(f[i - 1], data[i])
    BY <2>1, <2>2
  <2> QED
    BY <2>3 DEF f
<1> HIDE DEF more, after
<1>6. /\ after(m)[0] = CRC_INIT /\ after(more)[0] = CRC_INIT
      /\ \A i \in 1 .. n : after(m)[i] = ByteStep(after(m)[i - 1], m[i])
      /\ \A i \in 1 .. n + 1 : after(more)[i] = ByteStep(after(more)[i - 1], more[i])
  BY <1>4, <1>5
<1> HIDE DEF Is, n
<1> DEFINE T == {i \in 0 .. n : after(more)[i] = after(m)[i]}
<1>7. 0 \in T
  BY <1>4, <1>6
<1>8. \A i \in 1 .. n : i - 1 \in T => i \in T
  <2> TAKE i \in 1 .. n
  <2>1. i \in 1 .. n + 1 /\ i \in 0 .. n
    BY <1>4
  <2> QED
    BY <1>4, <1>6, <2>1
<1> HIDE DEF T
<1>9. 0 .. n \subseteq T
  BY <1>4, <1>7, <1>8, UpTo
<1>10. after(more)[n] = after(m)[n]
  BY <1>4, <1>9 DEF T
<1>11. n + 1 \in 1 .. n + 1 /\ (n + 1) - 1 = n
  BY <1>4
<1>12. after(more)[n + 1] = ByteStep(after(m)[n], byte)
  BY <1>4, <1>6, <1>10, <1>11
<1> QED
  BY <1>2, <1>4, <1>12 DEF more, n

LEMMA CrcOfNothing == crc16_ccitt_false(<<>>) = CRC_INIT
<1> DEFINE Is(f) == f = [i \in 0 .. 0 |-> IF i = 0 THEN CRC_INIT
                                             ELSE ByteStep(f[i - 1], <<>>[i])]
           g == [i \in 0 .. 0 |-> CRC_INIT]
<1>1. \A i \in 0 .. 0 : i = 0
  OBVIOUS
<1>2. Is(g)
  BY <1>1
<1>3. Is(CHOOSE f : Is(f))
  BY <1>2
<1>4. crc16_ccitt_false(<<>>) = (CHOOSE f : Is(f))[0]
  BY DEF crc16_ccitt_false
<1> QED
  BY <1>3, <1>4

-----------------------------------------------------------------------------
(* Long division. *)

Plus(s, n) == {k + n : k \in s}

LEMMA PlusMember ==
  ASSUME NEW s \in SUBSET Int, NEW n \in Int, NEW x \in Int
  PROVE  x \in Plus(s, n) <=> x - n \in s
BY DEF Plus

\* What subtracting the divisor at a degree makes of a polynomial.
LEMMA CancelMember ==
  ASSUME NEW s \in SUBSET Int, NEW d \in Int, NEW x \in Int
  PROVE  x \in Cancel(s, d)
           <=> ~(x \in s <=> (d \in s /\ (x - d) + 16 \in Generator))
<1>1. x \in Divisor(d) <=> (x - d) + 16 \in Generator
  <2>1. \A k \in Generator : k \in Int
    BY DEF Generator
  <2>2. \A k \in Int : x = d - 16 + k <=> (x - d) + 16 = k
    OBVIOUS
  <2> QED
    BY <2>1, <2>2 DEF Divisor
<1>2. CASE d \in s
  <2>1. x \in Cancel(s, d) <=> ~(x \in s <=> x \in Divisor(d))
    BY <1>2, XorMember DEF Cancel
  <2> QED
    BY <1>1, <1>2, <2>1
<1>3. CASE d \notin s
  BY <1>3 DEF Cancel
<1> QED
  BY <1>2, <1>3

LEMMA CancelIn ==
  ASSUME NEW s \in SUBSET Int, NEW d \in Int
  PROVE  Cancel(s, d) \in SUBSET Int
<1>1. Divisor(d) \in SUBSET Int
  BY DEF Divisor, Generator
<1> QED
  BY <1>1 DEF Cancel, Xor

\* The division, degree by degree.
LEMMA DivisionExists ==
  ASSUME NEW poly \in SUBSET Int, NEW n \in Nat
  PROVE  \E f \in [0 .. n -> SUBSET Int] :
            /\ f[0] = poly /\ f[n] = Remainder(poly, n + 15)
            /\ \A k \in 1 .. n : f[k] = Cancel(f[k - 1], (n + 16) - k)
<1> DEFINE V == SUBSET Int
           Is(f) == f = [d \in 0 .. (n + 15) - 15 |->
                           IF d = 0 THEN poly ELSE Cancel(f[d - 1], (n + 15) - d + 1)]
           down == CHOOSE f : Is(f)
           step == [k \in Nat |-> [s \in V |-> Cancel(s, (n + 16) - k)]]
<1>1. Remainder(poly, n + 15) = down[(n + 15) - 15]
  BY DEF Remainder
<1>2. (n + 15) - 15 = n /\ \A d \in Int : (n + 15) - d + 1 = (n + 16) - d
  OBVIOUS
<1>3. step \in [Nat -> [V -> V]]
  <2>1. \A k \in Nat : (n + 16) - k \in Int
    OBVIOUS
  <2> QED
    BY <2>1, CancelIn
<1>4. PICK f \in [0 .. n -> V] : Recursive(f, n, poly, step)
  <2> HIDE DEF step, V
  <2>1. poly \in V
    BY DEF V
  <2> QED
    BY <1>3, <2>1, RecursionExists
<1>5. f = [d \in 0 .. n |-> IF d = 0 THEN poly ELSE Cancel(f[d - 1], (n + 16) - d)]
  <2>1. f = [d \in 0 .. n |-> IF d = 0 THEN poly ELSE step[d][f[d - 1]]]
    BY <1>4 DEF Recursive
  <2>2. ASSUME NEW d \in 0 .. n, d # 0
        PROVE  step[d][f[d - 1]] = Cancel(f[d - 1], (n + 16) - d)
    <3>1. d \in Nat /\ f[d - 1] \in V
      BY <1>4, <2>2
    <3> QED
      BY <3>1
  <2> HIDE DEF step
  <2> QED
    BY <2>1, <2>2
<1>6. \A g : Is(g) <=> g = [d \in 0 .. n |->
                              IF d = 0 THEN poly ELSE Cancel(g[d - 1], (n + 16) - d)]
  <2> TAKE g
  <2>1. \A d \in 0 .. n : (n + 15) - d + 1 = (n + 16) - d
    OBVIOUS
  <2> QED
    BY <1>2, <2>1
<1>7. Is(f)
  BY <1>5, <1>6
<1>8. Is(down)
  BY <1>7
<1> HIDE DEF Is, down
<1>9. down = [d \in 0 .. n |-> IF d = 0 THEN poly ELSE Cancel(down[d - 1], (n + 16) - d)]
  BY <1>6, <1>8
<1>10. down[0] = poly /\ \A k \in 1 .. n : down[k] = Cancel(down[k - 1], (n + 16) - k)
  BY <1>9
<1>11. down \in [0 .. n -> SUBSET Int]
  <2> DEFINE S == {k \in 0 .. n : down[k] \in SUBSET Int}
  <2>1. 0 \in S
    <3>1. 0 \in 0 .. n
      OBVIOUS
    <3> QED
      BY <1>10, <3>1
  <2>2. \A k \in 1 .. n : k - 1 \in S => k \in S
    <3> TAKE k \in 1 .. n
    <3>1. k \in 0 .. n /\ (n + 16) - k \in Int
      OBVIOUS
    <3> QED
      BY <1>10, <3>1, CancelIn
  <2> HIDE DEF S
  <2>3. 0 .. n \subseteq S
    BY <2>1, <2>2, UpTo
  <2>4. \A k \in 0 .. n : down[k] \in SUBSET Int
    BY <2>3 DEF S
  <2>5. DOMAIN down = 0 .. n /\ down = [k \in DOMAIN down |-> down[k]]
    BY <1>9
  <2> QED
    BY <2>4, <2>5
<1> QED
  BY <1>1, <1>2, <1>10, <1>11

\* A byte more moves the polynomial up by eight and enters below it, above
\* the sixteen zeros.
LEMMA PolynomialAppend ==
  ASSUME NEW S, NEW m \in Seq(S), NEW byte \in S
  PROVE  /\ Polynomial(m) \in SUBSET Int
         /\ Polynomial(Append(m, byte))
              = Xor(Plus(Polynomial(m), 8), Plus(Ones(byte), 16))
<1> DEFINE bits(data) ==
             LET degree == 8 * Len(data) + 16
             IN  {degree - 8 * i + k : i \in 1 .. Len(data), k \in 0 .. 7} \cap
                    UNION {{degree - 8 * i + k : k \in BitsOf(data[i], 8)} :
                              i \in 1 .. Len(data)}
           ones(data) == 8 * Len(data) .. 8 * Len(data) + 15
           more == Append(m, byte)
           n == Len(m)
<1>1. ASSUME NEW data \in Seq(S)
      PROVE  /\ Polynomial(data) = Xor(bits(data), ones(data))
             /\ bits(data) \in SUBSET Int
             /\ \A x \in Int :
                  x \in bits(data) <=>
                    \E i \in 1 .. Len(data) : \E k \in Ones(data[i]) :
                       x = 8 * Len(data) + 16 - 8 * i + k
  <2>1. Len(data) \in Nat
    OBVIOUS
  <2>2. ones(data) = 8 * Len(data) + 16 - 16 .. 8 * Len(data) + 16 - 1
    BY <2>1
  <2>3. Polynomial(data) = Xor(bits(data), ones(data))
    BY <2>2 DEF Polynomial
  <2> DEFINE d == 8 * Len(data) + 16
             N == 1 .. Len(data)
             A == {d - 8 * i + k : i \in N, k \in 0 .. 7}
             B == UNION {{d - 8 * i + k : k \in Ones(data[i])} : i \in N}
  <2>4. bits(data) = A \cap B
    BY DEF Ones
  <2>5. \A i : Ones(data[i]) \in SUBSET (0 .. 7)
    BY OnesIn DEF LowPlaces
  <2>6. d \in Int /\ N \in SUBSET Int
    BY <2>1
  <2> HIDE DEF d, N
  <2>7. A \in SUBSET Int
    BY <2>6
  <2>8. ASSUME NEW x
        PROVE  x \in B <=> \E i \in N : \E k \in Ones(data[i]) : x = d - 8 * i + k
    OBVIOUS
  <2>9. ASSUME NEW i \in N, NEW k \in Ones(data[i])
        PROVE  d - 8 * i + k \in A
    <3>1. k \in 0 .. 7
      BY <2>5
    <3> QED
      BY <3>1
  <2> HIDE DEF A, B
  <2>10. \A x : x \in B => x \in A
    BY <2>8, <2>9
  <2> HIDE DEF bits
  <2>11. bits(data) = B
    BY <2>4, <2>10
  <2>12. bits(data) \in SUBSET Int
    BY <2>4, <2>7
  <2>13. \A x : x \in bits(data) <=>
                  \E i \in N : \E k \in Ones(data[i]) : x = d - 8 * i + k
    BY <2>8, <2>11
  <2> HIDE DEF ones
  <2> QED
    BY <2>3, <2>12, <2>13 DEF d, N
<1>2. /\ more \in Seq(S) /\ Len(more) = n + 1 /\ n \in Nat /\ more[n + 1] = byte
      /\ \A i \in 1 .. n : more[i] = m[i]
  BY AppendProperties
<1> HIDE DEF bits
<1>3. Polynomial(m) \in SUBSET Int
  <2>1. ones(m) \in SUBSET Int
    BY <1>2
  <2> QED
    BY <1>1, <2>1 DEF Xor
<1>4. Plus(Polynomial(m), 8) \in SUBSET Int /\ Plus(Ones(byte), 16) \in SUBSET Int
  <2>1. Ones(byte) \in SUBSET Int
    BY OnesIn DEF LowPlaces
  <2> QED
    BY <1>3, <2>1 DEF Plus
<1>5. Polynomial(more) \in SUBSET Int
  <2>1. ones(more) \in SUBSET Int
    BY <1>2
  <2> QED
    BY <1>1, <1>2, <2>1 DEF Xor
<1>6. ASSUME NEW x \in Int
      PROVE  x \in bits(more) <=> ~(x - 8 \in bits(m) <=> x - 16 \in Ones(byte))
  <2> HIDE DEF more
  <2>1. x \in bits(more) <=>
          \E i \in 1 .. n + 1 : \E k \in Ones(more[i]) : x = 8 * (n + 1) + 16 - 8 * i + k
    <3>1. Len(more) = n + 1 /\ more \in Seq(S)
      BY <1>2
    <3> HIDE DEF n
    <3>2. x \in bits(more) <=>
            \E i \in 1 .. Len(more) : \E k \in Ones(more[i]) :
               x = 8 * Len(more) + 16 - 8 * i + k
      BY <1>1, <3>1, Zenon
    <3> QED
      BY <3>1, <3>2
  <2>2. x - 8 \in bits(m) <=>
          \E i \in 1 .. n : \E k \in Ones(m[i]) : x - 8 = 8 * n + 16 - 8 * i + k
    BY <1>1
  <2>3. \A i : Ones(more[i]) \in SUBSET (0 .. 7) /\ Ones(m[i]) \in SUBSET (0 .. 7)
    BY OnesIn DEF LowPlaces
  <2> HIDE DEF n
  <2>4. CASE x - 16 \in Ones(byte)
    <3>1. x <= 23
      <4>1. Ones(byte) \in SUBSET (0 .. 7)
        BY OnesIn DEF LowPlaces
      <4> QED
        BY <2>4, <4>1
    <3>2. x - 8 \notin bits(m)
      <4> SUFFICES ASSUME NEW i \in 1 .. n, NEW k \in Ones(m[i]),
                          x - 8 = 8 * n + 16 - 8 * i + k
                   PROVE  FALSE
        BY <2>2
      <4>1. i \in Int /\ i <= n
        BY <1>2
      <4>2. k \in 0 .. 7
        BY <2>3
      <4> QED
        BY <1>2, <3>1, <4>1, <4>2
    <3>3. x \in bits(more)
      <4>1. n + 1 \in 1 .. n + 1 /\ x = 8 * (n + 1) + 16 - 8 * (n + 1) + (x - 16)
        BY <1>2
      <4> QED
        BY <1>2, <2>1, <2>4, <4>1
    <3> QED
      BY <2>4, <3>2, <3>3
  <2>5. CASE x - 16 \notin Ones(byte)
    <3>1. ASSUME NEW i \in 1 .. n + 1, NEW k \in Ones(more[i]),
                 x = 8 * (n + 1) + 16 - 8 * i + k
          PROVE  x - 8 \in bits(m)
      <4>1. k \in 0 .. 7 /\ i \in Int
        <5>1. k \in 0 .. 7
          BY <2>3
        <5> QED
          BY <1>2, <5>1
      <4>2. i # n + 1
        <5> SUFFICES ASSUME i = n + 1 PROVE FALSE
          OBVIOUS
        <5>1. k = x - 16
          BY <1>2, <3>1, <4>1
        <5> QED
          BY <1>2, <2>5, <5>1
      <4>3. i \in 1 .. n /\ x - 8 = 8 * n + 16 - 8 * i + k
        BY <1>2, <3>1, <4>1, <4>2
      <4>4. k \in Ones(m[i])
        BY <1>2, <4>3
      <4> QED
        BY <2>2, <4>3, <4>4
    <3>2. ASSUME NEW i \in 1 .. n, NEW k \in Ones(m[i]),
                 x - 8 = 8 * n + 16 - 8 * i + k
          PROVE  x \in bits(more)
      <4>1. k \in 0 .. 7 /\ i \in Int
        <5>1. k \in 0 .. 7
          BY <2>3
        <5> QED
          BY <1>2, <5>1
      <4>2. i \in 1 .. n + 1 /\ x = 8 * (n + 1) + 16 - 8 * i + k
        BY <1>2, <3>2, <4>1
      <4>3. k \in Ones(more[i])
        BY <1>2
      <4> QED
        BY <2>1, <4>2, <4>3
    <3> QED
      BY <2>1, <2>2, <2>5, <3>1, <3>2
  <2> QED
    BY <2>4, <2>5
<1>7. ASSUME NEW x \in Int
      PROVE  x \in ones(more) <=> x - 8 \in ones(m)
  BY <1>2
<1>8. ASSUME NEW x \in Int
      PROVE  x \in Polynomial(more)
               <=> x \in Xor(Plus(Polynomial(m), 8), Plus(Ones(byte), 16))
  <2> HIDE DEF ones, more
  <2>1. x \in Polynomial(more) <=> ~(x \in bits(more) <=> x \in ones(more))
    BY <1>1, <1>2, XorMember
  <2>2. x - 8 \in Polynomial(m) <=> ~(x - 8 \in bits(m) <=> x - 8 \in ones(m))
    BY <1>1, XorMember
  <2>3. x \in Plus(Polynomial(m), 8) <=> x - 8 \in Polynomial(m)
    BY <1>3, PlusMember
  <2>4. x \in Plus(Ones(byte), 16) <=> x - 16 \in Ones(byte)
    <3>1. Ones(byte) \in SUBSET Int
      BY OnesIn DEF LowPlaces
    <3> QED
      BY <3>1, PlusMember
  <2>5. x \in Xor(Plus(Polynomial(m), 8), Plus(Ones(byte), 16))
          <=> ~(x \in Plus(Polynomial(m), 8) <=> x \in Plus(Ones(byte), 16))
    BY XorMember
  <2> QED
    BY <1>6, <1>7, <2>1, <2>2, <2>3, <2>4, <2>5
<1>9. Xor(Plus(Polynomial(m), 8), Plus(Ones(byte), 16)) \in SUBSET Int
  BY <1>4 DEF Xor
<1> QED
  BY <1>3, <1>5, <1>8, <1>9

\* Where the degree's coefficient is the register's top bit, cancelling it
\* is one turn of the inner loop.
LEMMA CancelIsBitStep ==
  ASSUME NEW r \in SUBSET Places, NEW j \in 0 .. 7
  PROVE  Cancel(Plus(r, 8 - j), 23 - j) = Plus(BitStep(r), 7 - j)
<1>1. Plus(r, 8 - j) \in SUBSET Int /\ r \in SUBSET Int
  BY DEF Plus, Places
<1>2. BitStep(r) \in SUBSET Places /\ BitStep(r) \in SUBSET Int
  BY BitStepIn DEF Places
<1>3. /\ Cancel(Plus(r, 8 - j), 23 - j) \in SUBSET Int
      /\ Plus(BitStep(r), 7 - j) \in SUBSET Int
  BY <1>1, <1>2, CancelIn DEF Plus
<1>4. ASSUME NEW x \in Int
      PROVE  x \in Cancel(Plus(r, 8 - j), 23 - j) <=> x \in Plus(BitStep(r), 7 - j)
  <2> DEFINE z == x - (7 - j)
  <2>1. /\ z \in Int /\ x - (8 - j) = z - 1 /\ (x - (23 - j)) + 16 = z
        /\ (23 - j) - (8 - j) = 15
    OBVIOUS
  <2>2. /\ x \in Plus(r, 8 - j) <=> z - 1 \in r
        /\ 23 - j \in Plus(r, 8 - j) <=> 15 \in r
    BY <1>1, <2>1, PlusMember
  <2>3. x \in Cancel(Plus(r, 8 - j), 23 - j)
          <=> ~(z - 1 \in r <=> (15 \in r /\ z \in Generator))
    BY <1>1, <2>1, <2>2, CancelMember
  <2>4. x \in Plus(BitStep(r), 7 - j) <=> z \in BitStep(r)
    BY <1>2, PlusMember
  <2> HIDE DEF z
  <2>5. CASE z \in Places
    <3>1. z \in BitStep(r)
            <=> ~((z # 0 /\ z - 1 \in r) <=> (15 \in r /\ z \in CRC_POLY))
      BY <2>5, BitStepMember
    <3>2. (z \in CRC_POLY <=> z \in Generator) /\ (z = 0 => z - 1 \notin r)
      BY <2>5 DEF Places, CRC_POLY, Generator
    <3> QED
      BY <2>3, <2>4, <3>1, <3>2
  <2>6. CASE z = 16
    <3>1. z - 1 = 15 /\ z \notin BitStep(r) /\ z \in Generator
      BY <1>2, <2>6 DEF Places, Generator
    <3> QED
      BY <2>3, <2>4, <2>6, <3>1
  <2>7. CASE z \notin Places /\ z # 16
    <3>1. z - 1 \notin r /\ z \notin Generator
      BY <2>1, <2>7 DEF Places, Generator
    <3>2. z \notin BitStep(r)
      BY <1>2, <2>7
    <3> QED
      BY <2>3, <2>4, <2>7, <3>1, <3>2
  <2> QED
    BY <2>5, <2>6, <2>7
<1> QED
  BY <1>3, <1>4

\* Dividing eight degrees further is a turn of the outer loop.
LEMMA RemainderAppend ==
  ASSUME NEW S, NEW m \in Seq(S), NEW byte \in S, NEW r \in SUBSET Places,
         r = Remainder(Polynomial(m), 8 * Len(m) + 15)
  PROVE  ByteStep(r, byte)
           = Remainder(Polynomial(Append(m, byte)), 8 * Len(Append(m, byte)) + 15)
<1> DEFINE n == 8 * Len(m)
           poly == Polynomial(m)
           new == Plus(Ones(byte), 16)
           more == Xor(Plus(poly, 8), new)
           entered == Xor(r, Up(Ones(byte)))
<1>1. /\ n \in Nat /\ Len(Append(m, byte)) = Len(m) + 1
      /\ 8 * Len(Append(m, byte)) + 15 = (n + 8) + 15
  <2>1. Len(m) \in Nat /\ Len(Append(m, byte)) = Len(m) + 1
    OBVIOUS
  <2> QED
    BY <2>1
<1>2. poly \in SUBSET Int /\ Polynomial(Append(m, byte)) = more
  BY PolynomialAppend
<1>3. Ones(byte) \in SUBSET (0 .. 7) /\ Ones(byte) \in SUBSET Int
  BY OnesIn DEF LowPlaces
<1>4. new \in SUBSET Int /\ \A x \in Int : x \in new => x <= 23
  BY <1>3 DEF Plus
<1>5. more \in SUBSET Int
  BY <1>2, <1>4 DEF Plus, Xor
<1>6. r = Remainder(poly, n + 15)
  OBVIOUS
<1> HIDE DEF poly, n, more
<1>7. PICK f \in [0 .. n -> SUBSET Int] :
         /\ f[0] = poly /\ f[n] = r
         /\ \A k \in 1 .. n : f[k] = Cancel(f[k - 1], (n + 16) - k)
  <2>1. \E f \in [0 .. n -> SUBSET Int] :
          /\ f[0] = poly /\ f[n] = Remainder(poly, n + 15)
          /\ \A k \in 1 .. n : f[k] = Cancel(f[k - 1], (n + 16) - k)
    BY <1>1, <1>2, DivisionExists
  <2> QED
    BY <1>6, <2>1
<1>8. PICK g \in [0 .. n + 8 -> SUBSET Int] :
         /\ g[0] = more /\ g[n + 8] = Remainder(more, (n + 8) + 15)
         /\ \A k \in 1 .. n + 8 : g[k] = Cancel(g[k - 1], ((n + 8) + 16) - k)
  <2>1. n + 8 \in Nat
    BY <1>1
  <2> QED
    BY <1>5, <2>1, DivisionExists
\* The first n degrees see the old polynomial only.
<1>9. g[n] = Xor(Plus(f[n], 8), new)
  <2> DEFINE T == {k \in 0 .. n : g[k] = Xor(Plus(f[k], 8), new)}
  <2>1. 0 \in T
    <3>1. 0 \in 0 .. n
      BY <1>1
    <3> QED
      BY <1>7, <1>8, <3>1 DEF more
  <2>2. ASSUME NEW k \in 1 .. n, k - 1 \in T
        PROVE  k \in T
    <3> DEFINE d == (n + 16) - k
    <3>1. /\ k \in 0 .. n /\ k - 1 \in 0 .. n /\ k \in 1 .. n + 8 /\ k - 1 \in 0 .. n + 8
          /\ d \in Int /\ d >= 16 /\ ((n + 8) + 16) - k = d + 8 /\ d + 8 \in Int
          /\ (d + 8) - 8 = d
      BY <1>1
    <3> HIDE DEF d
    <3>2. f[k - 1] \in SUBSET Int /\ g[k - 1] \in SUBSET Int
      BY <1>7, <1>8, <3>1
    <3>3. f[k] = Cancel(f[k - 1], d) /\ g[k] = Cancel(g[k - 1], d + 8)
      BY <1>7, <1>8, <3>1 DEF d
    <3>4. ASSUME NEW x \in Int
          PROVE  x \in g[k - 1] <=> ~(x - 8 \in f[k - 1] <=> x \in new)
      <4>1. x \in g[k - 1] <=> ~(x \in Plus(f[k - 1], 8) <=> x \in new)
        BY <2>2, XorMember
      <4>2. x \in Plus(f[k - 1], 8) <=> x - 8 \in f[k - 1]
        BY <3>2, PlusMember
      <4> QED
        BY <4>1, <4>2
    <3>5. d + 8 \in g[k - 1] <=> d \in f[k - 1]
      <4>1. d + 8 \notin new
        BY <1>4, <3>1
      <4> QED
        BY <3>1, <3>4, <4>1
    <3>6. f[k] \in SUBSET Int /\ g[k] \in SUBSET Int
      BY <3>1, <3>2, <3>3, CancelIn
    <3>7. Xor(Plus(f[k], 8), new) \in SUBSET Int
      BY <1>4, <3>6 DEF Plus, Xor
    <3>8. ASSUME NEW x \in Int
          PROVE  x \in g[k] <=> x \in Xor(Plus(f[k], 8), new)
      <4>1. x \in g[k] <=> ~(x \in g[k - 1]
                 <=> (d + 8 \in g[k - 1] /\ (x - (d + 8)) + 16 \in Generator))
        BY <3>1, <3>2, <3>3, CancelMember
      <4>2. x - 8 \in f[k] <=> ~(x - 8 \in f[k - 1]
                 <=> (d \in f[k - 1] /\ ((x - 8) - d) + 16 \in Generator))
        BY <3>1, <3>2, <3>3, CancelMember
      <4>3. (x - (d + 8)) + 16 = ((x - 8) - d) + 16
        BY <3>1
      <4>4. x \in Plus(f[k], 8) <=> x - 8 \in f[k]
        BY <3>6, PlusMember
      <4>5. x \in Xor(Plus(f[k], 8), new) <=> ~(x \in Plus(f[k], 8) <=> x \in new)
        BY XorMember
      <4> QED
        BY <3>4, <3>5, <4>1, <4>2, <4>3, <4>4, <4>5
    <3> QED
      BY <3>1, <3>6, <3>7, <3>8
  <2> HIDE DEF T
  <2>3. 0 .. n \subseteq T
    BY <1>1, <2>1, <2>2, UpTo
  <2> QED
    BY <1>1, <2>3 DEF T
\* The last eight are the inner loop's.
<1>10. entered \in SUBSET Places /\ entered \in SUBSET Int
  <2>1. Up(Ones(byte)) \in SUBSET Places
    BY OnesIn, UpIn
  <2>2. entered \in SUBSET Places
    BY <2>1, XorIn
  <2> HIDE DEF entered
  <2> QED
    BY <2>2 DEF Places
<1>11. g[n] = Plus(entered, 8)
  <2>1. r \in SUBSET Int /\ g[n] \in SUBSET Int /\ Plus(entered, 8) \in SUBSET Int
    <3>1. r \in SUBSET Int
      BY DEF Places
    <3>2. n \in 0 .. n + 8
      BY <1>1
    <3>3. g[n] \in SUBSET Int
      BY <1>8, <3>2
    <3> HIDE DEF entered
    <3>4. Plus(entered, 8) \in SUBSET Int
      BY <1>10 DEF Plus
    <3> QED
      BY <3>1, <3>3, <3>4
  <2>2. ASSUME NEW x \in Int
        PROVE  x \in g[n] <=> x \in Plus(entered, 8)
    <3>1. x \in g[n] <=> ~(x - 8 \in r <=> x - 16 \in Ones(byte))
      <4>1. x \in g[n] <=> ~(x \in Plus(r, 8) <=> x \in new)
        BY <1>7, <1>9, XorMember
      <4>2. x \in Plus(r, 8) <=> x - 8 \in r
        BY <2>1 DEF Plus
      <4>3. x \in new <=> x - 16 \in Ones(byte)
        BY <1>3, PlusMember
      <4> QED
        BY <4>1, <4>2, <4>3
    <3>2. x - 8 \in Up(Ones(byte)) <=> x - 16 \in Ones(byte)
      <4>1. (x - 8) - 8 = x - 16
        OBVIOUS
      <4> QED
        BY <1>3, <4>1 DEF Up
    <3>3. x \in Plus(entered, 8) <=> ~(x - 8 \in r <=> x - 8 \in Up(Ones(byte)))
      <4>1. x \in Plus(entered, 8) <=> x - 8 \in entered
        BY <1>10 DEF Plus
      <4>2. x - 8 \in entered <=> ~(x - 8 \in r <=> x - 8 \in Up(Ones(byte)))
        BY XorMember DEF entered
      <4> QED
        BY <4>1, <4>2
    <3> QED
      BY <3>1, <3>2, <3>3
  <2> QED
    BY <2>1, <2>2
<1> HIDE DEF entered
<1>12. ASSUME NEW j \in 0 .. 7, NEW y \in SUBSET Places, g[n + j] = Plus(y, 8 - j)
       PROVE  BitStep(y) \in SUBSET Places /\ g[n + (j + 1)] = Plus(BitStep(y), 8 - (j + 1))
  <2>1. /\ n + (j + 1) \in 1 .. n + 8 /\ (n + (j + 1)) - 1 = n + j
        /\ ((n + 8) + 16) - (n + (j + 1)) = 23 - j /\ 8 - (j + 1) = 7 - j
    BY <1>1
  <2>2. g[n + (j + 1)] = Cancel(g[n + j], 23 - j)
    BY <1>8, <2>1
  <2> QED
    BY <1>12, <2>1, <2>2, CancelIsBitStep, BitStepIn
<1> DEFINE Reached(j, y) == y \in SUBSET Places /\ g[n + j] = Plus(y, 8 - j)
<1>13. \A j \in 0 .. 7 : \A y : Reached(j, y) => Reached(j + 1, BitStep(y))
  BY <1>12
<1>14. Reached(0, entered)
  BY <1>1, <1>10, <1>11
<1> HIDE DEF Reached
<1>15. \A j \in {0, 2, 4, 6} : \A y : Reached(j, y) => Reached(j + 2, Two(y))
  <2> TAKE j \in {0, 2, 4, 6}
  <2>1. j \in 0 .. 7 /\ j + 1 \in 0 .. 7 /\ (j + 1) + 1 = j + 2
    OBVIOUS
  <2> QED
    BY <1>13, <2>1 DEF Two
<1>16. Reached(8, Eight(entered))
  <2>1. Reached(2, Two(entered))
    BY <1>14, <1>15
  <2>2. Reached(4, Two(Two(entered)))
    BY <1>15, <2>1
  <2>3. Reached(6, Two(Two(Two(entered))))
    BY <1>15, <2>2
  <2>4. Reached(8, Two(Two(Two(Two(entered)))))
    BY <1>15, <2>3
  <2> QED
    BY <2>4 DEF Eight, Four
<1>17. g[n + 8] = Eight(entered)
  <2>1. /\ Eight(entered) \in SUBSET Int /\ g[n + 8] = Plus(Eight(entered), 0)
    BY <1>16, 8 - 8 = 0 DEF Reached, Places
  <2>2. \A k \in Eight(entered) : k + 0 = k
    BY <2>1
  <2> QED
    BY <2>1, <2>2 DEF Plus
<1>18. ByteStep(r, byte) = Eight(entered)
  BY ByteStepIsEight DEF entered
<1> QED
  BY <1>1, <1>2, <1>8, <1>17, <1>18

-----------------------------------------------------------------------------
(* What the line does to the two registers. *)

(***************************************************************************)
(* The two ends agree until the line damages a byte and never again: after *)
(* one damaged byte they differ in the low half, which the next byte, read *)
(* into the high half, cannot mend; and a byte read alike mends nothing.   *)
(***************************************************************************)
CrcInv ==
    /\ message \in Seq(Message)
    /\ sender \in SUBSET Places
    /\ receiver \in SUBSET Places
    /\ damaged \subseteq 1 .. Len(message)
    /\ damaged = {} => sender = receiver
    /\ damaged # {} => sender # receiver
    /\ damaged = {Len(message)} => sender \cap LowPlaces # receiver \cap LowPlaces

LEMMA InitCrcInv == Init => CrcInv
<1> SUFFICES ASSUME Init PROVE CrcInv
  OBVIOUS
<1>1. CRC_INIT \in SUBSET Places
  BY DEF CRC_INIT, Places
<1>2. message = <<>> /\ sender = CRC_INIT /\ receiver = CRC_INIT /\ damaged = {}
  BY DEF Init
<1> QED
  BY <1>1, <1>2 DEF CrcInv

LEMMA IntactKeeps ==
  ASSUME CrcInv, NEW byte \in Message, Intact(byte)
  PROVE  CrcInv'
<1>1. /\ message' = Append(message, byte) /\ damaged' = damaged
      /\ sender' = ByteStep(sender, byte) /\ receiver' = ByteStep(receiver, byte)
  BY DEF Intact, Advance
<1>2. /\ message \in Seq(Message) /\ sender \in SUBSET Places /\ receiver \in SUBSET Places
      /\ damaged = {} => sender = receiver
      /\ damaged # {} => sender # receiver
  BY DEF CrcInv
<1>3. message' \in Seq(Message) /\ Len(message') = Len(message) + 1 /\ Len(message) \in Nat
  BY <1>1, <1>2
<1>4. sender' \in SUBSET Places /\ receiver' \in SUBSET Places
  BY <1>1, <1>2, ByteStepIn
<1>5. damaged = {} => sender' = receiver'
  BY <1>1, <1>2
<1>6. damaged # {} => sender' # receiver'
  BY <1>1, <1>2, SameByte
<1>7. damaged' \subseteq 1 .. Len(message') /\ Len(message') \notin damaged'
  <2>1. damaged \subseteq 1 .. Len(message)
    BY DEF CrcInv
  <2> QED
    BY <1>1, <1>3, <2>1
<1> QED
  BY <1>1, <1>3, <1>4, <1>5, <1>6, <1>7 DEF CrcInv

LEMMA DamagedKeeps ==
  ASSUME CrcInv, NEW byte \in Message, NEW pattern \in Damage, Damaged(byte, pattern)
  PROVE  CrcInv'
<1> DEFINE heard == Flip(byte, pattern)
<1>1. /\ message' = Append(message, byte) /\ damaged' = damaged \cup {Len(message) + 1}
      /\ sender' = ByteStep(sender, byte) /\ receiver' = ByteStep(receiver, heard)
      /\ damaged \subseteq {Len(message)}
  BY DEF Damaged, Advance
<1>2. Ones(byte) # Ones(heard)
  <2>1. Ones(pattern) # {}
    BY OnesOfPattern, DamageAssumption
  <2>2. Ones(heard) = Xor(Ones(byte), Ones(pattern))
    BY OnesOfFlip
  <2> QED
    BY <2>1, <2>2 DEF Xor
<1> HIDE DEF heard
<1>3. message \in Seq(Message) /\ sender \in SUBSET Places /\ receiver \in SUBSET Places
  BY DEF CrcInv
<1>4. message' \in Seq(Message) /\ Len(message') = Len(message) + 1 /\ Len(message) \in Nat
  BY <1>1, <1>3
<1>5. sender' \in SUBSET Places /\ receiver' \in SUBSET Places
  BY <1>1, <1>3, ByteStepIn
<1>6. damaged' \subseteq 1 .. Len(message') /\ damaged' # {}
  <2>1. damaged \subseteq 1 .. Len(message)
    BY DEF CrcInv
  <2>2. 1 .. Len(message) \subseteq 1 .. Len(message')
    BY <1>4
  <2>3. Len(message) + 1 \in 1 .. Len(message')
    BY <1>4
  <2> QED
    BY <1>1, <2>1, <2>2, <2>3
<1>7. CASE damaged = {}
  <2>1. sender = receiver
    BY <1>7 DEF CrcInv
  <2>2. sender' \cap LowPlaces # receiver' \cap LowPlaces
    BY <1>1, <1>2, <1>3, <2>1, DamageReachesLow
  <2>3. sender' # receiver'
    BY <2>2
  <2> QED
    BY <1>4, <1>5, <1>6, <2>2, <2>3 DEF CrcInv
<1>8. CASE damaged = {Len(message)}
  <2>1. sender \cap LowPlaces # receiver \cap LowPlaces
    BY <1>8 DEF CrcInv
  <2>2. sender' # receiver'
    BY <1>1, <1>3, <2>1, LowStaysApart
  <2>3. damaged' # {Len(message')}
    BY <1>1, <1>4, <1>8
  <2> QED
    BY <1>4, <1>5, <1>6, <2>2, <2>3 DEF CrcInv
<1> QED
  BY <1>1, <1>7, <1>8

LEMMA CrcInvariant == Spec => []CrcInv
<1>1. CrcInv /\ [Next]_vars => CrcInv'
  <2> SUFFICES ASSUME CrcInv, [Next]_vars PROVE CrcInv'
    OBVIOUS
  <2>1. CASE Next
    BY <2>1, IntactKeeps, DamagedKeeps DEF Next
  <2>2. CASE UNCHANGED vars
    BY <2>2 DEF vars, CrcInv
  <2> QED
    BY <2>1, <2>2
<1> QED
  BY <1>1, InitCrcInv, PTL DEF Spec

(***************************************************************************)
(* Damage confined to one byte or to two neighbours changes the value      *)
(* crc16_ccitt_false computes, for every message of every length, every    *)
(* damage and wherever it falls: decoder_finish's comparison sees it.      *)
(***************************************************************************)
THEOREM BurstsAreDetected == Spec => []BurstDetected
<1>1. CrcInv => BurstDetected
  BY DEF CrcInv, BurstDetected
<1> QED
  BY <1>1, CrcInvariant, PTL

(***************************************************************************)
(* Run over a message and its check value, high byte first, the receiver's *)
(* register comes to zero exactly when the message is the sender's: what   *)
(* the comment at protocol.c:216-218 says, for every message and damage.   *)
(***************************************************************************)
THEOREM ResidueIsZero == Spec => []Residue
<1>1. CrcInv => Residue
  <2> SUFFICES ASSUME CrcInv PROVE Residue
    OBVIOUS
  <2>1. sender \in SUBSET Places /\ receiver \in SUBSET Places
    BY DEF CrcInv
  <2>2. Trailer(sender) = {}
    BY <2>1, OwnTrailer
  <2>3. CASE damaged = {}
    <3>1. receiver = sender
      BY <2>3 DEF CrcInv
    <3>2. Trailer(receiver) = {}
      BY <2>2, <3>1
    <3> QED
      BY <2>3, <3>2 DEF Residue
  <2>4. CASE damaged # {}
    <3>1. receiver # sender
      BY <2>4 DEF CrcInv
    <3>2. Trailer(receiver) # Trailer(sender)
      BY <2>1, <3>1, SameByte, ByteStepIn DEF Trailer
    <3> QED
      BY <2>2, <2>4, <3>2 DEF Residue
  <2> QED
    BY <2>3, <2>4
<1> QED
  BY <1>1, CrcInvariant, PTL

\* Both ways of computing the sender's register.
RegisterInv ==
    /\ CrcInv
    /\ sender = Remainder(Polynomial(message), 8 * Len(message) + 15)
    /\ sender = crc16_ccitt_false(message)

LEMMA InitRegisterInv == Init => RegisterInv
<1> SUFFICES ASSUME Init PROVE RegisterInv
  OBVIOUS
<1>1. message = <<>> /\ sender = CRC_INIT /\ Len(message) = 0
  BY DEF Init
<1>2. Polynomial(<<>>) = CRC_INIT
  BY DEF Polynomial, CRC_INIT, Xor
<1>3. CRC_INIT \in SUBSET Int
  BY DEF CRC_INIT
<1>4. Remainder(CRC_INIT, 0 + 15) = CRC_INIT
  <2>1. \E f \in [0 .. 0 -> SUBSET Int] :
           f[0] = CRC_INIT /\ f[0] = Remainder(CRC_INIT, 0 + 15)
    BY <1>3, DivisionExists, 0 \in Nat
  <2> QED
    BY <2>1
<1> QED
  BY <1>1, <1>2, <1>4, InitCrcInv, CrcOfNothing DEF RegisterInv

\* A step that reads a byte.
LEMMA AdvanceKeeps ==
  ASSUME RegisterInv, NEW byte \in Message,
         message' = Append(message, byte), sender' = ByteStep(sender, byte)
  PROVE  /\ sender' = Remainder(Polynomial(message'), 8 * Len(message') + 15)
         /\ sender' = crc16_ccitt_false(message')
<1>1. /\ message \in Seq(Message) /\ sender \in SUBSET Places
      /\ sender = Remainder(Polynomial(message), 8 * Len(message) + 15)
      /\ sender = crc16_ccitt_false(message)
  BY DEF RegisterInv, CrcInv
<1>2. ByteStep(sender, byte)
        = Remainder(Polynomial(Append(message, byte)), 8 * Len(Append(message, byte)) + 15)
  BY <1>1, RemainderAppend
<1>3. crc16_ccitt_false(Append(message, byte)) = ByteStep(crc16_ccitt_false(message), byte)
  BY <1>1, CrcAppend
<1> QED
  BY <1>1, <1>2, <1>3

(***************************************************************************)
(* The shift-and-exclusive-or loop of crc16_ccitt_false is polynomial      *)
(* division: its value is the remainder modulo x^16+x^12+x^5+1 of the      *)
(* message, first sixteen bits inverted, for every message of every        *)
(* length; and a register fed byte by byte is the function of the whole.   *)
(***************************************************************************)
THEOREM RegisterIsRemainder == Spec => []IsRemainder
<1>1. RegisterInv /\ [Next]_vars => RegisterInv'
  <2> SUFFICES ASSUME RegisterInv, [Next]_vars PROVE RegisterInv'
    OBVIOUS
  <2>1. CrcInv
    BY DEF RegisterInv
  <2>2. CASE Next
    <3>1. CrcInv'
      BY <2>1, <2>2, IntactKeeps, DamagedKeeps DEF Next
    <3>2. PICK byte \in Message :
            message' = Append(message, byte) /\ sender' = ByteStep(sender, byte)
      BY <2>2 DEF Next, Intact, Damaged, Advance
    <3> QED
      BY <3>1, <3>2, AdvanceKeeps DEF RegisterInv
  <2>3. CASE UNCHANGED vars
    BY <2>3 DEF vars, RegisterInv, CrcInv
  <2> QED
    BY <2>2, <2>3
<1>2. RegisterInv => IsRemainder
  BY DEF RegisterInv, IsRemainder
<1> QED
  BY <1>1, <1>2, InitRegisterInv, PTL DEF Spec
=============================================================================
