-------------------------- MODULE SkDecoderProofs ---------------------------
(***************************************************************************)
(* For every alphabet, every CRC and all payload lengths: a decoder        *)
(* context never leaves the states DecoderOK describes, no call of         *)
(* sk_decoder_feed writes out of bounds, and call by call it gives the     *)
(* verdicts of the batch specification SkFrameSpec.  At the end, two       *)
(* contexts: those that hear the same bytes from some moment on are in the *)
(* same state from the first FLAG they share.                              *)
(***************************************************************************)
EXTENDS SkDecoder, SkDecoderSync, SkProtocolProofs

-----------------------------------------------------------------------------
(***************************************************************************)
(* The inductive invariant: TypeOK lets the context be any record of its   *)
(* type; MemorySafe adds what the buffer bounds rest on - overflow only on *)
(* a full buffer, an untouched context before the first FLAG.              *)
(***************************************************************************)
DecoderInv == TypeOK /\ MemorySafe

\* A fresh decoder satisfies it.
LEMMA DecoderInvInit == Init => DecoderInv
<1> SUFFICES ASSUME Init PROVE DecoderInv
  OBVIOUS
<1>1. DecoderOK(st)
  BY InitOK DEF Init
<1>2. MemorySafe
  BY <1>1 DEF MemorySafe, Init, SK_DEC_MORE
<1>3. TypeOK
  BY <1>1, LengthAssumption
     DEF TypeOK, DecoderOK, Init, SK_DEC_MORE, SK_DEC_ERR_OFLOW
<1> QED
  BY <1>2, <1>3 DEF DecoderInv

\* Every call of sk_decoder_feed preserves it.
LEMMA DecoderInvNext == DecoderInv /\ [Next]_vars => DecoderInv'
<1> SUFFICES ASSUME DecoderInv, [Next]_vars PROVE DecoderInv'
  OBVIOUS
<1>1. DecoderOK(st) /\ raw \in Seq(Byte)
  BY DEF DecoderInv, TypeOK, MemorySafe
<1>2. ASSUME NEW byte \in Byte, NEW room \in Caps, sk_decoder_feed(byte, room)
      PROVE  DecoderInv'
  <2>1. room \in Nat
    BY CapsAssumption
  <2>2. DecoderOK(st')
    BY <1>1, <1>2, FeedStateOK DEF sk_decoder_feed
  <2>3. result' \in SK_DEC_ERR_OFLOW .. SK_PAYLOAD_MAX
    BY <1>1, <1>2, <2>1, FeedResultOK DEF sk_decoder_feed
  <2>4. /\ out' \in Seq(Byte)
        /\ Len(out') = IF result' > 0 THEN result' ELSE 0
        /\ Len(out') <= cap'
    BY <1>1, <1>2, <2>1, FeedOutOK DEF sk_decoder_feed
  <2>5. raw' \in Seq(Byte)
    BY <1>1, <1>2 DEF sk_decoder_feed, History
  <2>6. TypeOK'
    BY <1>2, <2>1, <2>2, <2>3, <2>4, <2>5 DEF TypeOK, sk_decoder_feed, DecoderOK
  <2>7. MemorySafe'
    BY <2>2, <2>4 DEF MemorySafe
  <2> QED
    BY <2>6, <2>7 DEF DecoderInv
<1>3. CASE UNCHANGED vars
  BY <1>3 DEF DecoderInv, TypeOK, MemorySafe, DecoderOK, vars
<1> QED
  BY <1>2, <1>3 DEF Next

\* The decoder context, its verdicts and what it delivers keep their types
\* under every sequence of sk_decoder_feed calls.
THEOREM DecoderTypeCorrect == Spec => []TypeOK
<1>1. DecoderInv => TypeOK
  BY DEF DecoderInv
<1> QED
  BY <1>1, DecoderInvInit, DecoderInvNext, PTL DEF Spec

\* No call of sk_decoder_feed writes past buf[SK_FRAME_INNER] or past the
\* caller's buffer, for every bound, alphabet and CRC.
THEOREM DecoderMemorySafe == Spec => []MemorySafe
<1>1. DecoderInv => MemorySafe
  BY DEF DecoderInv
<1> QED
  BY <1>1, DecoderInvInit, DecoderInvNext, PTL DEF Spec

-----------------------------------------------------------------------------
(* Refinement of SkFrameSpec.  Its operators, seen through the instance,   *)
(* are those of SkDecoder.                                                 *)

\* The bytes of a raw sequence decoded so far, as SkFrameSpec's Unstuff
\* accumulates them.
Data(r) ==
    CHOOSE f : f = [k \in 0 .. Len(r) |->
        IF k = 0 THEN <<>>
        ELSE IF r[k] = SK_ESC THEN f[k - 1]
        ELSE Append(f[k - 1], IF k > 1 /\ r[k - 1] = SK_ESC
                              THEN EscXor(r[k]) ELSE r[k])]

LEMMA UnstuffIsData == \A r : FrameSpec!Unstuff(r) = Data(r)[Len(r)]
BY DEF FrameSpec!Unstuff, FrameSpec!AfterEscape, FrameSpec!EscXor, FrameSpec!SK_ESC,
       Data, EscXor, SK_ESC

\* What byte k of r adds to the data.
Decoded(r, k, data) ==
    IF r[k] = SK_ESC THEN data
    ELSE Append(data, IF k > 1 /\ r[k - 1] = SK_ESC THEN EscXor(r[k]) ELSE r[k])

\* Data is what that recursion says.
LEMMA DataGrows ==
  ASSUME NEW r \in Seq(Byte)
  PROVE  /\ Data(r) \in [0 .. Len(r) -> Seq(Byte)]
         /\ Data(r)[0] = <<>>
         /\ \A k \in 1 .. Len(r) : Data(r)[k] = Decoded(r, k, Data(r)[k - 1])
<1> DEFINE n == Len(r)
           Grown(f) == f = [k \in 0 .. n |->
               IF k = 0 THEN <<>>
               ELSE IF r[k] = SK_ESC THEN f[k - 1]
               ELSE Append(f[k - 1], IF k > 1 /\ r[k - 1] = SK_ESC
                                     THEN EscXor(r[k]) ELSE r[k])]
           add == [k \in Nat |-> [data \in Seq(Byte) |->
                       IF k \in 1 .. n THEN Decoded(r, k, data) ELSE data]]
<1>1. n \in Nat /\ <<>> \in Seq(Byte)
  OBVIOUS
<1>2. ASSUME NEW k \in 1 .. n, NEW data \in Seq(Byte)
      PROVE  Decoded(r, k, data) \in Seq(Byte)
  <2>1. r[k] \in Byte
    OBVIOUS
  <2>2. EscXor(r[k]) \in Byte
    BY <2>1, ByteAssumption
  <2> QED
    BY <2>1, <2>2 DEF Decoded
<1>3. add \in [Nat -> [Seq(Byte) -> Seq(Byte)]]
  <2>1. ASSUME NEW k \in Nat, NEW data \in Seq(Byte)
        PROVE  (IF k \in 1 .. n THEN Decoded(r, k, data) ELSE data) \in Seq(Byte)
    BY <1>2
  <2> HIDE DEF n
  <2> QED
    BY <2>1
<1>4. ASSUME NEW k \in 1 .. n, NEW data \in Seq(Byte)
      PROVE  add[k][data] = Decoded(r, k, data)
  <2> HIDE DEF n
  <2>1. k \in Nat
    BY <1>1
  <2> QED
    BY <2>1
<1> HIDE DEF add, n
<1>5. PICK f \in [0 .. n -> Seq(Byte)] : Recursive(f, n, <<>>, add)
  BY <1>1, <1>3, RecursionExists
<1>6. ASSUME NEW k \in 0 .. n
      PROVE  f[k] = IF k = 0 THEN <<>> ELSE Decoded(r, k, f[k - 1])
  <2>1. f[k] = IF k = 0 THEN <<>> ELSE add[k][f[k - 1]]
    BY <1>5, <1>6 DEF Recursive
  <2>2. CASE k = 0
    BY <2>1, <2>2
  <2>3. CASE k # 0
    <3>1. k \in 1 .. n /\ f[k - 1] \in Seq(Byte)
      BY <1>1, <2>3
    <3> QED
      BY <1>4, <2>1, <2>3, <3>1
  <2> QED
    BY <2>2, <2>3
<1>7. Grown(f)
  BY <1>6 DEF Decoded
<1>8. Data(r) = CHOOSE g : Grown(g)
  BY DEF Data, n
<1>9. Grown(Data(r))
  BY <1>7, <1>8
<1>10. ASSUME NEW g, Grown(g), NEW k \in 0 .. n
       PROVE  g[k] = IF k = 0 THEN <<>> ELSE Decoded(r, k, g[k - 1])
  BY <1>10 DEF Decoded
<1>11. Data(r) = f
  <2> DEFINE S == {k \in 0 .. n : Data(r)[k] = f[k]}
  <2>1. 0 \in S
    BY <1>1, <1>6, <1>9, <1>10
  <2>2. ASSUME NEW k \in 1 .. n, k - 1 \in S PROVE k \in S
    <3>1. k \in 0 .. n /\ k # 0 /\ Data(r)[k - 1] = f[k - 1]
      BY <1>1, <2>2
    <3> QED
      BY <1>6, <1>9, <1>10, <3>1
  <2> HIDE DEF S
  <2>3. 0 .. n \subseteq S
    BY <1>1, <2>1, <2>2, UpTo
  <2>4. \A k \in 0 .. n : Data(r)[k] = f[k]
    BY <2>3 DEF S
  <2>5. DOMAIN Data(r) = 0 .. n /\ Data(r) = [k \in DOMAIN Data(r) |-> Data(r)[k]]
    BY <1>9
  <2> QED
    BY <2>4, <2>5
<1>12. \A k \in 1 .. n : k \in 0 .. n /\ k # 0
  BY <1>1
<1> HIDE DEF Grown
<1> QED
  BY <1>1, <1>6, <1>11, <1>12 DEF n
\* A byte more changes nothing of what the bytes before it decode to.
LEMMA DataOfAppend ==
  ASSUME NEW r \in Seq(Byte), NEW byte \in Byte
  PROVE  LET n == Len(r) IN
         Data(Append(r, byte))[n + 1]
           = IF byte = SK_ESC THEN Data(r)[n]
             ELSE Append(Data(r)[n], IF n >= 1 /\ r[n] = SK_ESC
                                     THEN EscXor(byte) ELSE byte)
<1> DEFINE n == Len(r)
           s == Append(r, byte)
<1>1. /\ n \in Nat /\ s \in Seq(Byte) /\ Len(s) = n + 1 /\ s[n + 1] = byte
      /\ \A k \in 1 .. n : s[k] = r[k]
  OBVIOUS
<1> HIDE DEF n, s
<1>2. /\ Data(r)[0] = <<>>
      /\ \A k \in 1 .. n : Data(r)[k] = Decoded(r, k, Data(r)[k - 1])
  BY DataGrows DEF n
<1>3. /\ Data(s)[0] = <<>>
      /\ \A k \in 1 .. n + 1 : Data(s)[k] = Decoded(s, k, Data(s)[k - 1])
  BY <1>1, DataGrows
<1> DEFINE S == {k \in 0 .. n : Data(s)[k] = Data(r)[k]}
<1>4. 0 \in S
  BY <1>1, <1>2, <1>3
<1>5. ASSUME NEW k \in 1 .. n, k - 1 \in S PROVE k \in S
  <2>1. k \in 0 .. n /\ k \in 1 .. n + 1 /\ Data(s)[k - 1] = Data(r)[k - 1]
    BY <1>1, <1>5
  <2>2. s[k] = r[k] /\ (k > 1 => s[k - 1] = r[k - 1])
    BY <1>1
  <2>3. Decoded(s, k, Data(s)[k - 1]) = Decoded(r, k, Data(r)[k - 1])
    BY <2>1, <2>2 DEF Decoded
  <2> QED
    BY <1>2, <1>3, <2>1, <2>3
<1> HIDE DEF S
<1>6. n \in S
  <2>1. 0 .. n \subseteq S
    BY <1>1, <1>4, <1>5, UpTo
  <2> QED
    BY <1>1, <2>1
<1>7. Data(s)[n] = Data(r)[n]
  BY <1>6 DEF S
<1>8. Data(s)[n + 1] = Decoded(s, n + 1, Data(s)[n])
  <2>1. n + 1 \in 1 .. n + 1 /\ (n + 1) - 1 = n
    BY <1>1
  <2> QED
    BY <1>3, <2>1
<1>9. /\ n + 1 > 1 <=> n >= 1
      /\ (n + 1) - 1 = n /\ (n >= 1 => s[n] = r[n])
  BY <1>1
<1> QED
  BY <1>1, <1>7, <1>8, <1>9 DEF Decoded, n, s

(***************************************************************************)
(* How the context represents the raw bytes: the escape bit is the last of *)
(* them, the buffer is as much of their data as fits, and the overflow bit *)
(* says whether that is all.                                               *)
(***************************************************************************)
AllOf(r) == Data(r)[Len(r)]

LastIsEscape(r) == Len(r) >= 1 /\ r[Len(r)] = SK_ESC

Represents(d, r) ==
    IF d.in_frame = 1
    THEN /\ d.esc = IF LastIsEscape(r) THEN 1 ELSE 0
         /\ d.overflow = IF Len(AllOf(r)) > SK_FRAME_INNER THEN 1 ELSE 0
         /\ d.buf = IF Len(AllOf(r)) > SK_FRAME_INNER
                    THEN SubSeq(AllOf(r), 1, SK_FRAME_INNER) ELSE AllOf(r)
    ELSE r = <<>>

\* The data is a sequence of bytes; no bytes have no data.
LEMMA AllOfOK ==
  ASSUME NEW r \in Seq(Byte)
  PROVE  AllOf(r) \in Seq(Byte) /\ Len(AllOf(r)) \in Nat /\ (r = <<>> => AllOf(r) = <<>>)
<1>1. Len(r) \in 0 .. Len(r) /\ (r = <<>> => Len(r) = 0)
  OBVIOUS
<1> QED
  BY <1>1, DataGrows DEF AllOf

\* AllOf of a sequence one byte longer.
LEMMA AllOfAppend ==
  ASSUME NEW r \in Seq(Byte), NEW byte \in Byte
  PROVE  /\ AllOf(Append(r, byte))
              = IF byte = SK_ESC THEN AllOf(r)
                ELSE Append(AllOf(r), IF LastIsEscape(r) THEN EscXor(byte) ELSE byte)
         /\ LastIsEscape(Append(r, byte)) <=> byte = SK_ESC
<1>1. /\ Len(r) \in Nat /\ Len(Append(r, byte)) = Len(r) + 1
      /\ Append(r, byte)[Len(r) + 1] = byte
  OBVIOUS
<1>2. LastIsEscape(Append(r, byte)) <=> byte = SK_ESC
  BY <1>1 DEF LastIsEscape
<1> QED
  BY <1>1, <1>2, DataOfAppend DEF AllOf, LastIsEscape

\* A byte inside a frame: the bounded buffer still represents all of them.
LEMMA RepresentsMore ==
  ASSUME NEW d, DecoderOK(d), d.in_frame = 1,
         NEW r \in Seq(Byte), Represents(d, r), NEW byte \in Byte, byte # SK_FLAG
  PROVE  Represents(FeedState(d, byte), Append(r, byte))
<1> DEFINE x == IF LastIsEscape(r) THEN EscXor(byte) ELSE byte
           s == Append(r, byte)
           e == FeedState(d, byte)
<1>1. AllOf(r) \in Seq(Byte) /\ Len(AllOf(r)) \in Nat /\ x \in Byte
  BY AllOfOK, ByteAssumption
<1>2. /\ AllOf(s) = IF byte = SK_ESC THEN AllOf(r) ELSE Append(AllOf(r), x)
      /\ LastIsEscape(s) <=> byte = SK_ESC
  BY AllOfAppend
<1>3. /\ d.esc = IF LastIsEscape(r) THEN 1 ELSE 0
      /\ d.overflow = IF Len(AllOf(r)) > SK_FRAME_INNER THEN 1 ELSE 0
      /\ d.buf = IF Len(AllOf(r)) > SK_FRAME_INNER
                 THEN SubSeq(AllOf(r), 1, SK_FRAME_INNER) ELSE AllOf(r)
  BY DEF Represents
<1>4. SK_FRAME_INNER \in Nat
  BY LengthAssumption DEF SK_FRAME_INNER, SK_CRC_LEN
<1>5. CASE byte = SK_ESC
  <2>1. e = [d EXCEPT !.esc = 1]
    BY <1>5 DEF FeedState, SK_FLAG, SK_ESC
  <2>2. d \in sk_decoder_t
    BY DEF DecoderOK
  <2> HIDE DEF e
  <2>3. e.in_frame = 1 /\ e.esc = 1 /\ e.overflow = d.overflow /\ e.buf = d.buf
    BY <2>1, <2>2 DEF sk_decoder_t
  <2> QED
    BY <1>2, <1>3, <1>5, <2>3 DEF Represents, e
<1>6. CASE byte # SK_ESC
  <2>1. e = StoreByte(d, byte)
    BY <1>6 DEF FeedState
  <2>2. x = IF d.esc = 1 THEN EscXor(byte) ELSE byte
    BY <1>3
  <2> HIDE DEF x, s, e
  <2>3. AllOf(s) = Append(AllOf(r), x) /\ Len(AllOf(s)) = Len(AllOf(r)) + 1
    BY <1>1, <1>2, <1>6
  <2>4. /\ e.in_frame = 1 /\ e.esc = 0
        /\ e.overflow = IF Len(d.buf) < SK_FRAME_INNER THEN d.overflow ELSE 1
        /\ e.buf = IF Len(d.buf) < SK_FRAME_INNER THEN Append(d.buf, x) ELSE d.buf
    BY <2>1, <2>2 DEF StoreByte
  <2>5. CASE Len(AllOf(r)) < SK_FRAME_INNER
    <3>1. d.buf = AllOf(r) /\ d.overflow = 0 /\ Len(AllOf(s)) <= SK_FRAME_INNER
      BY <1>1, <1>3, <1>4, <2>3, <2>5
    <3>2. ~(Len(AllOf(s)) > SK_FRAME_INNER)
      BY <1>1, <1>4, <2>3, <3>1
    <3> QED
      BY <1>2, <1>6, <2>3, <2>4, <2>5, <3>1, <3>2 DEF Represents, s, e
  <2>6. CASE Len(AllOf(r)) = SK_FRAME_INNER
    <3>1. d.buf = AllOf(r) /\ ~(Len(d.buf) < SK_FRAME_INNER)
      BY <1>3, <1>4, <2>6
    <3>2. Len(AllOf(s)) > SK_FRAME_INNER
      BY <1>4, <2>3, <2>6
    <3>3. SubSeq(AllOf(s), 1, SK_FRAME_INNER) = AllOf(r)
      <4>1. AllOf(s) = AllOf(r) \o <<x>>
        BY <1>1, <2>3, AppendIsConcat
      <4> QED
        BY <1>1, <1>4, <2>6, <4>1, SubSeqOfConcat1, SubSeqFull
    <3> QED
      BY <1>2, <1>6, <2>4, <3>1, <3>2, <3>3 DEF Represents, s, e
  <2>7. CASE Len(AllOf(r)) > SK_FRAME_INNER
    <3>1. /\ d.buf = SubSeq(AllOf(r), 1, SK_FRAME_INNER) /\ d.overflow = 1
          /\ Len(d.buf) = SK_FRAME_INNER
      BY <1>1, <1>3, <1>4, <2>7
    <3>2. Len(AllOf(s)) > SK_FRAME_INNER
      BY <1>1, <1>4, <2>3, <2>7
    <3>3. SubSeq(AllOf(s), 1, SK_FRAME_INNER) = SubSeq(AllOf(r), 1, SK_FRAME_INNER)
      <4>1. AllOf(s) = AllOf(r) \o <<x>>
        BY <1>1, <2>3, AppendIsConcat
      <4> QED
        BY <1>1, <1>4, <2>7, <4>1, SubSeqOfConcat1
    <3> QED
      BY <1>2, <1>4, <1>6, <2>4, <3>1, <3>2, <3>3 DEF Represents, s, e
  <2> QED
    BY <1>1, <1>4, <2>5, <2>6, <2>7
<1> QED
  BY <1>5, <1>6
\* The last two bytes, taken as a sequence or one by one.
LEMMA TrailerIsPair ==
  ASSUME NEW data \in Seq(Byte), NEW n \in Nat, Len(data) = n + 2
  PROVE  SubSeq(data, n + 1, n + 2) = <<data[n + 1], data[n + 2]>>
<1> DEFINE s == SubSeq(data, n + 1, n + 2)
           t == <<data[n + 1], data[n + 2]>>
<1>1. s \in Seq(Byte) /\ Len(s) = 2 /\ s[1] = data[n + 1] /\ s[2] = data[n + 2]
  OBVIOUS
<1>2. data[n + 1] \in Byte /\ data[n + 2] \in Byte
  OBVIOUS
<1>3. t \in Seq(Byte) /\ Len(t) = 2 /\ t[1] = data[n + 1] /\ t[2] = data[n + 2]
  BY <1>2
<1> HIDE DEF s, t
<1>4. \A k \in 1 .. 2 : s[k] = t[k]
  BY <1>1, <1>3
<1> QED
  BY <1>1, <1>3, <1>4, SeqEqual DEF s, t

\* decoder_finish, from the truncated buffer and the overflow bit, gives the
\* verdict of the batch specification on all the bytes.
LEMMA VerdictIsJudgement ==
  ASSUME NEW d, DecoderOK(d), d.in_frame = 1,
         NEW r \in Seq(Byte), Represents(d, r), NEW room \in Nat
  PROVE  /\ FeedResult(d, SK_FLAG, room) = FrameSpec!Judge(AllOf(r), room)
         /\ FeedResult(d, SK_FLAG, room) > 0 => d.buf = AllOf(r)
<1> DEFINE len == Len(AllOf(r))
<1>1. AllOf(r) \in Seq(Byte) /\ len \in Nat
  BY AllOfOK
<1>2. /\ d.overflow = IF len > SK_FRAME_INNER THEN 1 ELSE 0
      /\ d.buf = IF len > SK_FRAME_INNER
                 THEN SubSeq(AllOf(r), 1, SK_FRAME_INNER) ELSE AllOf(r)
  BY DEF Represents
<1>3. /\ SK_FRAME_INNER \in Nat /\ SK_FRAME_INNER = SK_PAYLOAD_MAX + 2
      /\ SK_PAYLOAD_MIN \in Nat /\ SK_PAYLOAD_MIN >= 1
      /\ SK_PAYLOAD_MAX \in Nat /\ SK_PAYLOAD_MIN <= SK_PAYLOAD_MAX
  BY LengthAssumption DEF SK_FRAME_INNER, SK_CRC_LEN
<1>4. /\ FrameSpec!SK_FRAME_INNER = SK_FRAME_INNER /\ FrameSpec!SK_CRC_LEN = 2
      /\ FrameSpec!SK_DEC_MORE = SK_DEC_MORE
      /\ FrameSpec!SK_DEC_ERR_LEN = SK_DEC_ERR_LEN
      /\ FrameSpec!SK_DEC_ERR_CRC = SK_DEC_ERR_CRC
      /\ FrameSpec!SK_DEC_ERR_OFLOW = SK_DEC_ERR_OFLOW
  BY DEF FrameSpec!SK_FRAME_INNER, FrameSpec!SK_CRC_LEN, FrameSpec!SK_DEC_MORE,
         FrameSpec!SK_DEC_ERR_LEN, FrameSpec!SK_DEC_ERR_CRC, FrameSpec!SK_DEC_ERR_OFLOW,
         SK_FRAME_INNER, SK_CRC_LEN, SK_DEC_MORE, SK_DEC_ERR_LEN, SK_DEC_ERR_CRC,
         SK_DEC_ERR_OFLOW
<1>5. ~(SK_DEC_MORE > 0) /\ ~(SK_DEC_ERR_LEN > 0) /\ ~(SK_DEC_ERR_OFLOW > 0)
  BY DEF SK_DEC_MORE, SK_DEC_ERR_LEN, SK_DEC_ERR_OFLOW
<1>6. CASE AllOf(r) = <<>>
  <2>1. len = 0 /\ d.buf = AllOf(r)
    BY <1>2, <1>3, <1>6
  <2>2. FeedResult(d, SK_FLAG, room) = SK_DEC_MORE
    BY <1>6, <2>1 DEF FeedResult
  <2>3. FrameSpec!Judge(AllOf(r), room) = SK_DEC_MORE
    BY <1>3, <1>4, <1>6, <2>1 DEF FrameSpec!Judge
  <2> QED
    BY <2>1, <2>2, <2>3
<1>7. CASE AllOf(r) # <<>> /\ len > SK_FRAME_INNER
  <2>1. d.overflow = 1 /\ Len(d.buf) = SK_FRAME_INNER /\ d.buf # <<>>
    BY <1>1, <1>2, <1>3, <1>7
  <2>2. FeedResult(d, SK_FLAG, room) = SK_DEC_ERR_OFLOW
    BY <2>1 DEF FeedResult, decoder_finish
  <2>3. FrameSpec!Judge(AllOf(r), room) = SK_DEC_ERR_OFLOW
    <3>1. ~(len \in 1 .. SK_PAYLOAD_MIN + 2 - 1)
      BY <1>1, <1>3, <1>7
    <3> QED
      BY <1>4, <1>7, <3>1 DEF FrameSpec!Judge
  <2> QED
    BY <1>5, <2>2, <2>3
<1>8. CASE AllOf(r) # <<>> /\ len < SK_PAYLOAD_MIN + 2
  <2>1. d.overflow = 0 /\ d.buf = AllOf(r) /\ len >= 1 /\ ~(len > SK_FRAME_INNER)
    BY <1>1, <1>2, <1>3, <1>8
  <2>2. FeedResult(d, SK_FLAG, room) = SK_DEC_ERR_LEN
    BY <1>8, <2>1 DEF FeedResult, decoder_finish, SK_CRC_LEN
  <2>3. FrameSpec!Judge(AllOf(r), room) = SK_DEC_ERR_LEN
    <3>1. len \in 1 .. SK_PAYLOAD_MIN + 2 - 1
      BY <1>1, <1>3, <1>8, <2>1
    <3> QED
      BY <1>4, <1>8, <2>1, <3>1 DEF FrameSpec!Judge
  <2> QED
    BY <2>1, <2>2, <2>3
<1>9. CASE len >= SK_PAYLOAD_MIN + 2 /\ len <= SK_FRAME_INNER
  <2> DEFINE data == AllOf(r)
             n == len - 2
             good == Crc(SubSeq(data, 1, n)) = <<data[n + 1], data[n + 2]>>
  <2>1. /\ d.overflow = 0 /\ d.buf = data /\ data # <<>>
        /\ n \in SK_PAYLOAD_MIN .. SK_PAYLOAD_MAX /\ n \in Nat /\ len = n + 2
        /\ ~(len > SK_FRAME_INNER) /\ ~(len < SK_PAYLOAD_MIN + 2)
        /\ ~(len \in 1 .. SK_PAYLOAD_MIN + 2 - 1)
    BY <1>1, <1>2, <1>3, <1>9
  <2>2. FeedResult(d, SK_FLAG, room)
          = IF ~good THEN SK_DEC_ERR_CRC ELSE IF room < n THEN SK_DEC_ERR_LEN ELSE n
    <3>1. FeedResult(d, SK_FLAG, room) = decoder_finish(d, room)
      BY <2>1 DEF FeedResult
    <3> QED
      BY <2>1, <3>1 DEF decoder_finish, SK_CRC_LEN
  <2>3. FrameSpec!IsFrame(data) <=> good
    <3>1. SubSeq(data, n + 1, n + 2) = <<data[n + 1], data[n + 2]>>
      BY <1>1, <2>1, TrailerIsPair
    <3>2. \A m \in SK_PAYLOAD_MIN .. SK_PAYLOAD_MAX : len = m + 2 => m = n
      BY <1>1, <1>3, <2>1
    <3> HIDE DEF n, data
    <3>3. FrameSpec!IsFrame(data)
            <=> \E m \in SK_PAYLOAD_MIN .. SK_PAYLOAD_MAX :
                   /\ len = m + 2
                   /\ SubSeq(data, m + 1, m + 2) = Crc(SubSeq(data, 1, m))
      BY <1>4 DEF FrameSpec!IsFrame, data
    <3> QED
      BY <2>1, <3>1, <3>2, <3>3
  <2>4. FrameSpec!Judge(data, room)
          = IF ~good THEN SK_DEC_ERR_CRC ELSE IF room < n THEN SK_DEC_ERR_LEN ELSE n
    <3> HIDE DEF good
    <3> QED
      BY <1>4, <2>1, <2>3 DEF FrameSpec!Judge
  <2> QED
    BY <2>1, <2>2, <2>4
<1> QED
  BY <1>1, <1>3, <1>6, <1>7, <1>8, <1>9

-----------------------------------------------------------------------------
(***************************************************************************)
(* The invariant the refinement needs beyond DecoderInv: the context       *)
(* represents the bytes fed since the last FLAG.                           *)
(***************************************************************************)
RefinementInv == DecoderInv /\ Represents(st, raw)

\* No FLAG, no bytes.
LEMMA RefinementInvInit == Init => RefinementInv /\ FrameSpec!Init
<1> SUFFICES ASSUME Init PROVE RefinementInv /\ FrameSpec!Init
  OBVIOUS
<1>1. st.in_frame = 0 /\ raw = <<>>
  BY DEF Init, sk_decoder_init
<1>2. FrameSpec!Init
  BY <1>1 DEF Init, FrameSpec!Init, FrameSpec!SK_DEC_MORE, SK_DEC_MORE
<1> QED
  BY <1>1, <1>2, DecoderInvInit DEF RefinementInv, Represents

\* A FLAG is the batch specification's Flag.
LEMMA FlagStep ==
  ASSUME RefinementInv, NEW room \in Caps, sk_decoder_feed(SK_FLAG, room)
  PROVE  Represents(st', raw') /\ FrameSpec!Flag(room)
<1>1. /\ DecoderOK(st) /\ raw \in Seq(Byte) /\ Represents(st, raw) /\ room \in Nat
  BY CapsAssumption DEF RefinementInv, DecoderInv, TypeOK, MemorySafe
<1>2. /\ st' = NewFrame(st) /\ raw' = <<>>
      /\ result' = FeedResult(st, SK_FLAG, room)
      /\ out' = FeedOut(st, SK_FLAG, room)
  BY DEF sk_decoder_feed, FeedState, History, SK_FLAG, SK_ESC
<1>3. Represents(st', raw')
  <2>1. AllOf(<<>>) = <<>> /\ Len(<<>>) = 0
    <3>1. <<>> \in Seq(Byte)
      OBVIOUS
    <3> QED
      BY <3>1, AllOfOK
  <2>2. ~(Len(<<>>) > SK_FRAME_INNER) /\ ~LastIsEscape(<<>>)
    BY LengthAssumption DEF LastIsEscape, SK_FRAME_INNER, SK_CRC_LEN
  <2> QED
    BY <1>2, <2>1, <2>2 DEF Represents, NewFrame
<1>4. FrameSpec!Unstuff(raw) = AllOf(raw)
  BY UnstuffIsData DEF AllOf
<1>5. CASE st.in_frame = 1
  <2>1. /\ result' = FrameSpec!Judge(AllOf(raw), room)
        /\ result' > 0 => st.buf = AllOf(raw)
    BY <1>1, <1>2, <1>5, VerdictIsJudgement
  <2>2. out' = IF result' > 0 THEN SubSeq(AllOf(raw), 1, result') ELSE <<>>
    BY <1>2, <2>1 DEF FeedOut
  <2> QED
    BY <1>2, <1>3, <1>4, <1>5, <2>1, <2>2 DEF FrameSpec!Flag, NewFrame
<1>6. CASE st.in_frame # 1
  <2>1. result' = SK_DEC_MORE /\ ~(result' > 0)
    BY <1>2, <1>6 DEF FeedResult, SK_DEC_MORE
  <2>2. out' = <<>>
    BY <1>2, <2>1 DEF FeedOut
  <2> QED
    BY <1>2, <1>3, <1>6, <2>1, <2>2
       DEF FrameSpec!Flag, NewFrame, FrameSpec!SK_DEC_MORE, SK_DEC_MORE
<1> QED
  BY <1>5, <1>6

\* Any other byte is its Other.
LEMMA OtherStep ==
  ASSUME RefinementInv, NEW byte \in Byte, byte # SK_FLAG, NEW room \in Caps,
         sk_decoder_feed(byte, room)
  PROVE  Represents(st', raw') /\ FrameSpec!Other(byte)
<1>1. /\ DecoderOK(st) /\ raw \in Seq(Byte) /\ Represents(st, raw)
  BY DEF RefinementInv, DecoderInv, TypeOK, MemorySafe
<1>2. /\ st' = FeedState(st, byte)
      /\ raw' = IF st.in_frame = 1 THEN Append(raw, byte) ELSE raw
      /\ result' = SK_DEC_MORE /\ out' = <<>>
  BY QuietByte DEF sk_decoder_feed, History
<1>3. CASE st.in_frame = 1
  <2>1. Represents(st', raw')
    BY <1>1, <1>2, <1>3, RepresentsMore
  <2>2. st'.in_frame = 1
    <3>1. CASE byte = SK_ESC
      <4>1. st' = [st EXCEPT !.esc = 1] /\ st \in sk_decoder_t
        BY <1>1, <1>2, <1>3, <3>1 DEF FeedState, SK_FLAG, SK_ESC, DecoderOK
      <4> QED
        BY <1>3, <4>1 DEF sk_decoder_t
    <3>2. CASE byte # SK_ESC
      BY <1>2, <1>3, <3>2 DEF FeedState, StoreByte
    <3> QED
      BY <3>1, <3>2
  <2> QED
    BY <1>2, <1>3, <2>1, <2>2 DEF FrameSpec!Other, FrameSpec!SK_DEC_MORE, SK_DEC_MORE
<1>4. CASE st.in_frame # 1
  <2>1. st.in_frame = 0
    BY <1>1, <1>4 DEF DecoderOK, sk_decoder_t, Bit
  <2>2. st' = st
    BY <1>2, <2>1 DEF FeedState
  <2> QED
    BY <1>1, <1>2, <1>4, <2>2 DEF FrameSpec!Other, FrameSpec!SK_DEC_MORE, SK_DEC_MORE
<1> QED
  BY <1>3, <1>4

\* Every call of sk_decoder_feed is a step of the batch specification.
LEMMA RefinementInvNext ==
  RefinementInv /\ [Next]_vars => RefinementInv' /\ [FrameSpec!Next]_(FrameSpec!vars)
<1> SUFFICES ASSUME RefinementInv, [Next]_vars
             PROVE  RefinementInv' /\ [FrameSpec!Next]_(FrameSpec!vars)
  OBVIOUS
<1>1. DecoderInv'
  BY DecoderInvNext DEF RefinementInv
<1>2. CASE Next
  <2>1. PICK byte \in Byte, room \in Caps : sk_decoder_feed(byte, room)
    BY <1>2 DEF Next
  <2>2. CASE byte = SK_FLAG
    BY <1>1, <2>1, <2>2, FlagStep DEF RefinementInv, FrameSpec!Next
  <2>3. CASE byte # SK_FLAG
    <3>1. Represents(st', raw') /\ FrameSpec!Other(byte)
      BY <2>1, <2>3, OtherStep
    <3>2. byte \in Byte \ {FrameSpec!SK_FLAG}
      BY <2>3 DEF FrameSpec!SK_FLAG, SK_FLAG
    <3> QED
      BY <1>1, <3>1, <3>2 DEF RefinementInv, FrameSpec!Next
  <2> QED
    BY <2>2, <2>3
<1>3. CASE UNCHANGED vars
  BY <1>1, <1>3 DEF RefinementInv, vars, FrameSpec!vars
<1> QED
  BY <1>2, <1>3

\* The incremental decoder implements the batch specification: for every
\* sequence of bytes, and every CRC, the same verdicts and deliveries at the
\* same calls.
THEOREM DecoderImplementsFrameSpec == Spec => ImplementsFrameSpec
BY RefinementInvInit, RefinementInvNext, PTL DEF Spec, ImplementsFrameSpec, FrameSpec!Spec

-----------------------------------------------------------------------------
(* Two decoders. *)

(***************************************************************************)
(* The inductive invariant.  Resynchronized is not inductive by itself:    *)
(* that the decoders never part again after a common FLAG rests on         *)
(* flags => together, a part of SyncTypeOK.                                *)
(***************************************************************************)
SyncInv == SyncTypeOK /\ Resynchronized

\* One call on a decoder keeps its context and its results typed.
LEMMA CallTyped ==
  ASSUME NEW d, DecoderOK(d), NEW byte \in Byte, NEW room \in Rooms
  PROVE  /\ DecoderOK(FeedState(d, byte))
         /\ FeedResult(d, byte, room) \in SK_DEC_ERR_OFLOW .. SK_PAYLOAD_MAX
         /\ FeedOut(d, byte, room) \in Seq(Byte)
<1>1. room \in Nat
  BY SyncAssumption
<1> QED
  BY <1>1, FeedStateOK, FeedResultOK, FeedOutOK

\* A FLAG takes every context to the same state.
LEMMA FlagForgets ==
  ASSUME NEW d, NEW e
  PROVE  FeedState(d, SK_FLAG) = FeedState(e, SK_FLAG)
<1>1. \A c : FeedState(c, SK_FLAG) = NewFrame(c)
  BY DEF FeedState, SK_FLAG, SK_ESC
<1> QED
  BY <1>1 DEF NewFrame

\* Two fresh decoders satisfy the invariant.
LEMMA SyncInvInit == SyncInit => SyncInv
<1> SUFFICES ASSUME SyncInit PROVE SyncInv
  OBVIOUS
<1>1. DecoderOK(one) /\ DecoderOK(two)
  BY InitOK DEF SyncInit
<1>2. SK_DEC_MORE \in SK_DEC_ERR_OFLOW .. SK_PAYLOAD_MAX
  BY LengthAssumption DEF SK_DEC_MORE, SK_DEC_ERR_OFLOW
<1>3. {result1, result2} \subseteq SK_DEC_ERR_OFLOW .. SK_PAYLOAD_MAX
  BY <1>2 DEF SyncInit
<1>4. out1 \in Seq(Byte) /\ out2 \in Seq(Byte) /\ heard \in Nat
  BY DEF SyncInit
<1>5. {together, flags} \subseteq BOOLEAN /\ ~flags
  BY Zenon DEF SyncInit
<1> QED
  BY <1>1, <1>3, <1>4, <1>5 DEF SyncInv, SyncTypeOK, Resynchronized

\* Noise on either decoder and bytes heard together preserve it.
LEMMA SyncInvNext == SyncInv /\ [SyncNext]_syncVars => SyncInv'
<1> SUFFICES ASSUME SyncInv, [SyncNext]_syncVars PROVE SyncInv'
  OBVIOUS
<1> USE DEF SyncInv
<1>1. ASSUME NEW byte \in Byte, NEW room \in Rooms, NoiseOne(byte, room)
      PROVE  SyncInv'
  <2>1. /\ DecoderOK(one')
        /\ result1' \in SK_DEC_ERR_OFLOW .. SK_PAYLOAD_MAX
        /\ out1' \in Seq(Byte)
    BY <1>1, CallTyped DEF NoiseOne, SyncTypeOK
  <2>2. ~flags'
    BY <1>1 DEF NoiseOne, SyncTypeOK
  <2> QED
    BY <1>1, <2>1, <2>2 DEF NoiseOne, SyncTypeOK, Resynchronized, DecoderOK
<1>2. ASSUME NEW byte \in Byte, NEW room \in Rooms, NoiseTwo(byte, room)
      PROVE  SyncInv'
  <2>1. /\ DecoderOK(two')
        /\ result2' \in SK_DEC_ERR_OFLOW .. SK_PAYLOAD_MAX
        /\ out2' \in Seq(Byte)
    BY <1>2, CallTyped DEF NoiseTwo, SyncTypeOK
  <2>2. ~flags'
    BY <1>2 DEF NoiseTwo, SyncTypeOK
  <2> QED
    BY <1>2, <2>1, <2>2 DEF NoiseTwo, SyncTypeOK, Resynchronized, DecoderOK
<1>3. ASSUME NEW byte \in Byte, NEW room \in Rooms, Together(byte, room)
      PROVE  SyncInv'
  <2>1. /\ DecoderOK(one') /\ DecoderOK(two')
        /\ {result1', result2'} \subseteq SK_DEC_ERR_OFLOW .. SK_PAYLOAD_MAX
        /\ out1' \in Seq(Byte) /\ out2' \in Seq(Byte)
    BY <1>3, CallTyped DEF Together, SyncTypeOK
  <2>2. heard' \in Nat /\ {together', flags'} \subseteq BOOLEAN /\ together'
    BY <1>3 DEF Together, SyncTypeOK
  <2>3. ASSUME flags' PROVE one' = two'
    <3>1. CASE flags
      BY <1>3, <3>1 DEF Together, Resynchronized
    <3>2. CASE byte = SK_FLAG
      BY <1>3, <3>2, FlagForgets DEF Together
    <3> QED
      BY <1>3, <2>3, <3>1, <3>2 DEF Together
  <2> QED
    BY <2>1, <2>2, <2>3 DEF SyncTypeOK, Resynchronized
<1>4. CASE UNCHANGED syncVars
  BY <1>4 DEF SyncTypeOK, Resynchronized, DecoderOK, syncVars
<1> QED
  BY <1>1, <1>2, <1>3, <1>4 DEF SyncNext

\* Both contexts, verdicts and deliveries keep their types, and a common FLAG
\* is heard only once they hear the same bytes.
THEOREM SyncTypeCorrect == SyncSpec => []SyncTypeOK
<1>1. SyncInv => SyncTypeOK
  BY DEF SyncInv
<1> QED
  BY <1>1, SyncInvInit, SyncInvNext, PTL DEF SyncSpec

\* sk_decoder_feed resynchronizes on the next FLAG, whatever the two
\* decoders went through before it (protocol.h:139-140).
THEOREM DecodersResynchronize == SyncSpec => []Resynchronized
<1>1. SyncInv => Resynchronized
  BY DEF SyncInv
<1> QED
  BY <1>1, SyncInvInit, SyncInvNext, PTL DEF SyncSpec

\* From a common FLAG on, sk_decoder_feed returns and delivers the same on
\* both decoders for ever.
THEOREM DecodersAgree == SyncSpec => SameVerdicts
<1>1. SyncInv /\ [SyncNext]_syncVars => (flags => result1' = result2' /\ out1' = out2')
          \/ UNCHANGED syncVars
  <2> SUFFICES ASSUME SyncInv, SyncNext, flags
               PROVE  result1' = result2' /\ out1' = out2'
    OBVIOUS
  <2>1. one = two /\ together
    BY DEF SyncInv, Resynchronized, SyncTypeOK
  <2> QED
    BY <2>1 DEF SyncNext, NoiseOne, NoiseTwo, Together
<1>2. SyncInv /\ [SyncNext]_syncVars =>
          [flags => result1' = result2' /\ out1' = out2']_syncVars
  BY <1>1
<1> QED
  BY <1>2, SyncInvInit, SyncInvNext, PTL DEF SyncSpec, SameVerdicts
=============================================================================
