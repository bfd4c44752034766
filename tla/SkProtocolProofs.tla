-------------------------- MODULE SkProtocolProofs --------------------------
(***************************************************************************)
(* What the proofs about the modules built from SkProtocol rest on, for    *)
(* every alphabet, every CRC and all payload lengths: induction and        *)
(* recursion over the bytes of a frame, what one call of sk_decoder_feed   *)
(* does to a context, what stuffing puts on the wire, and what a decoder   *)
(* makes of it.                                                            *)
(***************************************************************************)
EXTENDS SkProtocol, SequenceTheorems, WellFoundedInduction, TLAPS

-----------------------------------------------------------------------------
(* Induction, and functions defined by recursion.  The library's theorems  *)
(* take the induction hypothesis as an operator, which the provers cannot  *)
(* instantiate; here it is a set, or a function's values.                  *)

\* What holds of 0, and of n + 1 whenever it holds of n, holds of every n.
LEMMA NatSetInduction ==
  ASSUME NEW S, 0 \in S, \A n \in Nat : n \in S => n + 1 \in S
  PROVE  Nat \subseteq S
<1>1. SUFFICES ASSUME NEW T, T = Nat \ S, T # {} PROVE FALSE
  OBVIOUS
<1>2. PICK x \in T : \A y \in T : ~(<<y, x>> \in OpToRel(<, Nat))
  BY <1>1, NatLessThanWellFounded, WFMin
<1>3. x \in Nat \ {0} /\ x \notin S
  BY <1>1, <1>2
<1>4. x - 1 \in Nat /\ x - 1 \notin S
  BY <1>3
<1>5. <<x - 1, x>> \in Nat \X Nat /\ x - 1 < x
  BY <1>3
<1>6. <<x - 1, x>> \in OpToRel(<, Nat)
  BY <1>5 DEF OpToRel
<1>. QED
  BY <1>1, <1>2, <1>4, <1>6

\* The same up to a bound.
LEMMA UpTo ==
  ASSUME NEW n \in Nat, NEW S, 0 \in S, \A k \in 1 .. n : k - 1 \in S => k \in S
  PROVE  0 .. n \subseteq S
<1> DEFINE T == {k \in Nat : k <= n => k \in S}
<1>1. 0 \in T
  OBVIOUS
<1>2. ASSUME NEW k \in Nat, k \in T PROVE k + 1 \in T
  <2>1. ASSUME k + 1 <= n PROVE k + 1 \in S
    <3>1. k + 1 \in 1 .. n /\ (k + 1) - 1 = k /\ k \in S
      BY <1>2, <2>1
    <3> QED
      BY <3>1
  <2> QED
    BY <2>1
<1> HIDE DEF T
<1>3. Nat \subseteq T
  BY <1>1, <1>2, NatSetInduction
<1> QED
  BY <1>3 DEF T

\* f is defined by recursion over 0 .. n, from c by step.
Recursive(f, n, c, step) ==
    f = [k \in 0 .. n |-> IF k = 0 THEN c ELSE step[k][f[k - 1]]]

\* There is such a function, and it takes its values where step does.
LEMMA RecursionExists ==
  ASSUME NEW V, NEW c \in V, NEW step \in [Nat -> [V -> V]], NEW n \in Nat
  PROVE  \E f \in [0 .. n -> V] : Recursive(f, n, c, step)
<1> DEFINE S == {m \in Nat : \E f \in [0 .. m -> V] : Recursive(f, m, c, step)}
<1>1. 0 \in S
  <2> DEFINE f == [k \in 0 .. 0 |-> c]
  <2>1. f \in [0 .. 0 -> V]
    OBVIOUS
  <2>2. f = [k \in 0 .. 0 |-> IF k = 0 THEN c ELSE step[k][f[k - 1]]]
    OBVIOUS
  <2> HIDE DEF f
  <2> QED
    BY <2>1, <2>2 DEF Recursive
<1>2. ASSUME NEW m \in Nat, m \in S PROVE m + 1 \in S
  <2>1. PICK f \in [0 .. m -> V] : Recursive(f, m, c, step)
    BY <1>2
  <2>2. m \in 0 .. m /\ f[m] \in V
    BY <2>1
  <2>3. step[m + 1][f[m]] \in V
    BY <2>2
  <2> DEFINE g == [k \in 0 .. m + 1 |-> IF k = m + 1 THEN step[m + 1][f[m]] ELSE f[k]]
  <2>4. /\ g[m + 1] = step[m + 1][f[m]]
        /\ \A k \in 0 .. m : g[k] = f[k]
    OBVIOUS
  <2>5. g \in [0 .. m + 1 -> V]
    BY <2>1, <2>3
  <2> HIDE DEF g
  <2>6. ASSUME NEW k \in 0 .. m + 1
        PROVE  g[k] = IF k = 0 THEN c ELSE step[k][g[k - 1]]
    <3>1. CASE k = m + 1
      <4>1. k # 0 /\ k - 1 = m /\ g[k - 1] = f[m]
        BY <2>2, <2>4, <3>1
      <4> QED
        BY <2>4, <3>1, <4>1
    <3>2. CASE k \in 0 .. m
      <4>1. g[k] = f[k] /\ (k # 0 => g[k - 1] = f[k - 1])
        BY <2>4, <3>2
      <4>2. f[k] = IF k = 0 THEN c ELSE step[k][f[k - 1]]
        BY <2>1, <3>2 DEF Recursive
      <4> QED
        BY <4>1, <4>2
    <3> QED
      BY <3>1, <3>2
  <2>7. g = [k \in 0 .. m + 1 |-> IF k = 0 THEN c ELSE step[k][g[k - 1]]]
    BY <2>5, <2>6
  <2>8. Recursive(g, m + 1, c, step)
    BY <2>7 DEF Recursive
  <2> QED
    BY <2>5, <2>8
<1> HIDE DEF S
<1>3. n \in S
  BY <1>1, <1>2, NatSetInduction
<1> QED
  BY <1>3 DEF S

-----------------------------------------------------------------------------
(* One call of sk_decoder_feed. *)

\* The context sk_decoder_init leaves behind is a legal one.
LEMMA InitOK == DecoderOK(sk_decoder_init)
BY LengthAssumption
   DEF DecoderOK, sk_decoder_init, sk_decoder_t, Bit, SK_FRAME_INNER, SK_CRC_LEN

\* Storing a byte, unescaped or not, appends it or marks the overflow of a
\* buffer that is full.
LEMMA StoreByteOK ==
  ASSUME NEW d, DecoderOK(d), d.in_frame = 1, NEW byte \in Byte
  PROVE  DecoderOK(StoreByte(d, byte))
<1> DEFINE b == IF d.esc = 1 THEN EscXor(byte) ELSE byte
<1>1. b \in Byte
  BY ByteAssumption
<1>2. SK_FRAME_INNER \in Nat
  BY LengthAssumption DEF SK_FRAME_INNER, SK_CRC_LEN
<1>3. d.buf \in Seq(Byte) /\ d.overflow \in Bit /\ d.in_frame \in Bit
  BY DEF DecoderOK, sk_decoder_t
<1>4. CASE Len(d.buf) < SK_FRAME_INNER
  <2>1. StoreByte(d, byte) = [in_frame |-> 1, esc |-> 0,
                              overflow |-> d.overflow, buf |-> Append(d.buf, b)]
    BY <1>4 DEF StoreByte
  <2>2. d.overflow # 1
    BY <1>2, <1>4 DEF DecoderOK
  <2> HIDE DEF b
  <2>3. Append(d.buf, b) \in Seq(Byte) /\ Len(Append(d.buf, b)) = Len(d.buf) + 1
    BY <1>1, <1>3
  <2>4. StoreByte(d, byte) \in sk_decoder_t
    BY <1>3, <2>1, <2>3 DEF sk_decoder_t, Bit
  <2> QED
    BY <1>2, <1>3, <1>4, <2>1, <2>2, <2>3, <2>4 DEF DecoderOK
<1>5. CASE ~(Len(d.buf) < SK_FRAME_INNER)
  <2>1. StoreByte(d, byte) = [in_frame |-> 1, esc |-> 0, overflow |-> 1, buf |-> d.buf]
    BY <1>5 DEF StoreByte
  <2>2. Len(d.buf) = SK_FRAME_INNER
    BY <1>2, <1>3, <1>5 DEF DecoderOK
  <2>3. StoreByte(d, byte) \in sk_decoder_t
    BY <1>3, <2>1 DEF sk_decoder_t, Bit
  <2> QED
    BY <2>1, <2>2, <2>3 DEF DecoderOK
<1> QED
  BY <1>4, <1>5

\* One call of sk_decoder_feed leaves the context in a legal state.
LEMMA FeedStateOK ==
  ASSUME NEW d, DecoderOK(d), NEW byte \in Byte
  PROVE  DecoderOK(FeedState(d, byte))
<1>1. d.in_frame \in Bit
  BY DEF DecoderOK, sk_decoder_t
<1>2. CASE byte = SK_FLAG
  <2>1. FeedState(d, byte) = NewFrame(d)
    BY <1>2 DEF FeedState, SK_FLAG, SK_ESC
  <2> QED
    BY <2>1, LengthAssumption
       DEF NewFrame, DecoderOK, sk_decoder_t, Bit, SK_FRAME_INNER, SK_CRC_LEN
<1>3. CASE byte # SK_FLAG /\ d.in_frame = 0
  BY <1>3 DEF FeedState, SK_FLAG, SK_ESC
<1>4. CASE byte = SK_ESC /\ d.in_frame = 1
  <2>1. FeedState(d, byte) = [d EXCEPT !.esc = 1]
    BY <1>4 DEF FeedState, SK_FLAG, SK_ESC
  <2>2. FeedState(d, byte) = [in_frame |-> d.in_frame, esc |-> 1,
                              overflow |-> d.overflow, buf |-> d.buf]
    BY <2>1 DEF DecoderOK, sk_decoder_t
  <2>3. FeedState(d, byte) \in sk_decoder_t
    BY <2>2 DEF DecoderOK, sk_decoder_t, Bit
  <2> QED
    BY <1>4, <2>2, <2>3 DEF DecoderOK
<1>5. CASE byte \notin {SK_FLAG, SK_ESC} /\ d.in_frame = 1
  <2>1. FeedState(d, byte) = StoreByte(d, byte)
    BY <1>5 DEF FeedState
  <2> QED
    BY <1>5, <2>1, StoreByteOK
<1> QED
  BY <1>1, <1>2, <1>3, <1>4, <1>5 DEF Bit

\* A positive verdict is the number of buffered bytes before the CRC and
\* fits the caller's room; every other verdict is zero or an error code.
LEMMA FeedResultOK ==
  ASSUME NEW d, DecoderOK(d), NEW byte \in Byte, NEW room \in Nat
  PROVE  /\ FeedResult(d, byte, room) \in SK_DEC_ERR_OFLOW .. SK_PAYLOAD_MAX
         /\ FeedResult(d, byte, room) > 0 =>
               /\ FeedResult(d, byte, room) = Len(d.buf) - SK_CRC_LEN
               /\ FeedResult(d, byte, room) <= room
<1> DEFINE r == FeedResult(d, byte, room)
<1>1. Len(d.buf) \in Nat /\ Len(d.buf) <= SK_PAYLOAD_MAX + SK_CRC_LEN
  BY DEF DecoderOK, sk_decoder_t, SK_FRAME_INNER
<1>2. \/ r \in {SK_DEC_MORE, SK_DEC_ERR_OFLOW, SK_DEC_ERR_LEN, SK_DEC_ERR_CRC}
      \/ r = Len(d.buf) - SK_CRC_LEN /\ r <= room
  <2>1. CASE byte = SK_FLAG /\ d.in_frame = 1 /\ d.buf # <<>>
    <3>1. r = decoder_finish(d, room)
      BY <2>1 DEF FeedResult
    <3>2. d.overflow \in Bit
      BY DEF DecoderOK, sk_decoder_t
    <3>3. CASE d.overflow = 1 \/ Len(d.buf) > SK_FRAME_INNER
      BY <3>1, <3>3 DEF decoder_finish
    <3>4. CASE d.overflow = 0 /\ Len(d.buf) <= SK_FRAME_INNER
      BY <1>1, <3>1, <3>4, LengthAssumption
         DEF decoder_finish, SK_FRAME_INNER, SK_CRC_LEN
    <3> QED
      BY <1>1, <3>2, <3>3, <3>4, LengthAssumption
         DEF Bit, SK_FRAME_INNER, SK_CRC_LEN
  <2>2. CASE ~(byte = SK_FLAG /\ d.in_frame = 1 /\ d.buf # <<>>)
    BY <2>2 DEF FeedResult
  <2> QED
    BY <2>1, <2>2
<1> HIDE DEF r
<1>3. /\ r \in SK_DEC_ERR_OFLOW .. SK_PAYLOAD_MAX
      /\ r > 0 => r = Len(d.buf) - SK_CRC_LEN /\ r <= room
  <2>1. CASE r \in {SK_DEC_MORE, SK_DEC_ERR_OFLOW, SK_DEC_ERR_LEN, SK_DEC_ERR_CRC}
    BY <2>1, LengthAssumption
       DEF SK_DEC_MORE, SK_DEC_ERR_OFLOW, SK_DEC_ERR_LEN, SK_DEC_ERR_CRC
  <2>2. CASE r = Len(d.buf) - SK_CRC_LEN /\ r <= room
    BY <1>1, <2>2, LengthAssumption DEF SK_DEC_ERR_OFLOW, SK_CRC_LEN
  <2> QED
    BY <1>2, <2>1, <2>2
<1> QED
  BY <1>3 DEF r

\* What is delivered is as long as the verdict says and fits the room.
LEMMA FeedOutOK ==
  ASSUME NEW d, DecoderOK(d), NEW byte \in Byte, NEW room \in Nat
  PROVE  LET r == FeedResult(d, byte, room)
             o == FeedOut(d, byte, room)
         IN  /\ o \in Seq(Byte)
             /\ Len(o) = IF r > 0 THEN r ELSE 0
             /\ Len(o) <= room
<1> DEFINE r == FeedResult(d, byte, room)
           o == FeedOut(d, byte, room)
<1>1. /\ r \in SK_DEC_ERR_OFLOW .. SK_PAYLOAD_MAX
      /\ r > 0 => r = Len(d.buf) - SK_CRC_LEN /\ r <= room
  BY FeedResultOK
<1>2. d.buf \in Seq(Byte)
  BY DEF DecoderOK, sk_decoder_t
<1>3. o = IF r > 0 THEN SubSeq(d.buf, 1, r) ELSE <<>>
  BY DEF FeedOut
<1> HIDE DEF r, o
<1>4. r \in Int
  BY <1>1, LengthAssumption DEF SK_DEC_ERR_OFLOW
<1>5. CASE r > 0
  <2>1. r <= Len(d.buf) /\ r \in Nat
    BY <1>1, <1>2, <1>4, <1>5 DEF SK_CRC_LEN
  <2>2. SubSeq(d.buf, 1, r) \in Seq(Byte) /\ Len(SubSeq(d.buf, 1, r)) = r
    BY <1>2, <1>5, <2>1
  <2> QED
    BY <1>1, <1>3, <1>5, <2>2 DEF r, o
<1>6. CASE ~(r > 0)
  <2>1. o = <<>> /\ Len(o) = 0 /\ o \in Seq(Byte)
    BY <1>3, <1>6
  <2> QED
    BY <1>6, <2>1 DEF r, o
<1> QED
  BY <1>5, <1>6

-----------------------------------------------------------------------------
(***************************************************************************)
(* How a byte of the wire relates to the data it carries.  o[k] is the     *)
(* number of data bytes complete after w[k]: an ordinary byte completes    *)
(* one, an ESC none, and the byte after an ESC one again, toggled.         *)
(***************************************************************************)
Special == {SK_FLAG, SK_ESC}

Plain(w, o, data, k) ==
    /\ w[k] \notin Special /\ w[k - 1] # SK_ESC
    /\ o[k] = o[k - 1] + 1 /\ data[o[k]] = w[k]

Escape(w, o, k) ==
    w[k] = SK_ESC /\ w[k - 1] # SK_ESC /\ o[k] = o[k - 1]

Escaped(w, o, data, k) ==
    /\ w[k] \notin Special /\ w[k - 1] = SK_ESC
    /\ o[k] = o[k - 1] + 1 /\ data[o[k]] = EscXor(w[k])

Cell(w, o, data, k) ==
    Plain(w, o, data, k) \/ Escape(w, o, k) \/ Escaped(w, o, data, k)

\* The first n bytes of w are a FLAG and the first j bytes of data, stuffed.
Carries(w, o, data, n, j) ==
    /\ n \in 1 .. Len(w) /\ Len(o) = Len(w)
    /\ w[1] = SK_FLAG /\ o[1] = 0
    /\ \A k \in 1 .. n : o[k] \in 0 .. j
    /\ \A k \in 2 .. n : Cell(w, o, data, k)
    /\ w[n] # SK_ESC /\ o[n] = j

\* The decoder after the part of a frame that ends at position k.
Heard(w, o, data, k) ==
    [in_frame |-> 1,
     esc      |-> IF w[k] = SK_ESC THEN 1 ELSE 0,
     overflow |-> 0,
     buf      |-> SubSeq(data, 1, o[k])]

-----------------------------------------------------------------------------
(* Facts about the data and its prefixes. *)

\* What sk_frame_encode stuffs: the payload, then the two bytes of its CRC.
LEMMA InnerOK ==
  ASSUME NEW p \in Seq(Byte), LegalLength(p), Crc(p) \in Byte \X Byte
  PROVE  LET data == Inner(p)
         IN  /\ p \in Seq(Byte) /\ Len(p) \in SK_PAYLOAD_MIN .. SK_PAYLOAD_MAX
             /\ data \in Seq(Byte)
             /\ Len(data) = Len(p) + SK_CRC_LEN
             /\ SubSeq(data, 1, Len(p)) = p
             /\ <<data[Len(p) + 1], data[Len(p) + 2]>> = Crc(p)
<1> DEFINE data == Inner(p)
<1>1. p \in Seq(Byte) /\ Crc(p) \in Byte \X Byte
  OBVIOUS
<1>2. PICK a \in Byte, b \in Byte : Crc(p) = <<a, b>>
  BY <1>1
<1>3. <<a, b>> \in Seq(Byte) /\ Len(<<a, b>>) = 2
  OBVIOUS
<1>4. data = p \o <<a, b>>
  BY <1>2 DEF Inner
<1>5. Len(p) \in Nat /\ Len(p) >= 1
  BY LengthAssumption DEF LegalLength
<1> HIDE DEF data
<1>6. /\ data \in Seq(Byte) /\ Len(data) = Len(p) + 2
      /\ data[Len(p) + 1] = a /\ data[Len(p) + 2] = b
  BY <1>1, <1>3, <1>4, <1>5
<1>7. SubSeq(data, 1, Len(p)) = p
  BY <1>1, <1>3, <1>4, <1>5, SubSeqOfConcat1, SubSeqFull
<1> QED
  BY <1>1, <1>2, <1>6, <1>7 DEF data, LegalLength, SK_CRC_LEN

\* A stored byte extends the prefix the decoder has.
LEMMA PrefixStep ==
  ASSUME NEW data \in Seq(Byte), NEW o \in Nat, o < Len(data)
  PROVE  /\ Append(SubSeq(data, 1, o), data[o + 1]) = SubSeq(data, 1, o + 1)
         /\ Len(SubSeq(data, 1, o)) = o
<1>1. SubSeq(data, 1, o + 1) = SubSeq(data, 1, (o + 1) - 1) \o <<data[o + 1]>>
  BY SubSeqRecursiveSecond
<1>2. (o + 1) - 1 = o
  OBVIOUS
<1>3. SubSeq(data, 1, o) \in Seq(Byte) /\ Len(SubSeq(data, 1, o)) = o
  OBVIOUS
<1>4. data[o + 1] \in Byte
  OBVIOUS
<1> QED
  BY <1>1, <1>2, <1>3, <1>4, AppendIsConcat

\* Escaping twice gives FLAG and ESC back, and never yields either of them.
LEMMA EscapeIsUndone ==
  ASSUME NEW b \in Byte, NeedsEscape(b)
  PROVE  EscXor(b) \in Byte \ Special /\ EscXor(EscXor(b)) = b
<1>1. CASE b = 126
  <2>1. EscXor(126) = 94 /\ EscXor(94) = 126
    BY DEF EscXor
  <2> QED
    BY <1>1, <2>1, ByteAssumption DEF Special, SK_FLAG, SK_ESC
<1>2. CASE b = 125
  <2>1. EscXor(125) = 93 /\ EscXor(93) = 125
    BY DEF EscXor
  <2> QED
    BY <1>2, <2>1, ByteAssumption DEF Special, SK_FLAG, SK_ESC
<1> QED
  BY <1>1, <1>2 DEF NeedsEscape, SK_FLAG, SK_ESC

-----------------------------------------------------------------------------
(* What the encoder's loop does to the wire. *)

\* The opening FLAG carries nothing yet.
LEMMA OpeningCarries ==
  ASSUME NEW data
  PROVE  Carries(<<SK_FLAG>>, <<0>>, data, 1, 0)
BY DEF Carries, SK_FLAG, SK_ESC

\* An ordinary byte is sent as it is.
LEMMA PlainCarries ==
  ASSUME NEW w \in Seq(Byte), NEW o \in Seq(Nat), NEW data, NEW j \in Nat,
         Carries(w, o, data, Len(w), j),
         data[j + 1] \in Byte, ~NeedsEscape(data[j + 1])
  PROVE  Carries(w \o <<data[j + 1]>>, o \o <<j + 1>>, data, Len(w) + 1, j + 1)
<1> DEFINE w2 == w \o <<data[j + 1]>>
           o2 == o \o <<j + 1>>
           n  == Len(w)
<1>1. n \in Nat /\ n >= 1 /\ Len(o) = n
  BY DEF Carries
<1>2. /\ Len(w2) = n + 1 /\ w2[n + 1] = data[j + 1]
      /\ \A k \in 1 .. n : w2[k] = w[k]
  BY <1>1
<1>3. /\ Len(o2) = n + 1 /\ o2[n + 1] = j + 1
      /\ \A k \in 1 .. n : o2[k] = o[k]
  BY <1>1
<1> HIDE DEF w2, o2, n
<1>4. w[n] # SK_ESC /\ o[n] = j
  BY DEF Carries, n
<1>5. Plain(w2, o2, data, n + 1)
  BY <1>1, <1>2, <1>3, <1>4 DEF Plain, NeedsEscape, Special
<1>6. ASSUME NEW k \in 2 .. n PROVE Cell(w2, o2, data, k)
  <2>1. Cell(w, o, data, k)
    BY <1>6 DEF Carries, n
  <2>2. k \in 1 .. n /\ k - 1 \in 1 .. n
    BY <1>1, <1>6
  <2>3. w2[k] = w[k] /\ w2[k - 1] = w[k - 1] /\ o2[k] = o[k] /\ o2[k - 1] = o[k - 1]
    BY <1>2, <1>3, <2>2
  <2> QED
    BY <2>1, <2>3 DEF Cell, Plain, Escape, Escaped
<1>7. \A k \in 2 .. n + 1 : Cell(w2, o2, data, k)
  BY <1>1, <1>5, <1>6 DEF Cell
<1>8. \A k \in 1 .. n + 1 : o2[k] \in 0 .. j + 1
  <2>1. ASSUME NEW k \in 1 .. n PROVE o2[k] \in 0 .. j + 1
    <3>1. o2[k] = o[k] /\ o[k] \in 0 .. j
      BY <1>3, <2>1 DEF Carries, n
    <3> QED
      BY <3>1
  <2>2. o2[n + 1] \in 0 .. j + 1
    BY <1>3
  <2>3. \A k \in 1 .. n + 1 : k \in 1 .. n \/ k = n + 1
    BY <1>1
  <2> QED
    BY <2>1, <2>2, <2>3
<1>9. w2[1] = SK_FLAG /\ o2[1] = 0
  BY <1>1, <1>2, <1>3 DEF Carries
<1>10. w2[n + 1] # SK_ESC
  BY <1>2 DEF NeedsEscape
<1> QED
  BY <1>1, <1>2, <1>3, <1>7, <1>8, <1>9, <1>10 DEF Carries, w2, o2, n

\* FLAG and ESC are sent as ESC and the toggled byte.
LEMMA EscapedCarries ==
  ASSUME NEW w \in Seq(Byte), NEW o \in Seq(Nat), NEW data, NEW j \in Nat,
         Carries(w, o, data, Len(w), j),
         data[j + 1] \in Byte, NeedsEscape(data[j + 1])
  PROVE  Carries(w \o <<SK_ESC, EscXor(data[j + 1])>>, o \o <<j, j + 1>>,
                 data, Len(w) + 2, j + 1)
<1> DEFINE x  == EscXor(data[j + 1])
           w2 == w \o <<SK_ESC, x>>
           o2 == o \o <<j, j + 1>>
           n  == Len(w)
<1>1. n \in Nat /\ n >= 1 /\ Len(o) = n
  BY DEF Carries
<1>2. x \in Byte \ Special /\ EscXor(x) = data[j + 1]
  BY EscapeIsUndone
<1> HIDE DEF x
<1>3. /\ Len(w2) = n + 2 /\ w2[n + 1] = SK_ESC /\ w2[n + 2] = x
      /\ \A k \in 1 .. n : w2[k] = w[k]
  BY <1>1, <1>2, ByteAssumption
<1>4. /\ Len(o2) = n + 2 /\ o2[n + 1] = j /\ o2[n + 2] = j + 1
      /\ \A k \in 1 .. n : o2[k] = o[k]
  BY <1>1
<1> HIDE DEF w2, o2, n
<1>5. w[n] # SK_ESC /\ o[n] = j
  BY DEF Carries, n
<1>6. Escape(w2, o2, n + 1)
  BY <1>1, <1>3, <1>4, <1>5 DEF Escape
<1>7. Escaped(w2, o2, data, n + 2)
  <2>1. (n + 2) - 1 = n + 1
    BY <1>1
  <2> QED
    BY <1>2, <1>3, <1>4, <2>1 DEF Escaped
<1>8. ASSUME NEW k \in 2 .. n PROVE Cell(w2, o2, data, k)
  <2>1. Cell(w, o, data, k)
    BY <1>8 DEF Carries, n
  <2>2. k \in 1 .. n /\ k - 1 \in 1 .. n
    BY <1>1, <1>8
  <2>3. w2[k] = w[k] /\ w2[k - 1] = w[k - 1] /\ o2[k] = o[k] /\ o2[k - 1] = o[k - 1]
    BY <1>3, <1>4, <2>2
  <2> QED
    BY <2>1, <2>3 DEF Cell, Plain, Escape, Escaped
<1>9. \A k \in 2 .. n + 2 : Cell(w2, o2, data, k)
  BY <1>1, <1>6, <1>7, <1>8 DEF Cell
<1>10. \A k \in 1 .. n + 2 : o2[k] \in 0 .. j + 1
  <2>1. ASSUME NEW k \in 1 .. n PROVE o2[k] \in 0 .. j + 1
    <3>1. o2[k] = o[k] /\ o[k] \in 0 .. j
      BY <1>4, <2>1 DEF Carries, n
    <3> QED
      BY <3>1
  <2>2. o2[n + 1] \in 0 .. j + 1 /\ o2[n + 2] \in 0 .. j + 1
    BY <1>4
  <2>3. \A k \in 1 .. n + 2 : k \in 1 .. n \/ k = n + 1 \/ k = n + 2
    BY <1>1
  <2> QED
    BY <2>1, <2>2, <2>3
<1>11. w2[1] = SK_FLAG /\ o2[1] = 0
  BY <1>1, <1>3, <1>4 DEF Carries
<1>12. w2[n + 2] # SK_ESC
  BY <1>2, <1>3 DEF Special
<1> QED
  BY <1>1, <1>3, <1>4, <1>9, <1>10, <1>11, <1>12 DEF Carries, w2, o2, n, x

\* The closing FLAG changes nothing of what comes before it.
LEMMA ClosingCarries ==
  ASSUME NEW w \in Seq(Byte), NEW o \in Seq(Nat), NEW data, NEW j \in Nat,
         Carries(w, o, data, Len(w), j)
  PROVE  /\ Carries(Append(w, SK_FLAG), Append(o, j), data, Len(w), j)
         /\ Append(w, SK_FLAG)[Len(w) + 1] = SK_FLAG
         /\ Len(Append(w, SK_FLAG)) = Len(w) + 1
<1> DEFINE w2 == Append(w, SK_FLAG)
           o2 == Append(o, j)
           n  == Len(w)
<1>1. n \in Nat /\ n >= 1 /\ Len(o) = n
  BY DEF Carries
<1>2. /\ Len(w2) = n + 1 /\ w2[n + 1] = SK_FLAG
      /\ \A k \in 1 .. n : w2[k] = w[k]
  BY <1>1, ByteAssumption
<1>3. Len(o2) = n + 1 /\ \A k \in 1 .. n : o2[k] = o[k]
  BY <1>1
<1> HIDE DEF w2, o2, n
<1>4. ASSUME NEW k \in 2 .. n PROVE Cell(w2, o2, data, k)
  <2>1. Cell(w, o, data, k)
    BY <1>4 DEF Carries, n
  <2>2. k \in 1 .. n /\ k - 1 \in 1 .. n
    BY <1>1, <1>4
  <2>3. w2[k] = w[k] /\ w2[k - 1] = w[k - 1] /\ o2[k] = o[k] /\ o2[k - 1] = o[k - 1]
    BY <1>2, <1>3, <2>2
  <2> QED
    BY <2>1, <2>3 DEF Cell, Plain, Escape, Escaped
<1>5. \A k \in 1 .. n : o2[k] \in 0 .. j
  BY <1>3 DEF Carries, n
<1>6. w2[1] = SK_FLAG /\ o2[1] = 0 /\ w2[n] # SK_ESC /\ o2[n] = j
  BY <1>1, <1>2, <1>3 DEF Carries, n
<1> QED
  BY <1>1, <1>2, <1>3, <1>4, <1>5, <1>6 DEF Carries, w2, o2, n

\* A stuffed byte is one byte or two.
LEMMA StuffedOK ==
  ASSUME NEW b \in Byte
  PROVE  Stuffed(b) \in Seq(Byte) /\ 1 <= Len(Stuffed(b)) /\ Len(Stuffed(b)) <= 2
<1>1. CASE NeedsEscape(b)
  <2>1. Stuffed(b) = <<SK_ESC, EscXor(b)>> /\ SK_ESC \in Byte /\ EscXor(b) \in Byte
    BY <1>1, ByteAssumption DEF Stuffed
  <2> QED
    BY <2>1
<1>2. CASE ~NeedsEscape(b)
  BY <1>2 DEF Stuffed
<1> QED
  BY <1>1, <1>2

\* The wire after the opening FLAG and the first k bytes of data.
Wire(data) ==
    CHOOSE f : f = [k \in 0 .. Len(data) |->
                       IF k = 0 THEN <<SK_FLAG>> ELSE f[k - 1] \o Stuffed(data[k])]

\* It is what that recursion says.
LEMMA WireGrows ==
  ASSUME NEW data \in Seq(Byte)
  PROVE  /\ Wire(data)[0] = <<SK_FLAG>>
         /\ \A k \in 1 .. Len(data) : Wire(data)[k] = Wire(data)[k - 1] \o Stuffed(data[k])
<1> DEFINE n == Len(data)
           Grown(f) == f = [k \in 0 .. n |->
                       IF k = 0 THEN <<SK_FLAG>> ELSE f[k - 1] \o Stuffed(data[k])]
           add == [k \in Nat |-> [w \in Seq(Byte) |->
                       IF k \in 1 .. n THEN w \o Stuffed(data[k]) ELSE w]]
<1>1. n \in Nat /\ <<SK_FLAG>> \in Seq(Byte)
  BY ByteAssumption
<1>2. ASSUME NEW k \in 1 .. n PROVE Stuffed(data[k]) \in Seq(Byte)
  <2>1. data[k] \in Byte
    OBVIOUS
  <2> QED
    BY <2>1, StuffedOK
<1>3. add \in [Nat -> [Seq(Byte) -> Seq(Byte)]]
  <2>1. ASSUME NEW k \in Nat, NEW w \in Seq(Byte)
        PROVE  (IF k \in 1 .. n THEN w \o Stuffed(data[k]) ELSE w) \in Seq(Byte)
    <3> HIDE DEF n
    <3>1. CASE k \in 1 .. n
      BY <1>2, <3>1
    <3> QED
      BY <3>1
  <2> HIDE DEF n
  <2> QED
    BY <2>1
<1>4. ASSUME NEW k \in 1 .. n, NEW w \in Seq(Byte)
      PROVE  add[k][w] = w \o Stuffed(data[k])
  <2> HIDE DEF n
  <2>1. k \in Nat
    BY <1>1
  <2> QED
    BY <2>1
<1> HIDE DEF add, n
<1>5. PICK f \in [0 .. n -> Seq(Byte)] : Recursive(f, n, <<SK_FLAG>>, add)
  BY <1>1, <1>3, RecursionExists
<1>6. Grown(f)
  <2>1. ASSUME NEW k \in 0 .. n
        PROVE  f[k] = IF k = 0 THEN <<SK_FLAG>> ELSE f[k - 1] \o Stuffed(data[k])
    <3>1. f[k] = IF k = 0 THEN <<SK_FLAG>> ELSE add[k][f[k - 1]]
      BY <1>5 DEF Recursive
    <3>2. CASE k = 0
      BY <3>1, <3>2
    <3>3. CASE k # 0
      <4>1. k \in 1 .. n /\ f[k - 1] \in Seq(Byte)
        BY <1>1, <3>3
      <4> QED
        BY <1>4, <3>1, <3>3, <4>1
    <3> QED
      BY <3>2, <3>3
  <2> QED
    BY <2>1
<1>7. Wire(data) = CHOOSE g : Grown(g)
  BY DEF Wire, n
<1>8. Grown(Wire(data))
  BY <1>6, <1>7
<1> QED
  BY <1>1, <1>8 DEF n

\* Encoded is the wire after all of the payload and its CRC, and a FLAG.
LEMMA EncodedIsWire ==
  ASSUME NEW p
  PROVE  Encoded(p) = Wire(Inner(p))[Len(Inner(p))] \o <<SK_FLAG>>
BY DEF Encoded, Wire

\* The first n bytes of the wire carry the first k bytes of data.
LEMMA WireCarries ==
  ASSUME NEW data \in Seq(Byte), NEW k \in 0 .. Len(data)
  PROVE  /\ Wire(data)[k] \in Seq(Byte)
         /\ \E o \in Seq(Nat) :
               Carries(Wire(data)[k], o, data, Len(Wire(data)[k]), k)
<1> DEFINE Good(m, o) == /\ Wire(data)[m] \in Seq(Byte)
                         /\ Carries(Wire(data)[m], o, data, Len(Wire(data)[m]), m)
           S == {m \in 0 .. Len(data) : \E o \in Seq(Nat) : Good(m, o)}
<1>1. Len(data) \in Nat
  OBVIOUS
<1>2. 0 \in S
  <2>1. Carries(<<SK_FLAG>>, <<0>>, data, 1, 0) /\ <<0>> \in Seq(Nat)
    BY OpeningCarries
  <2>2. <<SK_FLAG>> \in Seq(Byte) /\ Len(<<SK_FLAG>>) = 1
    BY ByteAssumption
  <2>3. PICK o \in Seq(Nat) : o = <<0>>
    BY <2>1
  <2>4. Good(0, o)
    BY <2>1, <2>2, <2>3, WireGrows
  <2> HIDE DEF Good
  <2> QED
    BY <1>1, <2>4
<1>3. ASSUME NEW m \in 1 .. Len(data), m - 1 \in S PROVE m \in S
  <2>1. PICK o \in Seq(Nat) : Good(m - 1, o)
    BY <1>3
  <2>2. PICK w \in Seq(Byte) : w = Wire(data)[m - 1] /\ Carries(w, o, data, Len(w), m - 1)
    BY <2>1
  <2>3. PICK j \in Nat : j = m - 1 /\ m = j + 1
    OBVIOUS
  <2>4. data[j + 1] \in Byte
    BY <2>3
  <2>5. Wire(data)[m] = w \o Stuffed(data[j + 1])
    BY <2>2, <2>3, WireGrows
  <2>6. CASE NeedsEscape(data[j + 1])
    <3>1. Wire(data)[m] = w \o <<SK_ESC, EscXor(data[j + 1])>>
      BY <2>5, <2>6 DEF Stuffed
    <3>2. Carries(Wire(data)[m], o \o <<j, j + 1>>, data, Len(w) + 2, m)
      BY <2>2, <2>3, <2>4, <2>6, <3>1, EscapedCarries
    <3>3. SK_ESC \in Byte /\ EscXor(data[j + 1]) \in Byte
      BY <2>4, ByteAssumption
    <3>4. Wire(data)[m] \in Seq(Byte) /\ Len(Wire(data)[m]) = Len(w) + 2
      BY <3>1, <3>3
    <3>5. PICK o2 \in Seq(Nat) : o2 = o \o <<j, j + 1>>
      <4>1. o \o <<j, j + 1>> \in Seq(Nat)
        OBVIOUS
      <4> QED
        BY <4>1
    <3>6. Good(m, o2)
      BY <3>2, <3>4, <3>5
    <3> HIDE DEF Good
    <3> QED
      BY <1>1, <3>6
  <2>7. CASE ~NeedsEscape(data[j + 1])
    <3>1. Wire(data)[m] = w \o <<data[j + 1]>>
      BY <2>5, <2>7 DEF Stuffed
    <3>2. Carries(Wire(data)[m], o \o <<j + 1>>, data, Len(w) + 1, m)
      BY <2>2, <2>3, <2>4, <2>7, <3>1, PlainCarries
    <3>3. Wire(data)[m] \in Seq(Byte) /\ Len(Wire(data)[m]) = Len(w) + 1
      BY <2>4, <3>1
    <3>4. PICK o2 \in Seq(Nat) : o2 = o \o <<j + 1>>
      <4>1. o \o <<j + 1>> \in Seq(Nat)
        OBVIOUS
      <4> QED
        BY <4>1
    <3>5. Good(m, o2)
      BY <3>2, <3>3, <3>4
    <3> HIDE DEF Good
    <3> QED
      BY <1>1, <3>5
  <2> QED
    BY <2>6, <2>7
<1> HIDE DEF S
<1>4. k \in S
  BY <1>1, <1>2, <1>3, UpTo
<1> QED
  BY <1>4 DEF S

\* A frame carries its payload and CRC up to the closing FLAG.
LEMMA EncodedCarries ==
  ASSUME NEW p, Inner(p) \in Seq(Byte)
  PROVE  /\ Encoded(p) \in Seq(Byte) /\ Len(Encoded(p)) >= 2
         /\ Encoded(p)[Len(Encoded(p))] = SK_FLAG
         /\ \E o : Carries(Encoded(p), o, Inner(p), Len(Encoded(p)) - 1, Len(Inner(p)))
<1> DEFINE data == Inner(p)
<1>1. Len(data) \in Nat /\ Len(data) \in 0 .. Len(data)
  OBVIOUS
<1>2. PICK w \in Seq(Byte), o \in Seq(Nat) :
          w = Wire(data)[Len(data)] /\ Carries(w, o, data, Len(w), Len(data))
  BY <1>1, WireCarries
<1>3. Encoded(p) = Append(w, SK_FLAG)
  BY <1>2, EncodedIsWire, AppendIsConcat, ByteAssumption
<1>4. /\ Carries(Append(w, SK_FLAG), Append(o, Len(data)), data, Len(w), Len(data))
      /\ Append(w, SK_FLAG)[Len(w) + 1] = SK_FLAG
      /\ Len(Append(w, SK_FLAG)) = Len(w) + 1
  BY <1>1, <1>2, ClosingCarries
<1>5. Len(w) \in Nat /\ Len(w) >= 1
  BY <1>2 DEF Carries
<1>6. Append(w, SK_FLAG) \in Seq(Byte) /\ (Len(w) + 1) - 1 = Len(w)
  BY <1>5, ByteAssumption
<1> HIDE DEF data
<1> QED
  BY <1>3, <1>4, <1>5, <1>6 DEF data

-----------------------------------------------------------------------------
(* What the decoder makes of it. *)

\* A byte that is no FLAG is never a verdict and delivers nothing.
LEMMA QuietByte ==
  ASSUME NEW d, NEW byte, byte # SK_FLAG, NEW room
  PROVE  /\ FeedResult(d, byte, room) = SK_DEC_MORE
         /\ FeedOut(d, byte, room) = <<>>
BY DEF FeedResult, FeedOut, SK_DEC_MORE

\* The decoder keeps in step with a frame, byte by byte.
LEMMA HearsNext ==
  ASSUME NEW w, NEW o, NEW data \in Seq(Byte), NEW n \in Nat, NEW k \in 2 .. n,
         Len(data) <= SK_FRAME_INNER,
         Carries(w, o, data, n, Len(data))
  PROVE  /\ w[k] # SK_FLAG
         /\ FeedState(Heard(w, o, data, k - 1), w[k]) = Heard(w, o, data, k)
<1> DEFINE d == Heard(w, o, data, k - 1)
<1>1. Cell(w, o, data, k)
  BY DEF Carries
<1>2. o[k - 1] \in Nat /\ o[k] \in 0 .. Len(data)
  <2>1. k - 1 \in 1 .. n /\ k \in 1 .. n
    OBVIOUS
  <2> QED
    BY <2>1 DEF Carries
<1>3. /\ d.in_frame = 1 /\ d.overflow = 0
      /\ d.esc = IF w[k - 1] = SK_ESC THEN 1 ELSE 0
      /\ d.buf = SubSeq(data, 1, o[k - 1])
  BY DEF Heard
<1>4. CASE Escape(w, o, k)
  <2>1. w[k] = SK_ESC /\ o[k] = o[k - 1]
    BY <1>4 DEF Escape
  <2>2. d \in sk_decoder_t
    <3>1. SubSeq(data, 1, o[k - 1]) \in Seq(Byte)
      BY <1>2, <2>1
    <3> QED
      BY <3>1 DEF Heard, sk_decoder_t, Bit
  <2>3. FeedState(d, w[k]) = [d EXCEPT !.esc = 1]
    BY <1>3, <2>1 DEF FeedState, SK_FLAG, SK_ESC
  <2> HIDE DEF d
  <2>4. FeedState(d, w[k]) = [in_frame |-> 1, esc |-> 1, overflow |-> 0,
                              buf |-> SubSeq(data, 1, o[k])]
    BY <1>3, <2>1, <2>2, <2>3 DEF sk_decoder_t
  <2> QED
    BY <2>1, <2>4 DEF Heard, SK_FLAG, SK_ESC, d
<1>5. ASSUME NEW b, w[k] \notin Special, o[k] = o[k - 1] + 1, data[o[k]] = b,
             b = IF d.esc = 1 THEN EscXor(w[k]) ELSE w[k]
      PROVE  /\ w[k] # SK_FLAG
             /\ FeedState(d, w[k]) = Heard(w, o, data, k)
  <2>1. o[k - 1] < Len(data)
    BY <1>2, <1>5
  <2>2. /\ Append(SubSeq(data, 1, o[k - 1]), b) = SubSeq(data, 1, o[k])
        /\ Len(SubSeq(data, 1, o[k - 1])) = o[k - 1]
    <3>1. PICK got \in Nat : got = o[k - 1]
      BY <1>2
    <3>2. got < Len(data)
      BY <2>1, <3>1
    <3>3. /\ Append(SubSeq(data, 1, got), data[got + 1]) = SubSeq(data, 1, got + 1)
          /\ Len(SubSeq(data, 1, got)) = got
      BY <3>2, PrefixStep
    <3>4. o[k] = got + 1 /\ data[got + 1] = b
      BY <1>5, <3>1
    <3> QED
      BY <3>1, <3>3, <3>4
  <2>3. SK_FRAME_INNER \in Nat
    BY LengthAssumption DEF SK_FRAME_INNER, SK_CRC_LEN
  <2>4. Len(d.buf) < SK_FRAME_INNER
    BY <1>2, <1>3, <2>1, <2>2, <2>3
  <2>5. FeedState(d, w[k]) = StoreByte(d, w[k])
    BY <1>3, <1>5 DEF FeedState, Special
  <2> HIDE DEF d
  <2>6. StoreByte(d, w[k]) = [in_frame |-> 1, esc |-> 0, overflow |-> 0,
                              buf |-> Append(d.buf, b)]
    BY <1>3, <1>5, <2>4 DEF StoreByte
  <2>7. w[k] # SK_ESC /\ w[k] # SK_FLAG
    BY <1>5 DEF Special
  <2> QED
    BY <1>3, <2>2, <2>5, <2>6, <2>7 DEF Heard
<1>6. CASE Plain(w, o, data, k)
  <2>1. w[k] = IF d.esc = 1 THEN EscXor(w[k]) ELSE w[k]
    BY <1>3, <1>6 DEF Plain
  <2> QED
    BY <1>5, <1>6, <2>1 DEF Plain
<1>7. CASE Escaped(w, o, data, k)
  <2>1. EscXor(w[k]) = IF d.esc = 1 THEN EscXor(w[k]) ELSE w[k]
    BY <1>3, <1>7 DEF Escaped
  <2> QED
    BY <1>5, <1>7, <2>1 DEF Escaped
<1>8. CASE Escape(w, o, k)
  BY <1>4, <1>8 DEF Escape, SK_FLAG, SK_ESC
<1> QED
  BY <1>1, <1>6, <1>7, <1>8 DEF Cell

\* The closing FLAG finds the whole frame in the buffer and delivers it.
LEMMA FlagDelivers ==
  ASSUME NEW p \in Seq(Byte), LegalLength(p), Crc(p) \in Byte \X Byte,
         NEW d, d.in_frame = 1, d.overflow = 0, d.buf = Inner(p)
  PROVE  /\ FeedResult(d, SK_FLAG, SK_PAYLOAD_MAX) = Len(p)
         /\ FeedOut(d, SK_FLAG, SK_PAYLOAD_MAX) = p
<1> DEFINE data == Inner(p)
<1>1. /\ p \in Seq(Byte) /\ Len(p) \in SK_PAYLOAD_MIN .. SK_PAYLOAD_MAX
      /\ data \in Seq(Byte) /\ Len(data) = Len(p) + 2
      /\ SubSeq(data, 1, Len(p)) = p
      /\ <<data[Len(p) + 1], data[Len(p) + 2]>> = Crc(p)
  BY InnerOK DEF SK_CRC_LEN
<1>2. Len(p) \in Nat /\ Len(p) >= 1 /\ Len(p) <= SK_PAYLOAD_MAX
      /\ SK_PAYLOAD_MAX \in Nat /\ SK_PAYLOAD_MIN \in Nat /\ Len(p) >= SK_PAYLOAD_MIN
  BY <1>1, LengthAssumption
<1> HIDE DEF data
<1>3. d.buf = data /\ data # <<>>
  BY <1>1, <1>2 DEF data
<1>4. FeedResult(d, SK_FLAG, SK_PAYLOAD_MAX) = decoder_finish(d, SK_PAYLOAD_MAX)
  BY <1>3 DEF FeedResult
<1>5. Len(data) - 2 = Len(p)
  BY <1>1, <1>2
<1>6. ~(Len(data) > SK_FRAME_INNER) /\ ~(Len(data) < SK_PAYLOAD_MIN + SK_CRC_LEN)
  BY <1>1, <1>2 DEF SK_FRAME_INNER, SK_CRC_LEN
<1>7. decoder_finish(d, SK_PAYLOAD_MAX) = Len(p)
  <2>1. decoder_finish(d, SK_PAYLOAD_MAX) =
          IF Crc(SubSeq(data, 1, Len(p))) # <<data[Len(p) + 1], data[Len(p) + 2]>>
          THEN SK_DEC_ERR_CRC
          ELSE IF SK_PAYLOAD_MAX < Len(p) THEN SK_DEC_ERR_LEN ELSE Len(p)
    BY <1>3, <1>5, <1>6 DEF decoder_finish, SK_CRC_LEN
  <2>2. Crc(SubSeq(data, 1, Len(p))) = <<data[Len(p) + 1], data[Len(p) + 2]>>
    BY <1>1
  <2> QED
    BY <1>2, <2>1, <2>2
<1> QED
  BY <1>1, <1>2, <1>3, <1>4, <1>7 DEF FeedOut
=============================================================================
