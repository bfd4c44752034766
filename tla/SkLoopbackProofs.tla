-------------------------- MODULE SkLoopbackProofs --------------------------
(***************************************************************************)
(* The framing layer end to end, for every alphabet, CRC, payload length,  *)
(* buffer size and noise: sk_frame_encode stays in its buffer and refuses  *)
(* no legal payload given SK_FRAME_MAX bytes, and sk_decoder_feed delivers *)
(* exactly the payload that was encoded.                                   *)
(***************************************************************************)
EXTENDS SkLoopback, SkProtocolProofs

(***************************************************************************)
(* The inductive invariant: the arguments and counters of the encoder, the *)
(* contents of the wire, and the decoder in step with it.                  *)
(***************************************************************************)
Accepted == pc \in {"stuff", "send", "sent"}
Framed   == pc \in {"send", "sent"}

EncoderInv ==
    /\ EncoderInBounds /\ FrameMaxSuffices
    /\ Accepted => payload \in Message /\ LegalLength(payload)
    /\ pc = "stuff" => /\ rc = 0 /\ sent = 0
                       /\ i \in 1 .. Len(inner) + 1
                       /\ Len(wire) <= 2 * i - 1
    /\ Framed => rc = Len(wire)
    /\ pc = "send" => sent < rc

WireInv ==
    /\ pc = "stuff" => /\ Carries(wire, org, inner, Len(wire), i - 1)
                       /\ wire = Wire(inner)[i - 1]
    /\ Framed => /\ Carries(wire, org, inner, Len(wire) - 1, Len(inner))
                 /\ wire[Len(wire)] = SK_FLAG
                 /\ wire = Encoded(payload)

BetweenFrames == pc # "send" \/ sent = 0

DecoderInv ==
    /\ pc = "send" /\ sent >= 1 => st = Heard(wire, org, inner, sent)
    /\ BetweenFrames /\ noise = 0 => st.buf = <<>>
    /\ RoundTrip /\ QuietFrame

LoopInv == TypeOK /\ EncoderInv /\ WireInv /\ DecoderInv

-----------------------------------------------------------------------------
(* The invariant is inductive: one lemma for every action. *)

\* A payload of a legal length and its CRC are what a frame can carry.
LEMMA MessageOK ==
  ASSUME NEW p \in Message, LegalLength(p)
  PROVE  /\ p \in Seq(Byte) /\ Crc(p) \in Byte \X Byte
         /\ Inner(p) \in Seq(Byte) /\ Len(Inner(p)) = Len(p) + SK_CRC_LEN
         /\ Len(p) \in SK_PAYLOAD_MIN .. SK_PAYLOAD_MAX
<1>1. p \in Seq(Byte) /\ Crc(p) \in Byte \X Byte
  BY MessageAssumption
<1> QED
  BY <1>1, InnerOK

\* Feeding any byte keeps the decoder's part of TypeOK.
LEMMA FeedTyped ==
  ASSUME DecoderOK(st), NEW byte \in Byte, Feed(byte)
  PROVE  /\ DecoderOK(st')
         /\ result' \in SK_DEC_ERR_OFLOW .. SK_PAYLOAD_MAX
         /\ out' \in Seq(Byte)
<1>1. SK_PAYLOAD_MAX \in Nat
  BY LengthAssumption
<1> QED
  BY <1>1, FeedStateOK, FeedResultOK, FeedOutOK DEF Feed

\* A fresh decoder and an encoder not called yet.
LEMMA LoopInvInit == Init => LoopInv
<1> SUFFICES ASSUME Init PROVE LoopInv
  OBVIOUS
<1>1. DecoderOK(st)
  BY InitOK DEF Init
<1>2. result \in SK_DEC_ERR_OFLOW .. SK_PAYLOAD_MAX
  BY LengthAssumption DEF Init, SK_DEC_MORE, SK_DEC_ERR_OFLOW
<1>3. TypeOK
  BY <1>1, <1>2 DEF Init, TypeOK
<1>4. EncoderInv
  BY DEF Init, EncoderInv, EncoderInBounds, FrameMaxSuffices, Accepted, Framed
<1>5. WireInv
  BY DEF Init, WireInv, Framed
<1>6. DecoderInv
  BY DEF Init, DecoderInv, RoundTrip, QuietFrame, sk_decoder_init
<1> QED
  BY <1>3, <1>4, <1>5, <1>6 DEF LoopInv

\* Noise: the encoder is not involved, and the decoder has no frame to keep
\* in step with.
LEMMA NoiseStep ==
  ASSUME LoopInv, NEW byte \in Byte, Noise(byte)
  PROVE  LoopInv'
<1> USE DEF LoopInv
<1>1. pc' = "idle" /\ UNCHANGED <<sent, payload, cap, i, wire, rc, org>>
  BY DEF Noise, encoder
<1>2. noise' \in Nat /\ noise' # 0
  BY DEF Noise, TypeOK
<1>3. TypeOK'
  <2>1. /\ DecoderOK(st)'
        /\ result' \in SK_DEC_ERR_OFLOW .. SK_PAYLOAD_MAX
        /\ out' \in Seq(Byte)
    BY FeedTyped DEF Noise, TypeOK, DecoderOK
  <2> QED
    BY <1>1, <1>2, <2>1 DEF TypeOK
<1>4. EncoderInv'
  BY <1>1 DEF EncoderInv, EncoderInBounds, FrameMaxSuffices, Accepted, Framed
<1>5. WireInv'
  BY <1>1 DEF WireInv, Framed
<1>6. DecoderInv'
  BY <1>1, <1>2 DEF DecoderInv, RoundTrip, QuietFrame
<1> QED
  BY <1>3, <1>4, <1>5, <1>6

\* Call: either refused for the length or for want of a single byte, or the
\* wire holds the opening FLAG.
LEMMA CallStep ==
  ASSUME LoopInv, NEW p \in Message, NEW room \in OutCaps, Call(p, room)
  PROVE  LoopInv'
<1> USE DEF LoopInv
<1>1. /\ payload' = p /\ cap' = room /\ i' = 1 /\ sent' = 0
      /\ UNCHANGED <<noise, st, result, out>>
  BY DEF Call, decoder
<1>2. room \in Nat
  BY MessageAssumption
<1>3. pc # "send"
  BY DEF Call, Idle
<1>4. noise = 0 => st'.buf = <<>>
  BY <1>1, <1>3 DEF DecoderInv, BetweenFrames
<1>5. CASE Refused(p, room)
  <2>1. pc' = "idle" /\ rc' = -1 /\ wire' = <<>> /\ org' = <<>>
    BY <1>5 DEF Call
  <2>2. TypeOK'
    BY <1>1, <1>2, <2>1 DEF TypeOK, DecoderOK
  <2>3. EncoderInv'
    <3>1. SK_FRAME_MAX \in Nat /\ SK_FRAME_MAX >= 1
      BY LengthAssumption DEF SK_FRAME_MAX, SK_FRAME_INNER, SK_CRC_LEN
    <3>2. ~LegalLength(p) \/ room < SK_FRAME_MAX
      BY <1>2, <1>5, <3>1 DEF Refused
    <3>3. FrameMaxSuffices'
      BY <1>1, <3>2 DEF FrameMaxSuffices
    <3>4. EncoderInBounds'
      BY <1>1, <1>2, <2>1 DEF EncoderInBounds
    <3> QED
      BY <2>1, <3>3, <3>4 DEF EncoderInv, Accepted, Framed
  <2>4. WireInv'
    BY <2>1 DEF WireInv, Framed
  <2>5. DecoderInv'
    BY <1>1, <1>4, <2>1 DEF DecoderInv, RoundTrip, QuietFrame
  <2> QED
    BY <2>2, <2>3, <2>4, <2>5
<1>6. CASE ~Refused(p, room)
  <2>1. /\ pc' = "stuff" /\ rc' = 0
        /\ wire' = <<SK_FLAG>> /\ org' = <<0>> /\ Len(wire') = 1
    BY <1>6 DEF Call
  <2>2. LegalLength(p) /\ room >= 1
    BY <1>2, <1>6 DEF Refused
  <2>3. TypeOK'
    <3>1. wire' \in Seq(Byte) /\ org' \in Seq(Nat)
      BY <2>1, ByteAssumption
    <3> QED
      BY <1>1, <1>2, <2>1, <3>1 DEF TypeOK, DecoderOK
  <2>4. EncoderInv'
    <3>1. inner' = Inner(p) /\ Len(Inner(p)) \in Nat
      BY <1>1, <2>2, MessageOK DEF inner
    <3>2. LegalLength(payload)'
      BY <1>1, <2>2 DEF LegalLength
    <3>3. EncoderInBounds' /\ FrameMaxSuffices'
      BY <1>1, <2>1, <2>2 DEF EncoderInBounds, FrameMaxSuffices
    <3>4. i' \in 1 .. Len(inner') + 1 /\ Len(wire') <= 2 * i' - 1
      BY <1>1, <2>1, <3>1
    <3> QED
      BY <1>1, <2>1, <3>2, <3>3, <3>4 DEF EncoderInv, Framed
  <2>5. WireInv'
    <3>1. Carries(wire', org', inner', 1, 0)
      BY <2>1, OpeningCarries
    <3>2. wire' = Wire(inner')[i' - 1]
      <4>1. inner' = Inner(p) /\ Inner(p) \in Seq(Byte)
        BY <1>1, <2>2, MessageOK DEF inner
      <4>2. i' - 1 = 0
        BY <1>1
      <4> QED
        BY <2>1, <4>1, <4>2, WireGrows
    <3> QED
      BY <1>1, <2>1, <3>1, <3>2 DEF WireInv, Framed
  <2>6. DecoderInv'
    BY <1>1, <1>4, <2>1 DEF DecoderInv, RoundTrip, QuietFrame
  <2> QED
    BY <2>3, <2>4, <2>5, <2>6
<1> QED
  BY <1>5, <1>6

\* The early returns of the stuffing loop and of the closing FLAG: the room
\* they lacked is room SK_FRAME_MAX bytes would have had.
LEMMA NoRoomStep ==
  ASSUME LoopInv, pc = "stuff", NoRoom, cap < SK_FRAME_MAX
  PROVE  LoopInv'
<1> USE DEF LoopInv
<1>1. /\ pc' = "idle" /\ rc' = -1
      /\ UNCHANGED <<payload, cap, i, wire, org, sent, noise, st, result, out>>
  BY DEF NoRoom, decoder
<1>2. TypeOK'
  BY <1>1 DEF TypeOK, DecoderOK
<1>3. EncoderInv'
  BY <1>1 DEF EncoderInv, EncoderInBounds, FrameMaxSuffices, Accepted, Framed
<1>4. WireInv'
  BY <1>1 DEF WireInv, Framed
<1>5. DecoderInv'
  BY <1>1 DEF DecoderInv, BetweenFrames, RoundTrip, QuietFrame
<1> QED
  BY <1>2, <1>3, <1>4, <1>5

\* What the invariant says of the inner bytes while a frame is made or sent.
LEMMA InnerTyped ==
  ASSUME LoopInv, Accepted
  PROVE  /\ inner \in Seq(Byte) /\ Len(inner) \in Nat
         /\ Len(inner) = Len(payload) + SK_CRC_LEN
         /\ Len(inner) <= SK_FRAME_INNER
         /\ SK_FRAME_MAX = 2 * SK_FRAME_INNER + 2 /\ SK_FRAME_INNER \in Nat
<1>1. payload \in Message /\ LegalLength(payload)
  BY DEF LoopInv, EncoderInv
<1> QED
  BY <1>1, MessageOK, LengthAssumption
     DEF inner, SK_FRAME_INNER, SK_FRAME_MAX, SK_CRC_LEN

\* Stuff: one or two bytes more, or the early return.
LEMMA StuffStep ==
  ASSUME LoopInv, Stuff
  PROVE  LoopInv'
<1> USE DEF LoopInv
<1>1. pc = "stuff" /\ i <= Len(inner)
  BY DEF Stuff
<1>2. /\ inner \in Seq(Byte) /\ Len(inner) \in Nat
      /\ Len(inner) <= SK_FRAME_INNER
      /\ SK_FRAME_MAX = 2 * SK_FRAME_INNER + 2 /\ SK_FRAME_INNER \in Nat
  BY <1>1, InnerTyped DEF Accepted
<1>3. /\ i \in 1 .. Len(inner) /\ i \in Nat /\ i - 1 \in Nat /\ (i - 1) + 1 = i
      /\ Len(wire) \in Nat /\ Len(wire) <= 2 * i - 1
      /\ cap \in Nat /\ rc = 0 /\ sent = 0
  BY <1>1, <1>2 DEF EncoderInv, TypeOK
<1>4. PICK b \in Byte : b = inner[i]
  BY <1>2, <1>3
<1>5. PICK bytes \in Seq(Byte) : /\ bytes = Stuffed(b)
                                 /\ 1 <= Len(bytes) /\ Len(bytes) <= 2
  BY StuffedOK
<1>6. PICK more \in Seq(Nat) : more = IF Len(bytes) = 2 THEN <<i - 1, i>> ELSE <<i>>
  <2>1. <<i - 1, i>> \in Seq(Nat) /\ <<i>> \in Seq(Nat)
    BY <1>3
  <2> QED
    BY <2>1
<1>7. CASE Len(wire) + Len(bytes) > cap
  <2>1. cap < SK_FRAME_MAX
    <3>1. \A len, n, m, c, j, k \in Nat :
              /\ len <= 2 * j - 1 /\ j <= m /\ m <= k /\ n <= 2 /\ len + n > c
              => c < 2 * k + 2
      OBVIOUS
    <3>2. Len(bytes) \in Nat /\ Len(bytes) <= 2 /\ i <= Len(inner)
      BY <1>3, <1>5
    <3> QED
      BY <1>2, <1>3, <1>7, <3>1, <3>2
  <2>2. NoRoom
    BY <1>4, <1>5, <1>7 DEF Stuff
  <2> QED
    BY <1>1, <2>1, <2>2, NoRoomStep
<1>8. CASE ~(Len(wire) + Len(bytes) > cap)
  <2>1. /\ wire' = wire \o bytes /\ org' = org \o more /\ i' = i + 1
        /\ UNCHANGED <<pc, payload, cap, rc, sent, noise, st, result, out>>
    BY <1>6, <1>4, <1>5, <1>8 DEF Stuff, decoder
  <2>2. inner' = inner
    BY <2>1 DEF inner
  <2>3. wire \in Seq(Byte) /\ org \in Seq(Nat)
    BY DEF TypeOK
  <2>4. wire' \in Seq(Byte) /\ org' \in Seq(Nat) /\ Len(wire') = Len(wire) + Len(bytes)
    BY <1>5, <2>1, <2>3
  <2>5. TypeOK'
    <3>1. sent' \in 0 .. Len(wire') /\ i' \in Nat
      BY <1>3, <1>5, <2>1, <2>4
    <3> QED
      BY <2>1, <2>4, <3>1 DEF TypeOK, DecoderOK
  <2>6. EncoderInv'
    <3>1. EncoderInBounds' /\ FrameMaxSuffices'
      BY <1>3, <1>5, <1>8, <2>1, <2>4 DEF EncoderInBounds, FrameMaxSuffices
    <3>2. i' \in 1 .. Len(inner') + 1 /\ Len(wire') <= 2 * i' - 1
      <4>1. \A len, n, j \in Nat : len <= 2 * j - 1 /\ n <= 2 => len + n <= 2 * (j + 1) - 1
        OBVIOUS
      <4>2. Len(bytes) \in Nat /\ Len(bytes) <= 2
        BY <1>5
      <4>3. Len(wire) + Len(bytes) <= 2 * (i + 1) - 1
        BY <1>3, <4>1, <4>2
      <4>4. i + 1 \in 1 .. Len(inner) + 1
        BY <1>2, <1>3
      <4> QED
        BY <2>1, <2>2, <2>4, <4>3, <4>4
    <3>3. payload' \in Message /\ LegalLength(payload)'
      BY <1>1, <2>1 DEF EncoderInv, Accepted, LegalLength
    <3> QED
      BY <1>1, <1>3, <2>1, <3>1, <3>2, <3>3 DEF EncoderInv, Framed
  <2>7. WireInv'
    <3>1. Carries(wire, org, inner, Len(wire), i - 1)
      BY <1>1 DEF WireInv
    <3>2. wire' = Wire(inner')[i' - 1]
      <4>1. wire = Wire(inner)[i - 1] /\ i' - 1 = i
        BY <1>1, <1>3, <2>1 DEF WireInv
      <4> QED
        BY <1>2, <1>3, <1>4, <1>5, <2>1, <2>2, <4>1, WireGrows
    <3>3. CASE NeedsEscape(b)
      <4>1. bytes = <<SK_ESC, EscXor(b)>> /\ Len(bytes) = 2
        BY <1>5, <3>3 DEF Stuffed
      <4>2. more = <<i - 1, i>>
        BY <1>6, <4>1
      <4>3. Carries(wire \o <<SK_ESC, EscXor(inner[(i - 1) + 1])>>,
                    org \o <<i - 1, (i - 1) + 1>>, inner, Len(wire) + 2, (i - 1) + 1)
        BY <1>3, <1>4, <2>3, <3>1, <3>3, EscapedCarries
      <4>4. Carries(wire', org', inner, Len(wire) + 2, i)
        BY <1>3, <1>4, <2>1, <4>1, <4>2, <4>3
      <4>5. Len(wire') = Len(wire) + 2 /\ i' - 1 = i
        BY <1>3, <2>1, <2>4, <4>1
      <4> QED
        BY <1>1, <2>1, <2>2, <3>2, <4>4, <4>5 DEF WireInv, Framed
    <3>4. CASE ~NeedsEscape(b)
      <4>1. bytes = <<b>> /\ Len(bytes) = 1
        BY <1>5, <3>4 DEF Stuffed
      <4>2. more = <<i>>
        BY <1>6, <4>1
      <4>3. Carries(wire \o <<inner[(i - 1) + 1]>>, org \o <<(i - 1) + 1>>, inner,
                    Len(wire) + 1, (i - 1) + 1)
        BY <1>3, <1>4, <2>3, <3>1, <3>4, PlainCarries
      <4>4. Carries(wire', org', inner, Len(wire) + 1, i)
        BY <1>3, <1>4, <2>1, <4>1, <4>2, <4>3
      <4>5. Len(wire') = Len(wire) + 1 /\ i' - 1 = i
        BY <1>3, <2>1, <2>4, <4>1
      <4> QED
        BY <1>1, <2>1, <2>2, <3>2, <4>4, <4>5 DEF WireInv, Framed
    <3> QED
      BY <3>3, <3>4
  <2>8. DecoderInv'
    BY <1>1, <2>1 DEF DecoderInv, BetweenFrames, RoundTrip, QuietFrame
  <2> QED
    BY <2>5, <2>6, <2>7, <2>8
<1> QED
  BY <1>7, <1>8

\* Close: the closing FLAG, or the early return.
LEMMA CloseStep ==
  ASSUME LoopInv, Close
  PROVE  LoopInv'
<1> USE DEF LoopInv
<1>1. pc = "stuff" /\ i > Len(inner)
  BY DEF Close
<1>2. /\ inner \in Seq(Byte) /\ Len(inner) \in Nat
      /\ Len(inner) <= SK_FRAME_INNER
      /\ SK_FRAME_MAX = 2 * SK_FRAME_INNER + 2 /\ SK_FRAME_INNER \in Nat
  BY <1>1, InnerTyped DEF Accepted
<1>3. /\ i = Len(inner) + 1 /\ i - 1 = Len(inner)
      /\ Len(wire) \in Nat /\ Len(wire) <= 2 * i - 1
      /\ cap \in Nat /\ rc = 0 /\ sent = 0
      /\ wire \in Seq(Byte) /\ org \in Seq(Nat)
  BY <1>1, <1>2 DEF EncoderInv, TypeOK
<1>4. CASE Len(wire) + 1 > cap
  <2>1. cap < SK_FRAME_MAX
    BY <1>2, <1>3, <1>4
  <2>2. NoRoom
    BY <1>4 DEF Close
  <2> QED
    BY <1>1, <2>1, <2>2, NoRoomStep
<1>5. CASE ~(Len(wire) + 1 > cap)
  <2>1. /\ wire' = Append(wire, SK_FLAG) /\ org' = Append(org, Len(inner))
        /\ rc' = Len(wire) + 1 /\ pc' = "send"
        /\ UNCHANGED <<payload, cap, i, sent, noise, st, result, out>>
    BY <1>5 DEF Close, decoder
  <2>2. inner' = inner
    BY <2>1 DEF inner
  <2>3. Carries(wire, org, inner, Len(wire), Len(inner))
    BY <1>1, <1>3 DEF WireInv
  <2>4. /\ Carries(wire', org', inner, Len(wire), Len(inner))
        /\ wire'[Len(wire) + 1] = SK_FLAG /\ Len(wire') = Len(wire) + 1
    BY <1>2, <1>3, <2>1, <2>3, ClosingCarries
  <2>5. TypeOK'
    <3>1. wire' \in Seq(Byte) /\ org' \in Seq(Nat)
      BY <1>2, <1>3, <2>1, ByteAssumption
    <3>2. sent' \in 0 .. Len(wire') /\ rc' \in Int
      BY <1>3, <2>1, <2>4
    <3> QED
      BY <2>1, <3>1, <3>2 DEF TypeOK, DecoderOK
  <2>6. EncoderInv'
    <3>1. EncoderInBounds' /\ FrameMaxSuffices'
      BY <1>3, <1>5, <2>1, <2>4 DEF EncoderInBounds, FrameMaxSuffices
    <3>2. payload' \in Message /\ LegalLength(payload)'
      BY <1>1, <2>1 DEF EncoderInv, Accepted, LegalLength
    <3>3. rc' = Len(wire') /\ sent' < rc'
      BY <1>3, <2>1, <2>4
    <3> QED
      BY <2>1, <3>1, <3>2, <3>3 DEF EncoderInv
  <2>7. WireInv'
    <3>1. Len(wire') - 1 = Len(wire)
      BY <1>3, <2>4
    <3>2. wire' = Encoded(payload')
      <4>1. wire = Wire(Inner(payload))[Len(Inner(payload))]
        BY <1>1, <1>3 DEF WireInv, inner
      <4>2. Append(wire, SK_FLAG) = wire \o <<SK_FLAG>>
        BY <1>3, AppendIsConcat, ByteAssumption
      <4> QED
        BY <2>1, <4>1, <4>2, EncodedIsWire
    <3> QED
      BY <2>1, <2>2, <2>4, <3>1, <3>2 DEF WireInv
  <2>8. DecoderInv'
    BY <1>1, <1>3, <2>1 DEF DecoderInv, BetweenFrames, RoundTrip, QuietFrame
  <2> QED
    BY <2>5, <2>6, <2>7, <2>8
<1> QED
  BY <1>4, <1>5

\* Send: the opening FLAG starts a frame, every byte after it is taken in
\* step, and the closing FLAG delivers.
LEMMA SendStep ==
  ASSUME LoopInv, Send
  PROVE  LoopInv'
<1> USE DEF LoopInv
<1> DEFINE n == Len(wire) - 1
           k == sent + 1
<1>1. /\ pc = "send" /\ Feed(wire[k]) /\ sent' = k
      /\ UNCHANGED <<payload, cap, i, wire, rc, org>>
      /\ IF k = rc THEN pc' = "sent" /\ noise' = 0
                   ELSE UNCHANGED <<pc, noise>>
  BY DEF Send, encoder
<1>2. /\ payload \in Message /\ LegalLength(payload)
      /\ rc = Len(wire) /\ sent < rc /\ sent \in Nat /\ Len(wire) \in Nat
      /\ wire \in Seq(Byte)
  BY <1>1 DEF EncoderInv, TypeOK, Accepted, Framed
<1>3. /\ inner \in Seq(Byte) /\ Len(inner) \in Nat /\ Len(inner) <= SK_FRAME_INNER
      /\ inner' = inner
  BY <1>1, InnerTyped DEF Accepted, inner
<1>4. Carries(wire, org, inner, n, Len(inner)) /\ wire[Len(wire)] = SK_FLAG
  BY <1>1 DEF WireInv, Framed
<1>5. n \in Nat /\ n >= 1
  BY <1>2, <1>4 DEF Carries
<1>6. wire[k] \in Byte
  BY <1>2
<1>7. TypeOK'
  <2>1. /\ DecoderOK(st)'
        /\ result' \in SK_DEC_ERR_OFLOW .. SK_PAYLOAD_MAX
        /\ out' \in Seq(Byte)
    BY <1>1, <1>6, FeedTyped DEF TypeOK, DecoderOK
  <2>2. sent' \in 0 .. Len(wire') /\ noise' \in Nat
        /\ pc' \in {"idle", "stuff", "send", "sent"}
    BY <1>1, <1>2 DEF TypeOK
  <2> QED
    BY <1>1, <2>1, <2>2 DEF TypeOK
<1>8. EncoderInv'
  <2>1. EncoderInBounds' /\ FrameMaxSuffices'
    BY <1>1 DEF EncoderInv, EncoderInBounds, FrameMaxSuffices
  <2>2. LegalLength(payload)'
    BY <1>1, <1>2 DEF LegalLength
  <2>3. pc' = "send" => sent' < rc'
    BY <1>1, <1>2
  <2> QED
    BY <1>1, <1>2, <2>1, <2>2, <2>3 DEF EncoderInv, Framed
<1>9. WireInv'
  BY <1>1, <1>3, <1>4 DEF WireInv, Framed
<1>10. DecoderInv'
  <2> HIDE DEF k, n
  <2>1. CASE sent = 0
    <3>1. k = 1 /\ wire[k] = SK_FLAG /\ org[1] = 0 /\ k # rc
      BY <1>2, <1>4, <1>5, <2>1 DEF Carries, k, n
    <3>2. st' = NewFrame(st)
      BY <1>1, <3>1 DEF Feed, FeedState, SK_FLAG, SK_ESC
    <3>3. SubSeq(inner, 1, 0) = <<>>
      BY <1>3
    <3>4. st' = Heard(wire, org, inner, 1)
      BY <3>1, <3>2, <3>3 DEF NewFrame, Heard, SK_FLAG, SK_ESC
    <3>5. noise = 0 => result' = SK_DEC_MORE
      BY <1>1, <2>1 DEF DecoderInv, BetweenFrames, Feed, FeedResult
    <3>6. pc' = "send" /\ sent' = 1 /\ noise' = noise
      BY <1>1, <3>1
    <3> QED
      BY <1>1, <1>3, <3>4, <3>5, <3>6
         DEF DecoderInv, BetweenFrames, RoundTrip, QuietFrame
  <2>2. CASE sent >= 1 /\ k # rc
    <3>1. k \in 2 .. n /\ k - 1 = sent
      BY <1>2, <1>5, <2>2 DEF k, n
    <3>2. st = Heard(wire, org, inner, k - 1)
      BY <1>1, <2>2, <3>1 DEF DecoderInv
    <3>3. wire[k] # SK_FLAG /\ FeedState(st, wire[k]) = Heard(wire, org, inner, k)
      BY <1>3, <1>4, <1>5, <3>1, <3>2, HearsNext
    <3>4. st' = Heard(wire, org, inner, k) /\ result' = SK_DEC_MORE
      BY <1>1, <3>3, QuietByte DEF Feed
    <3>5. pc' = "send" /\ sent' = k /\ sent' # 0
      BY <1>1, <2>2, <3>1
    <3> QED
      BY <1>1, <1>3, <3>4, <3>5 DEF DecoderInv, BetweenFrames, RoundTrip, QuietFrame
  <2>3. CASE sent >= 1 /\ k = rc
    <3>1. k = Len(wire) /\ sent = n /\ wire[k] = SK_FLAG
      BY <1>2, <1>4, <2>3 DEF k, n
    <3>2. st = Heard(wire, org, inner, n)
      BY <1>1, <2>3, <3>1 DEF DecoderInv
    <3>3. org[n] = Len(inner) /\ SubSeq(inner, 1, Len(inner)) = inner
      BY <1>3, <1>4, SubSeqFull DEF Carries
    <3>4. st.in_frame = 1 /\ st.overflow = 0 /\ st.buf = Inner(payload)
      BY <3>2, <3>3 DEF Heard, inner
    <3>5. result' = Len(payload) /\ out' = payload
      BY <1>1, <1>2, <3>1, <3>4, MessageOK, FlagDelivers DEF Feed
    <3>6. st'.buf = <<>>
      BY <1>1, <3>1 DEF Feed, FeedState, NewFrame, SK_FLAG, SK_ESC
    <3>7. pc' = "sent"
      BY <1>1, <2>3
    <3> QED
      BY <1>1, <3>5, <3>6, <3>7 DEF DecoderInv, RoundTrip, QuietFrame
  <2> QED
    BY <1>2, <2>1, <2>2, <2>3
<1> QED
  BY <1>7, <1>8, <1>9, <1>10

\* Every step of the encoder, the line and the decoder preserves it.
LEMMA LoopInvNext == LoopInv /\ [Next]_vars => LoopInv'
<1> SUFFICES ASSUME LoopInv, [Next]_vars PROVE LoopInv'
  OBVIOUS
<1>1. ASSUME NEW byte \in Byte, Noise(byte) PROVE LoopInv'
  BY <1>1, NoiseStep
<1>2. ASSUME NEW p \in Message, NEW room \in OutCaps, Call(p, room) PROVE LoopInv'
  BY <1>2, CallStep
<1>3. CASE Stuff
  BY <1>3, StuffStep
<1>4. CASE Close
  BY <1>4, CloseStep
<1>5. CASE Send
  BY <1>5, SendStep
<1>6. CASE UNCHANGED vars
  <2>1. UNCHANGED <<pc, sent, noise, payload, cap, i, wire, rc, org, st, result, out>>
    BY <1>6 DEF vars, encoder, decoder
  <2>2. TypeOK'
    BY <2>1 DEF LoopInv, TypeOK, DecoderOK
  <2>3. EncoderInv'
    BY <2>1 DEF LoopInv, EncoderInv, EncoderInBounds, FrameMaxSuffices, LegalLength,
                Accepted, Framed, inner
  <2>4. WireInv'
    BY <2>1 DEF LoopInv, WireInv, Framed, inner
  <2>5. DecoderInv'
    BY <2>1 DEF LoopInv, DecoderInv, BetweenFrames, RoundTrip, QuietFrame, inner
  <2> QED
    BY <2>2, <2>3, <2>4, <2>5 DEF LoopInv
<1> QED
  BY <1>1, <1>2, <1>3, <1>4, <1>5, <1>6 DEF Next

-----------------------------------------------------------------------------
\* The inductive invariant holds in every reachable state.
LEMMA LoopInvHolds == Spec => []LoopInv
BY LoopInvInit, LoopInvNext, PTL DEF Spec

\* Encoder, wire and decoder keep their types.
THEOREM LoopbackTypeCorrect == Spec => []TypeOK
<1>1. LoopInv => TypeOK
  BY DEF LoopInv
<1> QED
  BY <1>1, LoopInvHolds, PTL

\* sk_frame_encode never writes past out[cap-1], on any path.
THEOREM EncoderStaysInBounds == Spec => []EncoderInBounds
<1>1. LoopInv => EncoderInBounds
  BY DEF LoopInv, EncoderInv
<1> QED
  BY <1>1, LoopInvHolds, PTL

\* Given SK_FRAME_MAX bytes sk_frame_encode refuses no payload of a legal
\* length.
THEOREM FrameMaxAlwaysSuffices == Spec => []FrameMaxSuffices
<1>1. LoopInv => FrameMaxSuffices
  BY DEF LoopInv, EncoderInv
<1> QED
  BY <1>1, LoopInvHolds, PTL

\* What the loop of sk_frame_encode writes is the frame format, byte by byte.
THEOREM EncoderIsExact == Spec => []EncoderExact
<1>1. LoopInv => EncoderExact
  BY DEF LoopInv, EncoderInv, WireInv, Framed, EncoderExact
<1> QED
  BY <1>1, LoopInvHolds, PTL

\* What sk_frame_encode produces, sk_decoder_feed delivers: every payload,
\* every CRC, whatever the decoder had heard before the frame.
THEOREM FramesRoundTrip == Spec => []RoundTrip
<1>1. LoopInv => RoundTrip
  BY DEF LoopInv, DecoderInv
<1> QED
  BY <1>1, LoopInvHolds, PTL

\* Inside a frame, and at a FLAG right after another frame,
\* sk_decoder_feed reports nothing.
THEOREM FramesAreQuiet == Spec => []QuietFrame
<1>1. LoopInv => QuietFrame
  BY DEF LoopInv, DecoderInv
<1> QED
  BY <1>1, LoopInvHolds, PTL
=============================================================================
