----------------------------- MODULE SkLoopback -----------------------------
(***************************************************************************)
(* The two ends of the framing layer together: sk_frame_encode, iteration  *)
(* by iteration with the room checks of its loop, then the node's          *)
(* uart_write handing the frame byte by byte to a decoder.  Between frames *)
(* the decoder hears any bytes at all, so a frame starts with the decoder  *)
(* in every state it can be in.                                            *)
(***************************************************************************)
EXTENDS SkProtocol

CONSTANTS
    Message,        \* the payload arguments, of legal and illegal lengths
    OutCaps,        \* the cap arguments of sk_frame_encode
    MaxNoise        \* bound on the bytes heard between two frames

ASSUME MessageAssumption ==
    /\ \A p \in Message : p \in Seq(Byte)
    /\ \A p \in Message : LegalLength(p) => Crc(p) \in Byte \X Byte
    /\ OutCaps \subseteq Nat
    /\ MaxNoise \in Nat

VARIABLES
    pc,             \* where the caller of sk_frame_encode is
    payload, cap,   \* its arguments
    i,              \* the loop counter: the inner byte to stuff next
    wire,           \* out[0..n-1]: the bytes encoded so far
    rc,             \* its return value
    sent,           \* how many bytes of wire the decoder has been fed
    st,             \* the decoder
    result, out,    \* what its last sk_decoder_feed returned and delivered
    noise,          \* bytes heard since the last frame
    org             \* history: org[k] inner bytes are complete in wire[1..k]

encoder == <<payload, cap, i, wire, rc, org>>
decoder == <<st, result, out>>
vars == <<pc, sent, noise, encoder, decoder>>

Init ==
    /\ pc = "idle"
    /\ payload = <<>> /\ cap = 0 /\ i = 1 /\ wire = <<>> /\ rc = 0
    /\ org = <<>>
    /\ sent = 0
    /\ st = sk_decoder_init /\ result = SK_DEC_MORE /\ out = <<>>
    /\ noise = 0

Idle == pc \in {"idle", "sent"}

inner == Inner(payload)

\* sk_decoder_feed with a receiver's SK_PAYLOAD_MAX byte buffer.
Feed(byte) ==
    /\ st' = FeedState(st, byte)
    /\ result' = FeedResult(st, byte, SK_PAYLOAD_MAX)
    /\ out' = FeedOut(st, byte, SK_PAYLOAD_MAX)

\* The line carries something that is no frame of ours.
Noise(byte) ==
    /\ Idle /\ noise < MaxNoise
    /\ Feed(byte)
    /\ noise' = noise + 1
    /\ pc' = "idle"
    /\ UNCHANGED <<sent, encoder>>

Refused(p, room) == ~LegalLength(p) \/ room < 1

\* sk_frame_encode is called: arguments checked, opening FLAG written.
Call(p, room) ==
    /\ Idle
    /\ payload' = p /\ cap' = room
    /\ i' = 1
    /\ sent' = 0
    /\ IF Refused(p, room)
       THEN pc' = "idle" /\ rc' = -1 /\ wire' = <<>> /\ org' = <<>>
       ELSE pc' = "stuff" /\ rc' = 0 /\ wire' = <<SK_FLAG>> /\ org' = <<0>>
    /\ UNCHANGED <<noise, decoder>>

NoRoom ==
    /\ pc' = "idle" /\ rc' = -1
    /\ UNCHANGED <<payload, cap, i, wire, org, sent, noise, decoder>>

\* Mutant: ESC is put in front, the byte itself is not toggled.
Stuff_NoXor ==
    /\ pc = "stuff" /\ i <= Len(inner)
    /\ LET bytes == IF NeedsEscape(inner[i]) THEN <<SK_ESC, inner[i]>> ELSE <<inner[i]>>
       IN  IF Len(wire) + Len(bytes) > cap
           THEN NoRoom
           ELSE /\ wire' = wire \o bytes
                /\ org' = org \o IF Len(bytes) = 2 THEN <<i - 1, i>> ELSE <<i>>
                /\ i' = i + 1
                /\ UNCHANGED <<pc, payload, cap, rc, sent, noise, decoder>>

\* One iteration of the stuffing loop.
Stuff ==
    /\ pc = "stuff" /\ i <= Len(inner)
    /\ LET bytes == Stuffed(inner[i])
       IN  IF Len(wire) + Len(bytes) > cap
           THEN NoRoom
           ELSE /\ wire' = wire \o bytes
                /\ org' = org \o IF Len(bytes) = 2 THEN <<i - 1, i>> ELSE <<i>>
                /\ i' = i + 1
                /\ UNCHANGED <<pc, payload, cap, rc, sent, noise, decoder>>

\* Mutant: no room check for the closing FLAG.
Close_NoCheck ==
    /\ pc = "stuff" /\ i > Len(inner)
    /\ wire' = Append(wire, SK_FLAG)
    /\ org' = Append(org, Len(inner))
    /\ rc' = Len(wire) + 1
    /\ pc' = "send"
    /\ UNCHANGED <<payload, cap, i, sent, noise, decoder>>

\* The closing FLAG; the caller sends the frame only if this succeeds.
Close ==
    /\ pc = "stuff" /\ i > Len(inner)
    /\ IF Len(wire) + 1 > cap
       THEN NoRoom
       ELSE /\ wire' = Append(wire, SK_FLAG)
            /\ org' = Append(org, Len(inner))
            /\ rc' = Len(wire) + 1
            /\ pc' = "send"
            /\ UNCHANGED <<payload, cap, i, sent, noise, decoder>>

\* uart_write: the next byte of the frame reaches the decoder.
Send ==
    /\ pc = "send"
    /\ Feed(wire[sent + 1])
    /\ sent' = sent + 1
    /\ IF sent + 1 = rc
       THEN pc' = "sent" /\ noise' = 0
       ELSE UNCHANGED <<pc, noise>>
    /\ UNCHANGED encoder

Next == \/ \E byte \in Byte : Noise(byte)
        \/ \E p \in Message, room \in OutCaps : Call(p, room)
        \/ Stuff
        \/ Close
        \/ Send

Spec == Init /\ [][Next]_vars

-----------------------------------------------------------------------------
TypeOK ==
    /\ pc \in {"idle", "stuff", "send", "sent"}
    /\ payload \in Message \cup {<<>>}
    /\ cap \in Nat
    /\ i \in Nat
    /\ wire \in Seq(Byte)
    /\ org \in Seq(Nat)
    /\ rc \in Int
    /\ sent \in 0 .. Len(wire)
    /\ DecoderOK(st)
    /\ result \in SK_DEC_ERR_OFLOW .. SK_PAYLOAD_MAX
    /\ out \in Seq(Byte)
    /\ noise \in Nat

(***************************************************************************)
(* sk_frame_encode writes no byte past out[cap-1], on the success path and *)
(* on every early return, whichever payload bytes need two places.         *)
(***************************************************************************)
EncoderInBounds == Len(wire) <= cap

(***************************************************************************)
(* SK_FRAME_MAX (protocol.h:42-45) is big enough for the worst payload:    *)
(* main.c gives the encoder a buffer of exactly that size and drops the    *)
(* sample silently if the encoder refuses.                                 *)
(***************************************************************************)
FrameMaxSuffices ==
    rc = -1 => ~LegalLength(payload) \/ cap < SK_FRAME_MAX

(***************************************************************************)
(* What sk_frame_encode put in the buffer is the frame format: the loop    *)
(* and the one-line definition of it agree.                                *)
(***************************************************************************)
EncoderExact == pc \in {"send", "sent"} => wire = Encoded(payload) /\ rc = Len(wire)

(***************************************************************************)
(* Round trip: once the last byte of the frame is fed, sk_decoder_feed     *)
(* returns the payload's length and delivers exactly the payload, whatever *)
(* the decoder had heard before the frame and whatever the payload or its  *)
(* CRC contain.                                                            *)
(***************************************************************************)
RoundTrip == pc = "sent" => result = Len(payload) /\ out = payload

(***************************************************************************)
(* No false report: inside a frame sk_decoder_feed returns SK_DEC_MORE,    *)
(* and so does the opening FLAG right after another frame, although it     *)
(* arrives with in_frame set (the frame between two FLAGs is empty).       *)
(***************************************************************************)
QuietFrame ==
    pc = "send" /\ sent >= 1 /\ (sent > 1 \/ noise = 0) => result = SK_DEC_MORE
=============================================================================
