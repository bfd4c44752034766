--------------------------- MODULE SkDecoderSync ----------------------------
(***************************************************************************)
(* Two decoders with different pasts - different noise, a receiver that    *)
(* attached mid-frame, one that was just initialised - from some moment on *)
(* hear the same bytes.  protocol.h:139-140 promises that a decoder always *)
(* resynchronizes on the next FLAG: the two must then agree for ever.      *)
(***************************************************************************)
EXTENDS SkProtocol

CONSTANTS
    Rooms,          \* the room for a payload the caller offers
    MaxNoise,       \* bound on the bytes each decoder hears alone
    MaxFrame        \* bound on the bytes they hear together between FLAGs

ASSUME SyncAssumption ==
    Rooms \subseteq Nat /\ MaxNoise \in Nat /\ MaxFrame \in Nat

VARIABLES
    one, two,           \* the two decoder contexts
    result1, result2,   \* what the last call on each returned
    out1, out2,         \* and delivered
    together,           \* they hear the same bytes now
    flags,              \* a FLAG was heard together
    heard               \* bytes heard: alone, then together since a FLAG

syncVars == <<one, two, result1, result2, out1, out2, together, flags, heard>>

SyncInit ==
    /\ one = sk_decoder_init /\ two = sk_decoder_init
    /\ result1 = SK_DEC_MORE /\ result2 = SK_DEC_MORE
    /\ out1 = <<>> /\ out2 = <<>>
    /\ together = FALSE /\ flags = FALSE
    /\ heard = 0

\* sk_decoder_feed on the first decoder only ...
NoiseOne(byte, cap) ==
    /\ ~together /\ heard < MaxNoise
    /\ one' = FeedState(one, byte)
    /\ result1' = FeedResult(one, byte, cap)
    /\ out1' = FeedOut(one, byte, cap)
    /\ heard' = heard + 1
    /\ UNCHANGED <<two, result2, out2, together, flags>>

\* ... or on the second only.
NoiseTwo(byte, cap) ==
    /\ ~together /\ heard < MaxNoise
    /\ two' = FeedState(two, byte)
    /\ result2' = FeedResult(two, byte, cap)
    /\ out2' = FeedOut(two, byte, cap)
    /\ heard' = heard + 1
    /\ UNCHANGED <<one, result1, out1, together, flags>>

\* sk_decoder_feed on both, with the same byte and the same room.
Together(byte, cap) ==
    /\ byte = SK_FLAG \/ ~together \/ heard < MaxFrame
    /\ one' = FeedState(one, byte) /\ two' = FeedState(two, byte)
    /\ result1' = FeedResult(one, byte, cap)
    /\ result2' = FeedResult(two, byte, cap)
    /\ out1' = FeedOut(one, byte, cap)
    /\ out2' = FeedOut(two, byte, cap)
    /\ together' = TRUE
    /\ flags' = (flags \/ byte = SK_FLAG)
    /\ heard' = IF byte = SK_FLAG THEN 0
                ELSE IF together THEN heard + 1 ELSE 1

SyncNext == \E byte \in Byte, cap \in Rooms :
            NoiseOne(byte, cap) \/ NoiseTwo(byte, cap) \/ Together(byte, cap)

SyncSpec == SyncInit /\ [][SyncNext]_syncVars

-----------------------------------------------------------------------------
SyncTypeOK ==
    /\ DecoderOK(one) /\ DecoderOK(two)
    /\ {result1, result2} \subseteq SK_DEC_ERR_OFLOW .. SK_PAYLOAD_MAX
    /\ out1 \in Seq(Byte) /\ out2 \in Seq(Byte)
    /\ {together, flags} \subseteq BOOLEAN
    /\ heard \in Nat
    /\ flags => together

(***************************************************************************)
(* The FLAG branch of sk_decoder_feed forgets the past whatever state it   *)
(* finds: an escape left pending, an overflow, a half-filled buffer.  A    *)
(* field it failed to reset would show only in the frame after a damaged   *)
(* one.                                                                    *)
(***************************************************************************)
Resynchronized == flags => one = two

(***************************************************************************)
(* From the first FLAG heard together on, both decoders return the same    *)
(* codes and deliver the same payloads at the same bytes.  The verdict at  *)
(* that first FLAG itself still depends on the past.                       *)
(***************************************************************************)
SameVerdicts == [][flags => result1' = result2' /\ out1' = out2']_syncVars
=============================================================================
