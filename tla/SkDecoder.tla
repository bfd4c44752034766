----------------------------- MODULE SkDecoder ------------------------------
(***************************************************************************)
(* One decoder context (sk_decoder_t) under every sequence of calls of     *)
(* sk_decoder_feed, with every room for the payload the callers offer.     *)
(* raw is a history variable: the bytes fed since the last FLAG.           *)
(***************************************************************************)
EXTENDS SkProtocol

CONSTANTS
    Caps,           \* the cap arguments callers pass; 0 stands for NULL too
    MaxRaw          \* bound on the bytes fed between two FLAGs

ASSUME CapsAssumption == Caps \subseteq Nat /\ MaxRaw \in Nat

VARIABLES
    st,             \* *st, the decoder context
    cap,            \* the cap argument of the last call
    result,         \* its return value
    out,            \* the bytes it wrote to the caller's buffer
    raw             \* history: the bytes fed since the last FLAG

vars == <<st, cap, result, out, raw>>

Init ==
    /\ st = sk_decoder_init
    /\ cap = 0
    /\ result = SK_DEC_MORE
    /\ out = <<>>
    /\ raw = <<>>

History(byte) ==
    CASE byte = SK_FLAG                      -> <<>>
      [] byte # SK_FLAG /\ st.in_frame = 1   -> Append(raw, byte)
      [] OTHER                               -> raw

\* One call of sk_decoder_feed.
sk_decoder_feed(byte, room) ==
    /\ byte = SK_FLAG \/ Len(raw) < MaxRaw
    /\ st' = FeedState(st, byte)
    /\ cap' = room
    /\ result' = FeedResult(st, byte, room)
    /\ out' = FeedOut(st, byte, room)
    /\ raw' = History(byte)

Next == \E byte \in Byte, room \in Caps : sk_decoder_feed(byte, room)

Spec == Init /\ [][Next]_vars

-----------------------------------------------------------------------------
TypeOK ==
    /\ st \in sk_decoder_t
    /\ cap \in Nat
    /\ result \in SK_DEC_ERR_OFLOW .. SK_PAYLOAD_MAX
    /\ out \in Seq(Byte)
    /\ raw \in Seq(Byte)

(***************************************************************************)
(* No call writes past buf[SK_FRAME_INNER] or past the caller's buffer,    *)
(* and the fields agree: overflow is set only on a full buffer, and a      *)
(* decoder that has seen no FLAG is still as sk_decoder_init left it.      *)
(* A wrong bound in any of the four branches of sk_decoder_feed breaks it  *)
(* only after a whole over-long frame.                                     *)
(***************************************************************************)
MemorySafe ==
    /\ DecoderOK(st)
    /\ Len(out) <= cap
    /\ Len(out) = IF result > 0 THEN result ELSE 0

(***************************************************************************)
(* The incremental decoder gives, call by call, the verdicts and the       *)
(* payloads of the batch specification: one escape bit, one overflow bit   *)
(* and a truncated buffer lose nothing a frame's verdict depends on.       *)
(***************************************************************************)
FrameSpec == INSTANCE SkFrameSpec WITH open <- st.in_frame = 1

ImplementsFrameSpec == FrameSpec!Spec

(***************************************************************************)
(* docs/01_requirements_SWE1/node.md:77-80 says the decoder reports a bad  *)
(* escape with a negative error code.  An escape is bad when the byte      *)
(* after ESC is not one the encoder escapes, or when the frame ends first. *)
(***************************************************************************)
BadEscape(r) ==
    \E i \in 1 .. Len(r) :
        /\ r[i] = SK_ESC
        /\ i = Len(r) \/ ~NeedsEscape(EscXor(r[i + 1]))

BadEscapeReported == [][result' > 0 => ~BadEscape(raw)]_vars
=============================================================================
