---------------------------- MODULE Crc16Errors -----------------------------
(***************************************************************************)
(* What the CRC buys a frame: the sender's register and the receiver's run *)
(* over the same message, except where the line damaged it.  After each    *)
(* byte the message may end: the receiver then runs on over the check      *)
(* value the sender appends.                                               *)
(***************************************************************************)
EXTENDS Crc16

CONSTANTS
    Message,        \* the bytes messages are made of
    Damage,         \* the patterns the line may exclusive-or onto a byte
    MaxLen          \* bound on the message, SK_PAYLOAD_MAX in the code

ASSUME DamageAssumption ==
    /\ Message \subseteq 0 .. 255
    /\ Damage \subseteq 1 .. 255
    /\ MaxLen \in Nat

VARIABLES
    message,        \* what was sent so far
    sender,         \* the sender's register
    receiver,       \* the receiver's
    damaged         \* the positions of the damaged bytes

vars == <<message, sender, receiver, damaged>>

Init ==
    /\ message = <<>>
    /\ sender = CRC_INIT
    /\ receiver = CRC_INIT
    /\ damaged = {}

Flip(byte, pattern) == ValueOf(Xor(BitsOf(byte, 8), BitsOf(pattern, 8)))

Advance(byte, heard) ==
    /\ Len(message) < MaxLen
    /\ message' = Append(message, byte)
    /\ sender' = ByteStep(sender, byte)
    /\ receiver' = ByteStep(receiver, heard)

Intact(byte) == Advance(byte, byte) /\ UNCHANGED damaged

\* One burst: the damaged bytes are neighbours, at most two of them.
Damaged(byte, pattern) ==
    /\ damaged \subseteq {Len(message)}
    /\ Advance(byte, Flip(byte, pattern))
    /\ damaged' = damaged \cup {Len(message) + 1}

Next == \E byte \in Message :
            Intact(byte) \/ \E pattern \in Damage : Damaged(byte, pattern)

Spec == Init /\ [][Next]_vars

-----------------------------------------------------------------------------
(***************************************************************************)
(* Damage confined to one byte, or to two neighbouring ones, is noticed    *)
(* however many bytes follow it: crc != recv in decoder_finish.            *)
(***************************************************************************)
BurstDetected == damaged # {} => sender # receiver

(***************************************************************************)
(* The residue property sk_frame_encode's comment relies on                *)
(* (protocol.c:216-218): run over a message and its big-endian CRC, the    *)
(* register comes to zero, and a receiver that heard the message damaged   *)
(* ends with another value.                                                *)
(***************************************************************************)
Trailer(r) == ByteStep(ByteStep(r, WireBytes(sender)[1]), WireBytes(sender)[2])

Residue == (Trailer(receiver) = {}) = (damaged = {})

(***************************************************************************)
(* The register is the remainder of polynomial division: message bits      *)
(* first, most significant bit of each byte first, the leading sixteen     *)
(* inverted (the 0xFFFF start), times x^16, modulo x^16+x^12+x^5+1.        *)
(* Computed here by long division, from the top coefficient down, with the *)
(* generator REQ-PR-002 names and no constant of the code.                 *)
(***************************************************************************)
Polynomial(m) ==
    LET degree == 8 * Len(m) + 16
    IN  Xor({degree - 8 * i + k : i \in 1 .. Len(m), k \in 0 .. 7} \cap
               UNION {{degree - 8 * i + k : k \in BitsOf(m[i], 8)} :
                         i \in 1 .. Len(m)},
            degree - 16 .. degree - 1)

Generator == {16, 12, 5, 0}

Divisor(degree) == {degree - 16 + k : k \in Generator}

Cancel(poly, degree) ==
    IF degree \in poly THEN Xor(poly, Divisor(degree)) ELSE poly

Remainder(poly, top) ==
    LET down[d \in 0 .. top - 15] ==
          IF d = 0 THEN poly ELSE Cancel(down[d - 1], top - d + 1)
    IN  down[top - 15]

IsRemainder ==
    /\ sender = Remainder(Polynomial(message), 8 * Len(message) + 15)
    /\ sender = crc16_ccitt_false(message)
=============================================================================
