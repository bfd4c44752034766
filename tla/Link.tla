-------------------------------- MODULE Link --------------------------------
(***************************************************************************)
(* A node's frames over a byte line that loses, damages, repeats and       *)
(* inserts bytes, to a receiver that may attach in the middle of a frame.  *)
(* The node may be reset in the middle of a frame too: it then sends its   *)
(* banner text and starts over with its first frame.                       *)
(***************************************************************************)
EXTENDS SkProtocol, FiniteSets

CONSTANTS
    Frame,          \* the payloads the node sends after a reset, in order
    Text,           \* what it sends before them (main.c's banner)
    Debris,         \* the values damaged and inserted bytes take
    MaxTroubles     \* bound on the faults of the line and resets of the node

ASSUME LinkAssumption ==
    /\ \A k \in DOMAIN Frame : LegalLength(Frame[k])
    /\ \A k \in DOMAIN Frame : Crc(Frame[k]) \in Byte \X Byte
    /\ Frame \in Seq(Seq(Byte)) /\ Debris \subseteq Byte
    /\ Text \in Seq(Byte \ {SK_FLAG})              \* no '~' in it
    /\ MaxTroubles \in Nat

VARIABLES
    tx,             \* the bytes uart_write has still to send
    next,           \* the frame the node sends next
    st,             \* the receiver's decoder
    result, out,    \* the last verdict and delivery
    listening,      \* the receiver has attached to the line
    faults, resets, \* how many there were
    begun,          \* history: the payloads of the frames begun
    whole,          \* history: the current frame, if one, arrived intact so far
    since,          \* history: the first frame begun after it attached
    heard,          \* history: the frames completed while the receiver listened
    took,           \* history: the frames delivered, in order
    errors          \* history: error codes since the last delivery

sender == <<tx, next, resets, begun>>
receiver == <<st, result, out, took, errors>>
vars == <<sender, receiver, listening, since, faults, whole, heard>>

Init ==
    /\ tx = Text /\ next = 1 /\ begun = <<>>
    /\ st = sk_decoder_init /\ result = SK_DEC_MORE /\ out = <<>>
    /\ listening = FALSE /\ since = 0
    /\ faults = 0 /\ resets = 0
    /\ whole = FALSE /\ heard = {} /\ took = <<>> /\ errors = 0

\* The frame a delivered payload is: the latest one begun with it.
Source(payload) ==
    LET same == {k \in DOMAIN begun : begun[k] = payload}
    IN  IF same = {} THEN 0 ELSE CHOOSE k \in same : \A j \in same : j <= k

\* The receive loop feeds a byte; room for the payload there always is.
Feed(byte) ==
    /\ st' = FeedState(st, byte)
    /\ result' = FeedResult(st, byte, SK_PAYLOAD_MAX)
    /\ out' = FeedOut(st, byte, SK_PAYLOAD_MAX)
    /\ took' = IF result' > 0 THEN Append(took, Source(out')) ELSE took
    /\ errors' = CASE result' > 0 -> 0
                   [] result' < 0 -> errors + 1
                   [] OTHER       -> errors

Deaf == UNCHANGED receiver

\* The line takes the next byte from the node; ok says it arrives unharmed.
Take(ok) ==
    /\ tx # <<>>
    /\ tx' = Tail(tx)
    /\ whole' = (whole /\ ok)
    /\ heard' = IF tx = <<SK_FLAG>> /\ listening /\ Len(begun) >= since
                THEN heard \cup {Len(begun)} ELSE heard
    /\ UNCHANGED <<next, resets, begun, listening, since>>

Trouble == faults + resets < MaxTroubles

Fault == Trouble /\ listening /\ faults' = faults + 1

\* uart_write starts on the next frame.
Begin ==
    /\ tx = <<>> /\ next \in DOMAIN Frame
    /\ tx' = Encoded(Frame[next])
    /\ next' = next + 1
    /\ begun' = Append(begun, Frame[next])
    /\ whole' = listening
    /\ UNCHANGED <<resets, receiver, listening, since, faults, heard>>

Arrive  == listening /\ Take(TRUE) /\ Feed(tx[1]) /\ UNCHANGED faults
Unheard == ~listening /\ Take(FALSE) /\ Deaf /\ UNCHANGED faults
Lose    == Fault /\ Take(FALSE) /\ Deaf
Damage(byte) == Fault /\ Take(FALSE) /\ byte # tx[1] /\ Feed(byte)

\* An extra byte arrives: debris, or the next byte, which so arrives twice.
Extra(byte) ==
    /\ Fault
    /\ Feed(byte)
    /\ whole' = FALSE
    /\ UNCHANGED <<sender, listening, since, heard>>

Insert == \E byte \in Debris \cup (IF tx = <<>> THEN {} ELSE {tx[1]}) : Extra(byte)

Attach ==
    /\ ~listening /\ listening' = TRUE
    /\ since' = Len(begun) + 1
    /\ whole' = FALSE
    /\ UNCHANGED <<sender, receiver, faults, heard>>

\* The node is reset; the rest of what it was sending is lost.
Reset ==
    /\ Trouble
    /\ resets' = resets + 1
    /\ tx' = Text /\ next' = 1 /\ whole' = FALSE
    /\ UNCHANGED <<begun, receiver, listening, since, faults, heard>>

Next == \/ Begin \/ Arrive \/ Unheard \/ Lose \/ Insert \/ Attach \/ Reset
        \/ \E byte \in Debris : Damage(byte)

Spec == Init /\ [][Next]_vars

-----------------------------------------------------------------------------
TypeOK ==
    /\ tx \in Seq(Byte)
    /\ next \in 1 .. Len(Frame) + 1
    /\ DecoderOK(st)
    /\ result \in SK_DEC_ERR_OFLOW .. SK_PAYLOAD_MAX
    /\ {listening, whole} \subseteq BOOLEAN
    /\ since \in 0 .. Len(begun) + 1
    /\ faults \in Nat /\ resets \in Nat /\ faults + resets <= MaxTroubles
    /\ heard \subseteq DOMAIN begun
    /\ took \in Seq(Nat)
    /\ errors \in Nat

LastTaken == IF took = <<>> THEN 0 ELSE took[Len(took)]

Taken == {took[n] : n \in DOMAIN took}

(***************************************************************************)
(* Whatever line and node do within MaxTroubles, what sk_decoder_feed      *)
(* delivers was sent, unchanged, once and in order: no damaged, cut,       *)
(* merged or stale frame passes the length and CRC checks of               *)
(* decoder_finish.                                                         *)
(***************************************************************************)
Fifo == INSTANCE LossyFifo WITH
            Payload <- {Frame[k] : k \in DOMAIN Frame},
            sent <- begun,
            pos <- LastTaken,
            got <- [n \in DOMAIN took |-> IF took[n] = 0 THEN <<>> ELSE begun[took[n]]]

ImplementsFifo == Fifo!Spec

(***************************************************************************)
(* A frame whose every byte arrives is delivered with its closing FLAG,    *)
(* whatever happened before it: damage does not outlive the frame it hit   *)
(* (node.md REQ-PR-006, resynchronize on the next FLAG).                   *)
(***************************************************************************)
IntactIsDelivered ==
    [][whole' /\ Len(tx) = 1 /\ tx' = <<>> => out' = begun[Len(begun)]]_vars

(***************************************************************************)
(* A fault of the line costs one frame at most: a lost or damaged FLAG     *)
(* between two frames does not take both of them down.                     *)
(***************************************************************************)
OneFrameAFault == Cardinality(heard \ Taken) <= faults

(***************************************************************************)
(* No silent gap: when a frame was completed between two deliveries and    *)
(* not delivered, sk_decoder_feed has returned an error in between.  Only  *)
(* the first frames after the receiver attached can vanish without one:    *)
(* a decoder that has seen no FLAG yet ignores them.                       *)
(***************************************************************************)
GapsAreReported ==
    [][/\ took # <<>> /\ took' # took
       /\ \E j \in heard \ Taken : LastTaken < j /\ j < LastTaken'
       => errors > 0]_vars
=============================================================================
