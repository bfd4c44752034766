------------------------------ MODULE LossyFifo -----------------------------
(***************************************************************************)
(* What the node promises its receiver: frames may be lost, but what       *)
(* arrives was sent, arrives unchanged, at most once and in order.         *)
(***************************************************************************)
EXTENDS Integers, Sequences

CONSTANT Payload

VARIABLES
    sent,           \* the payloads handed to the line, in order
    pos,            \* the position in sent of the last one delivered
    got             \* the payloads delivered, in order

vars == <<sent, pos, got>>

Init == sent = <<>> /\ pos = 0 /\ got = <<>>

Send == \E p \in Payload : sent' = Append(sent, p) /\ UNCHANGED <<pos, got>>

Deliver == \E k \in pos + 1 .. Len(sent) :
               pos' = k /\ got' = Append(got, sent[k]) /\ UNCHANGED sent

Next == Send \/ Deliver

Spec == Init /\ [][Next]_vars
=============================================================================
