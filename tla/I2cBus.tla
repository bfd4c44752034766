------------------------------- MODULE I2cBus -------------------------------
(***************************************************************************)
(* What i2c.h promises a driver of any backend: write and write_read are   *)
(* transactions.  Their bytes cross the bus in order, what is read after   *)
(* what is written; I2C_OK means that all of them did, an error that some  *)
(* first part of them did.                                                 *)
(***************************************************************************)
EXTENDS Integers, Sequences

CONSTANT Code           \* i2c_status_t; 0 is I2C_OK

VARIABLES
    open,               \* a call is running
    towrite, toread,    \* the lengths it was called with
    taken, rdata,       \* the bytes the slave took and the caller got so far
    rc                  \* what the last call returned

vars == <<open, towrite, toread, taken, rdata, rc>>

Count(n) == [k \in 1 .. n |-> k]

\* A call; one with nothing to do may return at once.
Begin ==
    /\ ~open
    /\ {towrite', toread'} \subseteq Nat
    /\ taken' = <<>> /\ rdata' = <<>>
    /\ rc' \in Code
    /\ rc' = 0 => open'

Move ==
    /\ open /\ open'
    /\ \/ /\ Len(taken) < towrite
          /\ taken' = Count(Len(taken) + 1) /\ UNCHANGED rdata
       \/ /\ Len(taken) = towrite /\ Len(rdata) < toread
          /\ rdata' = Count(Len(rdata) + 1) /\ UNCHANGED taken
    /\ UNCHANGED <<towrite, toread, rc>>

End ==
    /\ open /\ ~open'
    /\ rc' \in Code
    /\ rc' = 0 => Len(taken) = towrite /\ Len(rdata') = toread
    /\ rdata' \in {rdata, Count(Len(rdata) + 1)}
    /\ UNCHANGED <<towrite, toread, taken>>

Next == Begin \/ Move \/ End
=============================================================================
