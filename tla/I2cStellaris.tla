---------------------------- MODULE I2cStellaris ----------------------------
(***************************************************************************)
(* firmware/i2c_stellaris.c: the hardware backend of i2c_bus_t, one action *)
(* per group of register accesses, interleaved with the I2C0 master        *)
(* controller it polls.  The controller and the slave are external: a      *)
(* command makes the controller busy, at once or (settle) a little later,  *)
(* and it ends acknowledged, unacknowledged or with the arbitration lost - *)
(* or never, if something on the bus holds the clock.  A command written   *)
(* while the controller is at another one is taken in its place or lost.   *)
(***************************************************************************)
EXTENDS Integers, Sequences

CONSTANTS
    WriteLens,      \* the len and wlen arguments
    ReadLens,       \* the rlen arguments
    Settling        \* whether BUSY reads 0 for a while after a command

ASSUME StellarisAssumption ==
    WriteLens \subseteq Nat /\ ReadLens \subseteq Nat /\ Settling \subseteq BOOLEAN

I2C_OK == 0
I2C_ERR_NACK == -1
I2C_ERR_BUS == -2
I2C_ERR_PARAM == -3

VARIABLES
    pc,             \* "idle", "write", "read": next byte; "poll", "status"
    op, wlen, rlen, \* the call: stellaris_write or stellaris_write_read
    i,              \* bytes done in this phase
    phase,          \* the loop running: "write" or "read"
    rdata,          \* the caller's read buffer so far
    rc,             \* what the last call returned
    settle,         \* this controller is one whose BUSY comes late
    ctl,            \* the controller: "ready", "settling" or "busy"
    cmd,            \* the command bits last written to I2CMCS
    status,         \* how the last command ended
    mdr,            \* I2CMDR: the slave's bytes are 1, 2, ..., the caller's -1, -2, ...
    served, taken,  \* history: how many bytes the slave sent in this call, and
                    \* which ones it took
    held,           \* history: a START was commanded and no STOP yet
    eager           \* history: this call found the controller busy

call == <<op, wlen, rlen>>
hardware == <<settle, ctl, cmd, status, mdr, served, taken>>
history == <<held, eager>>
vars == <<pc, call, i, phase, rdata, rc, hardware, history>>

Init ==
    /\ pc = "idle" /\ op = "write" /\ wlen = 0 /\ rlen = 0
    /\ i = 0 /\ phase = "write" /\ rdata = <<>> /\ rc = I2C_OK
    /\ settle \in Settling
    /\ ctl = "ready" /\ cmd = {} /\ status = "ok" /\ mdr = 0
    /\ served = 0 /\ taken = <<>> /\ held = FALSE /\ eager = FALSE

\* The call returns; what it left in the registers stays there.
Return(code) == pc' = "idle" /\ rc' = code

\* A call with no byte to write, or a read of none, touches no register.
Call(o, w, r) ==
    /\ pc = "idle"
    /\ op' = o /\ wlen' = w /\ rlen' = r
    /\ i' = 0 /\ phase' = "write" /\ rdata' = <<>>
    /\ served' = 0 /\ taken' = <<>> /\ eager' = (ctl # "ready")
    /\ IF w = 0 \/ (o = "write_read" /\ r = 0)
       THEN Return(I2C_ERR_PARAM)
       ELSE pc' = "write" /\ rc' = I2C_OK
    /\ UNCHANGED <<settle, ctl, cmd, status, mdr, held>>

\* A command goes to I2CMCS.
Command(bits) ==
    /\ \/ cmd' = bits /\ ctl' = IF settle THEN "settling" ELSE "busy"
       \/ ctl # "ready" /\ UNCHANGED <<cmd, ctl>>
    /\ held' = (("START" \in bits \/ held) /\ "STOP" \notin bits)
    /\ UNCHANGED eager

StopBit(last) == IF last THEN {"STOP"} ELSE {}
StartBit == IF i = 0 THEN {"START"} ELSE {}

\* MDR and MCS of one byte to send; a write ends with STOP, the register
\* pointer of a write_read keeps the bus for the repeated START.
WriteByte ==
    /\ pc = "write"
    /\ mdr' = -(i + 1)
    /\ Command({"RUN"} \cup StartBit \cup StopBit(op = "write" /\ i = wlen - 1))
    /\ pc' = "poll"
    /\ UNCHANGED <<call, i, phase, rdata, rc, settle, status, served, taken>>

\* Mutant: no STOP with the last byte.
ReadByte_NoStop ==
    /\ pc = "read"
    /\ Command({"RECEIVE", "RUN", "ACK"} \cup StartBit)
    /\ pc' = "poll"
    /\ UNCHANGED <<call, i, phase, rdata, rc, settle, status, mdr, served, taken>>

\* MSA and MCS of one byte to receive: all but the last one acknowledged.
ReadByte ==
    /\ pc = "read"
    /\ Command({"RECEIVE", "RUN"} \cup StartBit \cup
               IF i = rlen - 1 THEN {"STOP"} ELSE {"ACK"})
    /\ pc' = "poll"
    /\ UNCHANGED <<call, i, phase, rdata, rc, settle, status, mdr, served, taken>>

\* Mutant: nobody waits for BUSY to clear.
Poll_NoWait ==
    /\ pc = "poll"
    /\ pc' = "status"
    /\ UNCHANGED <<call, i, phase, rdata, rc, hardware, history>>

\* i2c_wait leaves its loop at the first read of MCS with BUSY clear ...
Poll ==
    /\ pc = "poll" /\ ctl # "busy"
    /\ pc' = "status"
    /\ UNCHANGED <<call, i, phase, rdata, rc, hardware, history>>

\* Mutant: only the arbitration is looked at.
mcs_to_status_NoAck == IF status = "arblst" THEN I2C_ERR_BUS ELSE I2C_OK

mcs_to_status == CASE status = "arblst" -> I2C_ERR_BUS
                   [] status = "nack"   -> I2C_ERR_NACK
                   [] OTHER             -> I2C_OK

\* Mutants: the read loop runs once too often; the loops never move on.
Status_OneTooMany ==
    /\ pc = "status"
    /\ rdata' = IF phase = "read" THEN Append(rdata, mdr) ELSE rdata
    /\ IF i + 1 < wlen \/ (phase = "read" /\ i + 1 <= rlen)
       THEN pc' = phase /\ i' = i + 1 /\ UNCHANGED <<phase, rc>>
       ELSE IF phase = "write" /\ op = "write_read"
       THEN pc' = "read" /\ i' = 0 /\ phase' = "read" /\ UNCHANGED rc
       ELSE Return(I2C_OK) /\ UNCHANGED <<i, phase>>
    /\ UNCHANGED <<call, hardware, history>>
Status_NoProgress ==
    /\ pc = "status"
    /\ pc' = phase
    /\ UNCHANGED <<call, i, phase, rdata, rc, hardware, history>>

\* ... and reads MCS again for the outcome.  An error is answered with a
\* STOP that nobody waits for; a byte received is fetched from MDR.
Status ==
    /\ pc = "status"
    /\ IF mcs_to_status # I2C_OK
       THEN /\ Command({"STOP"})
            /\ Return(mcs_to_status)
            /\ UNCHANGED <<i, phase, rdata>>
       ELSE /\ rdata' = IF phase = "read" THEN Append(rdata, mdr) ELSE rdata
            /\ CASE phase = "write" /\ i + 1 < wlen ->
                      pc' = "write" /\ i' = i + 1 /\ UNCHANGED <<phase, rc>>
                 [] phase = "write" /\ i + 1 = wlen /\ op = "write_read" ->
                      pc' = "read" /\ i' = 0 /\ phase' = "read" /\ UNCHANGED rc
                 [] phase = "read" /\ i + 1 < rlen ->
                      pc' = "read" /\ i' = i + 1 /\ UNCHANGED <<phase, rc>>
                 [] OTHER -> Return(I2C_OK) /\ UNCHANGED <<i, phase>>
            /\ UNCHANGED <<ctl, cmd, history>>
    /\ UNCHANGED <<call, settle, status, mdr, served, taken>>

\* The controller notices the command ...
Start ==
    /\ ctl = "settling" /\ ctl' = "busy"
    /\ UNCHANGED <<pc, call, i, phase, rdata, rc, settle, cmd, status, mdr, served,
                   taken, history>>

\* ... and finishes it, a byte going one way or the other if all is well.  A
\* bare STOP moves none.
Finish(outcome) ==
    /\ ctl = "busy" /\ ctl' = "ready"
    /\ status' = IF "RUN" \in cmd THEN outcome ELSE "ok"
    /\ \/ /\ "RUN" \notin cmd \/ outcome # "ok"
          /\ UNCHANGED <<served, taken, mdr>>
       \/ /\ {"RUN", "RECEIVE"} \subseteq cmd /\ outcome = "ok"
          /\ served' = served + 1 /\ mdr' = served' /\ UNCHANGED taken
       \/ /\ "RUN" \in cmd /\ "RECEIVE" \notin cmd /\ outcome = "ok"
          /\ taken' = Append(taken, -mdr) /\ UNCHANGED <<served, mdr>>
    /\ UNCHANGED <<pc, call, i, phase, rdata, rc, settle, cmd, history>>

Cpu == WriteByte \/ ReadByte \/ Poll \/ Status
Controller == Start \/ \E outcome \in {"ok", "nack", "arblst"} : Finish(outcome)

Next == \/ Cpu
        \/ Controller
        \/ \E o \in {"write", "write_read"}, w \in WriteLens, r \in ReadLens :
              Call(o, w, r)

Spec == Init /\ [][Next]_vars

\* The processor runs; the bus need not.
CpuSpec == Spec /\ WF_vars(Cpu)

\* The bus moves on too.
FairSpec == CpuSpec /\ WF_vars(Controller)

-----------------------------------------------------------------------------
TypeOK ==
    /\ pc \in {"idle", "write", "read", "poll", "status"}
    /\ op \in {"write", "write_read"} /\ wlen \in Nat /\ rlen \in Nat
    /\ phase \in {"write", "read"} /\ rdata \in Seq(Int)
    /\ i \in Nat
    /\ pc = "write" => i < wlen
    /\ pc = "read" => i < rlen
    /\ rc \in I2C_ERR_PARAM .. I2C_OK
    /\ ctl \in {"ready", "settling", "busy"}
    /\ cmd \subseteq {"RUN", "START", "STOP", "ACK", "RECEIVE"}
    /\ status \in {"ok", "nack", "arblst"} /\ mdr \in Int
    /\ served \in Nat /\ taken \in Seq(Int)
    /\ {held, eager, settle} \subseteq BOOLEAN

(***************************************************************************)
(* Every return, on success and on each error path, comes after the        *)
(* command that releases the bus: each START commanded has its STOP        *)
(* commanded, also when the error hits between the write phase, which ends *)
(* without one, and the last byte of the read phase.                       *)
(***************************************************************************)
BusReleasedOnReturn == pc = "idle" => ~held

(***************************************************************************)
(* A read that returns I2C_OK filled the buffer with exactly the bytes the *)
(* slave sent during the call, in order: none fetched from I2CMDR before   *)
(* its transfer is over, none twice.                                       *)
(***************************************************************************)
BufferIsWhatTheSlaveSent ==
    /\ rdata = [n \in 1 .. Len(rdata) |-> n]
    /\ pc = "idle" /\ rc = I2C_OK /\ phase = "read" => Len(rdata) = rlen

\* i2c_wait makes it so on a controller that is busy at once, also for
\* a caller that retries while the STOP of a failed call is under way; the settle
\* time i2c_stellaris.c:100 speaks of is in no line of the code.
PromptBusyIsEnough == ~settle => BufferIsWhatTheSlaveSent

Bus == INSTANCE I2cBus WITH
           Code <- I2C_ERR_PARAM .. I2C_OK,
           open <- pc # "idle",
           towrite <- wlen,
           toread <- IF op = "write_read" THEN rlen ELSE 0

(***************************************************************************)
(* On that controller the backend is the bus i2c.h promises: what the      *)
(* slave took and the caller got are, byte for byte and in order, the call *)
(* when it returns I2C_OK and a first part of it when it returns an error. *)
(* A call that finds the controller at the STOP nobody waits for           *)
(* (i2c_stellaris.c:132, :162, :182) is excepted: its first command, START *)
(* and all, may be lost and the call return I2C_OK.  main, which stops at  *)
(* the first error, makes no such call.                                    *)
(***************************************************************************)
ImplementsBus ==
    [][~settle /\ ~eager' => [Bus!Next]_(Bus!vars)]_vars

(***************************************************************************)
(* Every call returns - as long as the bus makes progress.  i2c.h:34 lists *)
(* a timeout among the causes of I2C_ERR_BUS, which would make it hold     *)
(* with the processor alone running; i2c_wait has none.                    *)
(***************************************************************************)
CallReturns == pc # "idle" ~> pc = "idle"
=============================================================================
