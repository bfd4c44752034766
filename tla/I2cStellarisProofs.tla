------------------------- MODULE I2cStellarisProofs -------------------------
(***************************************************************************)
(* What I2cStellaris promises for calls of every length: the bus is        *)
(* released, and on a controller that is busy at once a call is the        *)
(* transaction of I2cBus.                                                  *)
(***************************************************************************)
EXTENDS I2cStellaris, TLAPS

\* The first n bytes, of the caller or of the slave.
Bytes(n) == Bus!Count(n)

(***************************************************************************)
(* Where a call can be, and for which of its bytes the STOP was commanded: *)
(* the last one of the call, and none before it.                           *)
(***************************************************************************)
Writing == phase = "write" /\ i < wlen
Reading == phase = "read" /\ op = "write_read" /\ i < rlen

ControlInv ==
    /\ pc \in {"idle", "write", "read", "poll", "status"}
    /\ op \in {"write", "write_read"}
    /\ wlen \in Nat /\ rlen \in Nat /\ i \in Nat
    /\ status \in {"ok", "nack", "arblst"}
    /\ op = "write_read" /\ pc # "idle" => rlen > 0
    /\ pc = "write" => Writing
    /\ pc = "read" => Reading
    /\ pc \in {"poll", "status"} => Writing \/ Reading
    /\ pc = "idle" => ~held
    /\ pc \in {"poll", "status"} =>
          /\ phase = "write" /\ op = "write" /\ i = wlen - 1 => ~held
          /\ phase = "read" /\ i = rlen - 1 => ~held

LEMMA ControlStart == Init => ControlInv
  BY DEF Init, ControlInv

LEMMA ControlStep == ControlInv /\ [Next]_vars => ControlInv'
<1>. SUFFICES ASSUME ControlInv, [Next]_vars PROVE ControlInv'
  OBVIOUS
<1>. USE DEF ControlInv, Writing, Reading, call, hardware, history
<1>1. CASE WriteByte
  BY <1>1 DEF WriteByte, Command, StartBit, StopBit
<1>2. CASE ReadByte
  BY <1>2 DEF ReadByte, Command, StartBit
<1>3. CASE Poll
  BY <1>3 DEF Poll
<1>4. CASE Status
  <2>1. CASE mcs_to_status # I2C_OK
    BY <1>4, <2>1 DEF Status, Command, Return
  <2>2. CASE mcs_to_status = I2C_OK
    <3>1. CASE phase = "write"
      BY <1>4, <2>2, <3>1 DEF Status, Return
    <3>2. CASE phase = "read"
      BY <1>4, <2>2, <3>2 DEF Status, Return
    <3>. QED
      BY <1>4, <3>1, <3>2 DEF Status
  <2>. QED
    BY <2>1, <2>2
<1>5. CASE Controller
  BY <1>5 DEF Controller, Start, Finish
<1>6. ASSUME NEW o \in {"write", "write_read"}, NEW w \in WriteLens, NEW r \in ReadLens,
             Call(o, w, r)
      PROVE  ControlInv'
  <2>1. w \in Nat /\ r \in Nat
    BY StellarisAssumption
  <2>2. CASE w = 0 \/ (o = "write_read" /\ r = 0)
    BY <1>6, <2>1, <2>2 DEF Call, Return
  <2>3. CASE ~(w = 0 \/ (o = "write_read" /\ r = 0))
    BY <1>6, <2>1, <2>3 DEF Call
  <2>. QED
    BY <2>2, <2>3
<1>7. CASE UNCHANGED vars
  BY <1>7 DEF vars
<1>. QED
  BY <1>1, <1>2, <1>3, <1>4, <1>5, <1>6, <1>7 DEF Next, Cpu

\* Every return, on success and on each error path, leaves the bus released.
THEOREM BusIsReleased == Spec => []BusReleasedOnReturn
<1>1. ControlInv => BusReleasedOnReturn
  BY DEF ControlInv, BusReleasedOnReturn
<1>. QED
  BY <1>1, ControlStart, ControlStep, PTL DEF Spec

LEMMA StatusIsCode == mcs_to_status \in I2C_ERR_PARAM .. I2C_OK
  BY DEF mcs_to_status, I2C_ERR_PARAM, I2C_ERR_BUS, I2C_ERR_NACK, I2C_OK

(* TypeOK in two parts: the truth values and the rest. *)
Flags == held \in BOOLEAN /\ eager \in BOOLEAN /\ settle \in BOOLEAN

Values ==
    /\ pc \in {"idle", "write", "read", "poll", "status"}
    /\ op \in {"write", "write_read"} /\ wlen \in Nat /\ rlen \in Nat
    /\ phase \in {"write", "read"} /\ rdata \in Seq(Int)
    /\ i \in Nat
    /\ rc \in I2C_ERR_PARAM .. I2C_OK
    /\ ctl \in {"ready", "settling", "busy"}
    /\ cmd \subseteq {"RUN", "START", "STOP", "ACK", "RECEIVE"}
    /\ status \in {"ok", "nack", "arblst"} /\ mdr \in Int
    /\ served \in Nat /\ taken \in Seq(Int)

LEMMA CommandFlags ==
  ASSUME NEW bits, Command(bits)
  PROVE  held' \in BOOLEAN /\ eager' = eager
  BY Zenon DEF Command

LEMMA FlagsStep == Flags /\ [Next]_vars => Flags'
<1>. SUFFICES ASSUME Flags, [Next]_vars PROVE Flags'
  OBVIOUS
<1>. USE DEF Flags, hardware, history
<1>1. CASE WriteByte
  BY <1>1, CommandFlags, Zenon DEF WriteByte
<1>2. CASE ReadByte
  BY <1>2, CommandFlags, Zenon DEF ReadByte
<1>3. CASE Poll
  BY <1>3 DEF Poll
<1>4. CASE Status
  <2>1. UNCHANGED settle
    BY <1>4 DEF Status
  <2>2. CASE mcs_to_status # I2C_OK
    <3>1. Command({"STOP"})
      BY <1>4, <2>2 DEF Status
    <3>. QED
      BY <2>1, <3>1, CommandFlags
  <2>3. CASE mcs_to_status = I2C_OK
    <3>1. UNCHANGED history
      BY <1>4, <2>3 DEF Status
    <3>. QED
      BY <2>1, <3>1
  <2>. QED
    BY <2>2, <2>3
<1>5. CASE Start
  BY <1>5 DEF Start
<1>6. ASSUME NEW outcome \in {"ok", "nack", "arblst"}, Finish(outcome)
      PROVE  Flags'
  BY <1>6 DEF Finish
<1>7. ASSUME NEW o \in {"write", "write_read"}, NEW w \in WriteLens, NEW r \in ReadLens,
             Call(o, w, r)
      PROVE  Flags'
  <2>1. eager' = (ctl # "ready") /\ UNCHANGED <<settle, held>>
    BY <1>7 DEF Call
  <2>2. eager' \in BOOLEAN
    BY <2>1, Zenon
  <2>. QED
    BY <2>1, <2>2
<1>8. CASE UNCHANGED vars
  BY <1>8 DEF vars
<1>. QED
  BY <1>1, <1>2, <1>3, <1>4, <1>5, <1>6, <1>7, <1>8 DEF Next, Cpu, Controller

LEMMA ValuesStep == Values /\ [Next]_vars => Values'
<1>. SUFFICES ASSUME Values, [Next]_vars PROVE Values'
  OBVIOUS
<1>. USE DEF Values, call, hardware
<1>1. CASE WriteByte
  <2>1. -(i + 1) \in Int
    OBVIOUS
  <2>2. cmd' \subseteq {"RUN", "START", "STOP", "ACK", "RECEIVE"}
        /\ ctl' \in {"ready", "settling", "busy"}
    BY <1>1 DEF WriteByte, Command, StartBit, StopBit
  <2>. QED
    BY <1>1, <2>1, <2>2 DEF WriteByte
<1>2. CASE ReadByte
  BY <1>2 DEF ReadByte, Command, StartBit
<1>3. CASE Poll
  BY <1>3 DEF Poll
<1>4. CASE Status
  <2>1. CASE mcs_to_status # I2C_OK
    BY <1>4, <2>1, StatusIsCode DEF Status, Command, Return
  <2>2. CASE mcs_to_status = I2C_OK
    <3>1. rdata' = IF phase = "read" THEN Append(rdata, mdr) ELSE rdata
      BY <1>4, <2>2 DEF Status
    <3>2. Append(rdata, mdr) \in Seq(Int)
      OBVIOUS
    <3>3. rdata' \in Seq(Int)
      BY <3>1, <3>2
    <3>4. I2C_OK \in I2C_ERR_PARAM .. I2C_OK
      BY DEF I2C_ERR_PARAM, I2C_OK
    <3>. QED
      BY <1>4, <2>2, <3>3, <3>4 DEF Status, Return
  <2>. QED
    BY <2>1, <2>2
<1>5. CASE Start
  BY <1>5 DEF Start
<1>6. ASSUME NEW outcome \in {"ok", "nack", "arblst"}, Finish(outcome)
      PROVE  Values'
  <2>1. Append(taken, -mdr) \in Seq(Int) /\ -mdr \in Int
    OBVIOUS
  <2>2. UNCHANGED <<pc, op, wlen, rlen, i, phase, rdata, rc, cmd>> /\ ctl' = "ready"
    BY <1>6 DEF Finish
  <2>3. status' \in {"ok", "nack", "arblst"}
    BY <1>6 DEF Finish
  <2>4. served' \in Nat /\ mdr' \in Int /\ taken' \in Seq(Int)
    <3>1. \/ UNCHANGED <<served, taken, mdr>>
          \/ served' = served + 1 /\ mdr' = served + 1 /\ taken' = taken
          \/ taken' = Append(taken, -mdr) /\ UNCHANGED <<served, mdr>>
      BY <1>6 DEF Finish
    <3>2. CASE UNCHANGED <<served, taken, mdr>>
      BY <3>2
    <3>3. CASE served' = served + 1 /\ mdr' = served + 1 /\ taken' = taken
      BY <3>3
    <3>4. CASE taken' = Append(taken, -mdr) /\ UNCHANGED <<served, mdr>>
      BY <2>1, <3>4, Zenon
    <3>. QED
      BY <3>1, <3>2, <3>3, <3>4
  <2>. QED
    BY <2>2, <2>3, <2>4
<1>7. ASSUME NEW o \in {"write", "write_read"}, NEW w \in WriteLens, NEW r \in ReadLens,
             Call(o, w, r)
      PROVE  Values'
  <2>1. w \in Nat /\ r \in Nat
    BY StellarisAssumption
  <2>2. rc' \in {I2C_OK, I2C_ERR_PARAM} /\ pc' \in {"idle", "write"}
    BY <1>7 DEF Call, Return
  <2>. QED
    BY <1>7, <2>1, <2>2 DEF Call, I2C_ERR_PARAM, I2C_OK
<1>8. CASE UNCHANGED vars
  BY <1>8 DEF vars
<1>. QED
  BY <1>1, <1>2, <1>3, <1>4, <1>5, <1>6, <1>7, <1>8 DEF Next, Cpu, Controller

\* The registers, the loops and the caller's buffer keep their types.
THEOREM BackendTypeCorrect == Spec => []TypeOK
<1>1. Init => Flags /\ Values
  <2>1. Init => Flags
    BY StellarisAssumption, Zenon DEF Init, Flags
  <2>2. Init => Values
    BY DEF Init, Values, I2C_OK, I2C_ERR_PARAM
  <2>. QED
    BY <2>1, <2>2
<1>2. ControlInv /\ Flags /\ Values => TypeOK
  BY DEF ControlInv, Flags, Values, Writing, Reading, TypeOK
<1>. QED
  BY <1>1, <1>2, FlagsStep, ValuesStep, ControlStart, ControlStep, PTL DEF Spec

-----------------------------------------------------------------------------
LEMMA BytesGrow ==
  /\ Bytes(0) = <<>>
  /\ \A n \in Nat : /\ Len(Bytes(n)) = n
                   /\ Bytes(n) \in Seq(Int)
                   /\ Append(Bytes(n), n + 1) = Bytes(n + 1)
<1>1. Bytes(0) = <<>>
  BY DEF Bytes, Bus!Count
<1>2. ASSUME NEW n \in Nat
      PROVE  /\ Len(Bytes(n)) = n
             /\ Bytes(n) \in Seq(Int)
             /\ Append(Bytes(n), n + 1) = Bytes(n + 1)
  BY DEF Bytes, Bus!Count
<1>. QED
  BY <1>1, <1>2

(***************************************************************************)
(* What reading relies on, on a controller that is busy at once: it is     *)
(* ready whenever the processor is not polling, but for the STOP of a      *)
(* failed call that the next one may still meet with its first byte; and   *)
(* I2CMDR holds the byte of the transfer that just ended, which is the     *)
(* one the loop is at.                                                     *)
(***************************************************************************)
ReadInv ==
    ~settle =>
      /\ ctl \in {"ready", "busy"}
      /\ pc \in {"read", "status"} => ctl = "ready"
      /\ pc \in {"idle", "write"} /\ ctl = "busy" => "RUN" \notin cmd
      /\ pc = "write" /\ ctl = "busy" => i = 0
      /\ pc = "poll" /\ ctl = "busy" =>
            /\ phase = "read" => "RUN" \in cmd /\ "RECEIVE" \in cmd
            /\ phase = "write" => "RUN" \notin cmd \/ "RECEIVE" \notin cmd
      /\ pc # "idle" /\ phase = "write" => rdata = <<>> /\ served = 0
      /\ pc # "idle" /\ phase = "read" =>
            /\ rdata = Bytes(i)
            /\ pc = "read" \/ ctl = "busy" => served = i
            /\ pc # "read" /\ ctl = "ready" /\ status = "ok" => mdr = i + 1 /\ served = i + 1
      /\ pc = "idle" => \E n \in Nat :
            rdata = Bytes(n) /\ (rc = I2C_OK /\ phase = "read" => n = rlen)

(***************************************************************************)
(* What writing relies on, in a call that found the controller ready: each *)
(* byte the loop is past was taken by the slave, and I2CMDR holds the next *)
(* one while the controller sends it.                                      *)
(***************************************************************************)
WriteInv ==
    ~settle /\ ~eager =>
      /\ pc = "write" => ctl = "ready" /\ taken = Bytes(i)
      /\ pc \in {"poll", "status"} /\ phase = "write" =>
            /\ ctl = "busy" =>
                  "RUN" \in cmd /\ "RECEIVE" \notin cmd /\ mdr = -(i + 1) /\ taken = Bytes(i)
            /\ ctl = "ready" => taken = Bytes(IF status = "ok" THEN i + 1 ELSE i)
      /\ pc # "idle" /\ phase = "read" => taken = Bytes(wlen)

DataInv == ControlInv /\ ReadInv /\ WriteInv

LEMMA DataStart == Init => DataInv
<1>1. Init => ControlInv
  BY ControlStart
<1>2. Init => ReadInv /\ WriteInv
  BY BytesGrow DEF Init, ReadInv, WriteInv
<1>. QED
  BY <1>1, <1>2 DEF DataInv

LEMMA CallData ==
  ASSUME DataInv, NEW o \in {"write", "write_read"}, NEW w \in WriteLens, NEW r \in ReadLens,
         Call(o, w, r)
  PROVE  ReadInv' /\ WriteInv'
<1>1. CASE w = 0 \/ (o = "write_read" /\ r = 0)
  <2>1. pc' = "idle" /\ rdata' = Bytes(0) /\ phase' = "write"
    BY <1>1, BytesGrow DEF Call, Return
  <2>2. UNCHANGED <<settle, ctl, cmd>>
    BY DEF Call
  <2>3. pc = "idle"
    BY DEF Call
  <2>. QED
    BY <2>1, <2>2, <2>3 DEF DataInv, ReadInv, WriteInv
<1>2. CASE ~(w = 0 \/ (o = "write_read" /\ r = 0))
  BY <1>2, BytesGrow DEF Call, DataInv, ReadInv, WriteInv
<1>. QED
  BY <1>1, <1>2

LEMMA WriteByteData ==
  ASSUME DataInv, WriteByte
  PROVE  ReadInv' /\ WriteInv'
  BY DEF DataInv, ControlInv, Writing, ReadInv, WriteInv, WriteByte, Command, StartBit,
         StopBit, call, history

LEMMA ReadByteData ==
  ASSUME DataInv, ReadByte
  PROVE  ReadInv' /\ WriteInv'
  BY DEF DataInv, ControlInv, Reading, ReadInv, WriteInv, ReadByte, Command, StartBit,
         call, history

LEMMA PollData ==
  ASSUME DataInv, Poll
  PROVE  ReadInv' /\ WriteInv'
  BY DEF DataInv, ReadInv, WriteInv, Poll, call, hardware, history

LEMMA StatusData ==
  ASSUME DataInv, Status
  PROVE  ReadInv' /\ WriteInv'
<1>. USE DEF DataInv, call, history
<1>0. pc = "status" /\ i \in Nat /\ wlen \in Nat /\ (Writing \/ Reading)
  BY DEF Status, ControlInv
<1>1. CASE mcs_to_status # I2C_OK
  <2>1. /\ pc' = "idle" /\ rc' # I2C_OK /\ rdata' = rdata /\ settle' = settle
        /\ eager' = eager
    BY <1>1 DEF Status, Command, Return
  <2>2. ~settle => cmd' = {"STOP"} /\ ctl' = "busy"
    BY <1>0, <1>1 DEF Status, Command, ReadInv
  <2>3. ~settle => \E n \in Nat : rdata = Bytes(n)
    BY <1>0, BytesGrow DEF ReadInv, Writing, Reading
  <2>. QED
    BY <2>1, <2>2, <2>3 DEF ReadInv, WriteInv
<1>2. CASE mcs_to_status = I2C_OK
  <2>0. /\ status = "ok"
        /\ UNCHANGED <<call, settle, ctl, cmd, status, mdr, served, taken, eager>>
    BY <1>2 DEF Status, ControlInv, mcs_to_status, I2C_OK, I2C_ERR_BUS, I2C_ERR_NACK
  <2>1. CASE Writing
    <3>1. CASE i + 1 < wlen
      BY <1>0, <1>2, <2>0, <2>1, <3>1 DEF Status, Writing, ReadInv, WriteInv
    <3>2. CASE i + 1 = wlen /\ op = "write_read"
      BY <1>0, <1>2, <2>0, <2>1, <3>2, BytesGrow DEF Status, Writing, ReadInv, WriteInv
    <3>3. CASE i + 1 = wlen /\ op # "write_read"
      <4>1. pc' = "idle" /\ phase' = "write" /\ rdata' = rdata
        BY <1>0, <1>2, <2>1, <3>3 DEF Status, Writing, Return
      <4>. QED
        BY <1>0, <2>0, <2>1, <4>1, BytesGrow DEF Writing, ReadInv, WriteInv
    <3>. QED
      BY <1>0, <2>1, <3>1, <3>2, <3>3 DEF Writing
  <2>2. CASE Reading
    <3>0. rdata' = Append(rdata, mdr)
      BY <1>2, <2>2 DEF Status, Reading
    <3>1. ~settle => rdata' = Bytes(i + 1)
      BY <1>0, <2>0, <2>2, <3>0, BytesGrow DEF Reading, ReadInv
    <3>2. CASE i + 1 < rlen
      BY <1>0, <1>2, <2>0, <2>2, <3>1, <3>2 DEF Status, Reading, ReadInv, WriteInv
    <3>3. CASE i + 1 = rlen
      <4>1. pc' = "idle"
        BY <1>0, <1>2, <2>2, <3>3 DEF Status, Reading, Return
      <4>. QED
        BY <1>0, <2>0, <2>2, <3>1, <3>3, <4>1 DEF Reading, ReadInv, WriteInv
    <3>. QED
      BY <1>0, <2>2, <3>2, <3>3 DEF Reading, ControlInv
  <2>. QED
    BY <1>0, <2>1, <2>2
<1>. QED
  BY <1>1, <1>2

LEMMA ControllerData ==
  ASSUME DataInv, Controller
  PROVE  ReadInv' /\ WriteInv'
<1>. USE DEF DataInv, call, history
<1>1. CASE Start
  BY <1>1 DEF Start, ReadInv, WriteInv
<1>2. ASSUME NEW outcome \in {"ok", "nack", "arblst"}, Finish(outcome)
      PROVE  ReadInv' /\ WriteInv'
  <2>0. i \in Nat /\ wlen \in Nat
    BY DEF ControlInv
  <2>1. UNCHANGED <<pc, call, i, phase, rdata, rc, settle, cmd, history>>
    BY <1>2 DEF Finish
  <2>2. ctl = "busy" /\ ctl' = "ready"
    BY <1>2 DEF Finish
  <2>3. CASE "RUN" \notin cmd
    <3>1. UNCHANGED <<served, taken, mdr>>
      BY <1>2, <2>3 DEF Finish
    <3>2. ~settle => pc \notin {"read", "status"} /\ (pc = "poll" => phase = "write")
      BY <2>2, <2>3 DEF ReadInv, ControlInv, Writing, Reading
    <3>3. ~settle /\ ~eager => pc = "idle"
      BY <2>2, <2>3, <3>2 DEF ReadInv, WriteInv, ControlInv
    <3>. QED
      BY <2>1, <2>2, <2>3, <3>1, <3>2, <3>3 DEF ReadInv, WriteInv, ControlInv, Writing, Reading
  <2>4. CASE "RUN" \in cmd
    <3>1. status' = outcome
      BY <1>2, <2>4 DEF Finish
    <3>2. ~settle => pc = "poll"
      BY <2>2, <2>4 DEF ReadInv, ControlInv
    <3>3. CASE outcome # "ok"
      <4>1. UNCHANGED <<served, taken, mdr>>
        BY <1>2, <3>3 DEF Finish
      <4>. QED
        BY <2>0, <2>1, <2>2, <3>1, <3>2, <3>3, <4>1 DEF ReadInv, WriteInv
    <3>4. CASE outcome = "ok" /\ "RECEIVE" \in cmd
      <4>1. served' = served + 1 /\ mdr' = served + 1 /\ taken' = taken
        BY <1>2, <2>4, <3>4 DEF Finish
      <4>2. ~settle => phase = "read"
        BY <2>2, <2>4, <3>2, <3>4 DEF ReadInv, ControlInv, Writing, Reading
      <4>. QED
        BY <2>0, <2>1, <2>2, <3>1, <3>2, <3>4, <4>1, <4>2 DEF ReadInv, WriteInv
    <3>5. CASE outcome = "ok" /\ "RECEIVE" \notin cmd
      <4>1. taken' = Append(taken, -mdr) /\ UNCHANGED <<served, mdr>>
        BY <1>2, <2>4, <3>5 DEF Finish
      <4>2. ~settle => phase = "write"
        BY <2>2, <3>2, <3>5 DEF ReadInv, ControlInv, Writing, Reading
      <4>3. ~settle /\ ~eager => taken = Bytes(i) /\ mdr = -(i + 1)
        BY <2>2, <3>2, <4>2 DEF WriteInv
      <4>4. ~settle /\ ~eager => taken' = Bytes(i + 1)
        <5>1. ~settle /\ ~eager => -mdr = i + 1
          BY <2>0, <4>3
        <5>. QED
          BY <2>0, <4>1, <4>3, <5>1, BytesGrow
      <4>. QED
        BY <2>0, <2>1, <2>2, <3>1, <3>2, <3>5, <4>1, <4>2, <4>4 DEF ReadInv, WriteInv
    <3>. QED
      BY <3>3, <3>4, <3>5
  <2>. QED
    BY <2>3, <2>4
<1>. QED
  BY <1>1, <1>2 DEF Controller

LEMMA DataStep == DataInv /\ [Next]_vars => DataInv'
<1>. SUFFICES ASSUME DataInv, [Next]_vars PROVE DataInv'
  OBVIOUS
<1>1. ControlInv'
  BY ControlStep DEF DataInv
<1>2. ReadInv' /\ WriteInv'
  <2>1. CASE UNCHANGED vars
    BY <2>1 DEF vars, call, hardware, history, DataInv, ReadInv, WriteInv
  <2>. QED
    BY <2>1, CallData, WriteByteData, ReadByteData, PollData, StatusData, ControllerData
    DEF Next, Cpu
<1>. QED
  BY <1>1, <1>2 DEF DataInv

\* On a controller that is busy at once, a read that returns I2C_OK filled
\* the buffer with exactly the bytes the slave sent.
THEOREM ReadsAreExact == Spec => []PromptBusyIsEnough
<1>1. DataInv => PromptBusyIsEnough
  <2>. SUFFICES ASSUME DataInv, ~settle PROVE BufferIsWhatTheSlaveSent
    BY DEF PromptBusyIsEnough
  <2>1. PICK n \in Nat : /\ rdata = Bytes(n)
                         /\ pc = "idle" /\ rc = I2C_OK /\ phase = "read" => n = rlen
    <3>1. CASE pc = "idle"
      BY <3>1 DEF DataInv, ReadInv
    <3>2. CASE pc # "idle" /\ phase = "write"
      <4>1. rdata = Bytes(0)
        BY <3>2, BytesGrow DEF DataInv, ReadInv
      <4>. QED
        BY <3>2, <4>1
    <3>3. CASE pc # "idle" /\ phase = "read"
      BY <3>3 DEF DataInv, ControlInv, ReadInv
    <3>4. pc # "idle" => phase \in {"write", "read"}
      BY DEF DataInv, ControlInv, Writing, Reading
    <3>. QED
      BY <3>1, <3>2, <3>3, <3>4
  <2>2. Len(rdata) = n
    BY <2>1, BytesGrow
  <2>. QED
    BY <2>1, <2>2 DEF BufferIsWhatTheSlaveSent, Bytes, Bus!Count
<1>. QED
  BY <1>1, DataStart, DataStep, PTL DEF Spec

-----------------------------------------------------------------------------
(***************************************************************************)
(* The refinement, step by step: the transfer of a byte to the slave is    *)
(* the end of a command, the transfer of one from it the read of I2CMDR.   *)
(***************************************************************************)
LEMMA CallRefines ==
  ASSUME NEW o \in {"write", "write_read"}, NEW w \in WriteLens, NEW r \in ReadLens,
         Call(o, w, r)
  PROVE  Bus!Begin
<1>1. w \in Nat /\ r \in Nat
  BY StellarisAssumption
<1>2. /\ pc = "idle" /\ op' = o /\ wlen' = w /\ rlen' = r
      /\ taken' = <<>> /\ rdata' = <<>>
  BY DEF Call
<1>3. \/ rc' = I2C_ERR_PARAM
      \/ rc' = I2C_OK /\ pc' = "write"
  BY DEF Call, Return
<1>. QED
  BY <1>1, <1>2, <1>3 DEF Bus!Begin, I2C_ERR_PARAM, I2C_OK

LEMMA FinishRefines ==
  ASSUME DataInv, ~settle, ~eager, NEW outcome \in {"ok", "nack", "arblst"}, Finish(outcome)
  PROVE  Bus!Move \/ UNCHANGED Bus!vars
<1>1. UNCHANGED <<pc, op, wlen, rlen, rdata, rc>>
  BY DEF Finish, call
<1>2. CASE taken' = taken
  BY <1>1, <1>2 DEF Bus!vars
<1>3. CASE taken' # taken
  <2>1. /\ "RUN" \in cmd /\ "RECEIVE" \notin cmd /\ ctl = "busy"
        /\ taken' = Append(taken, -mdr)
    BY <1>3 DEF Finish
  <2>2. pc = "poll"
    BY <2>1 DEF DataInv, ControlInv, ReadInv
  <2>3. phase = "write" /\ i < wlen /\ i \in Nat /\ wlen \in Nat
    BY <2>1, <2>2 DEF DataInv, ControlInv, Writing, Reading, ReadInv
  <2>4. taken = Bytes(i) /\ mdr = -(i + 1)
    BY <2>1, <2>2, <2>3 DEF DataInv, WriteInv
  <2>5. -mdr = i + 1
    BY <2>3, <2>4
  <2>6. Len(taken) = i /\ taken' = Bytes(i + 1)
    BY <2>1, <2>3, <2>4, <2>5, BytesGrow
  <2>. QED
    BY <1>1, <2>2, <2>3, <2>6 DEF Bus!Move, Bytes
<1>. QED
  BY <1>2, <1>3

LEMMA StatusRefines ==
  ASSUME DataInv, ~settle, ~eager, Status
  PROVE  Bus!Move \/ Bus!End \/ UNCHANGED Bus!vars
<1>0. /\ pc = "status" /\ ctl = "ready" /\ i \in Nat /\ wlen \in Nat /\ rlen \in Nat
      /\ (Writing \/ Reading)
      /\ UNCHANGED <<op, wlen, rlen, taken>>
  BY DEF Status, DataInv, ControlInv, ReadInv, call
<1>1. CASE mcs_to_status # I2C_OK
  <2>1. pc' = "idle" /\ rdata' = rdata /\ rc' = mcs_to_status
    BY <1>1 DEF Status, Return
  <2>2. mcs_to_status \in {I2C_ERR_BUS, I2C_ERR_NACK}
    BY <1>1 DEF mcs_to_status, DataInv, ControlInv
  <2>. QED
    BY <1>0, <2>1, <2>2 DEF Bus!End, I2C_ERR_BUS, I2C_ERR_NACK, I2C_ERR_PARAM, I2C_OK
<1>2. CASE mcs_to_status = I2C_OK
  <2>0. status = "ok"
    BY <1>2 DEF DataInv, ControlInv, mcs_to_status, I2C_OK, I2C_ERR_BUS, I2C_ERR_NACK
  <2>1. CASE Writing
    <3>1. rdata' = rdata
      BY <1>2, <2>1 DEF Status, Writing
    <3>2. CASE i + 1 < wlen \/ op = "write_read"
      <4>1. pc' # "idle" /\ rc' = rc
        BY <1>0, <1>2, <2>1, <3>2 DEF Status, Writing
      <4>. QED
        BY <1>0, <3>1, <4>1 DEF Bus!vars
    <3>3. CASE i + 1 = wlen /\ op = "write"
      <4>1. pc' = "idle" /\ rc' = I2C_OK
        BY <1>0, <1>2, <2>1, <3>3 DEF Status, Writing, Return
      <4>2. Len(taken) = wlen /\ Len(rdata) = 0
        BY <1>0, <2>0, <2>1, <3>3, BytesGrow DEF DataInv, ReadInv, WriteInv, Writing
      <4>. QED
        BY <1>0, <3>1, <3>3, <4>1, <4>2 DEF Bus!End, I2C_OK, I2C_ERR_PARAM
    <3>. QED
      BY <1>0, <2>1, <3>2, <3>3 DEF DataInv, ControlInv, Writing
  <2>2. CASE Reading
    <3>1. /\ rdata' = Append(rdata, mdr) /\ rdata = Bytes(i) /\ mdr = i + 1
          /\ taken = Bytes(wlen)
      BY <1>0, <1>2, <2>0, <2>2 DEF Status, Reading, DataInv, ReadInv, WriteInv
    <3>2. rdata' = Bytes(i + 1) /\ Len(rdata) = i /\ Len(taken) = wlen /\ Len(rdata') = i + 1
      <4>1. i \in Nat /\ i + 1 \in Nat
        BY <1>0
      <4>2. rdata' = Bytes(i + 1)
        BY <3>1, <4>1, BytesGrow
      <4>. QED
        BY <1>0, <3>1, <4>1, <4>2, BytesGrow
    <3>3. CASE i + 1 < rlen
      <4>1. pc' = "read" /\ rc' = rc
        BY <1>2, <2>2, <3>3 DEF Status, Reading
      <4>. QED
        BY <1>0, <2>2, <3>2, <3>3, <4>1 DEF Bus!Move, Bytes, Reading
    <3>4. CASE i + 1 = rlen
      <4>1. pc' = "idle" /\ rc' = I2C_OK
        BY <1>0, <1>2, <2>2, <3>4 DEF Status, Reading, Return
      <4>. QED
        BY <1>0, <2>2, <3>2, <3>4, <4>1 DEF Bus!End, Bytes, Reading, I2C_OK, I2C_ERR_PARAM
    <3>. QED
      BY <1>0, <2>2, <3>3, <3>4 DEF Reading
  <2>. QED
    BY <1>0, <2>1, <2>2
<1>. QED
  BY <1>1, <1>2

\* On that controller, and but for a call that finds it at the STOP of a
\* failed one, the backend is the bus that i2c.h promises.
THEOREM BackendImplementsBus == Spec => ImplementsBus
<1>1. DataInv /\ [Next]_vars => (~settle /\ ~eager' => [Bus!Next]_(Bus!vars))
  <2>. SUFFICES ASSUME DataInv, [Next]_vars, ~settle, ~eager' PROVE [Bus!Next]_(Bus!vars)
    OBVIOUS
  <2>1. CASE WriteByte
    BY <2>1 DEF WriteByte, call, Bus!vars
  <2>2. CASE ReadByte
    BY <2>2 DEF ReadByte, call, Bus!vars
  <2>3. CASE Poll
    BY <2>3 DEF Poll, call, hardware, Bus!vars
  <2>4. CASE Status
    <3>1. eager' = eager
      BY <2>4 DEF Status, Command, history
    <3>. QED
      BY <2>4, <3>1, StatusRefines DEF Bus!Next
  <2>5. CASE Start
    BY <2>5 DEF Start, call, Bus!vars
  <2>6. ASSUME NEW outcome \in {"ok", "nack", "arblst"}, Finish(outcome)
        PROVE  [Bus!Next]_(Bus!vars)
    <3>1. eager' = eager
      BY <2>6 DEF Finish, history
    <3>. QED
      BY <2>6, <3>1, FinishRefines DEF Bus!Next
  <2>7. ASSUME NEW o \in {"write", "write_read"}, NEW w \in WriteLens, NEW r \in ReadLens,
               Call(o, w, r)
        PROVE  [Bus!Next]_(Bus!vars)
    BY <2>7, CallRefines DEF Bus!Next
  <2>8. CASE UNCHANGED vars
    BY <2>8 DEF vars, call, hardware, Bus!vars
  <2>. QED
    BY <2>1, <2>2, <2>3, <2>4, <2>5, <2>6, <2>7, <2>8 DEF Next, Cpu, Controller
<1>. QED
  BY <1>1, DataStart, DataStep, PTL DEF Spec, ImplementsBus
=============================================================================
