----------------------------- MODULE SharakNode -----------------------------
(***************************************************************************)
(* The firmware node from reset to the line: Reset_Handler (Startup), then *)
(* main.c's superloop over the ADXL345 driver (adxl345.c), itself over an  *)
(* I2C bus (i2c.h) with the chip of I2cSim behind it, and over the UART    *)
(* (Uart).  Each bus transaction, and each byte handed to the UART, is a   *)
(* step, so that the node can be reset and the bus can fail between any    *)
(* two of them.                                                            *)
(***************************************************************************)
EXTENDS I2cSim, Startup, Uart

CONSTANTS
    SEQ_MOD,        \* 2^16 in the code: seq is a uint16_t
    ITEM_BYTES,     \* the bytes of a text or a frame
    MaxResets       \* bound on the resets of the node

ASSUME NodeAssumption ==
    /\ SEQ_MOD \in Nat \ {0} /\ SEQ_MOD % 16 = 0
    /\ ITEM_BYTES \in Nat \ {0}
    /\ MaxResets \in Nat

ADXL345_REG_BW_RATE     == 44
ADXL345_REG_POWER_CTL   == 45
ADXL345_REG_DATA_FORMAT == 49
DATA_FORMAT_CONFIG == 11     \* FULL_RES, +-16 g
RATE_100HZ == 10
POWER_CTL_MEASURE == 8

VARIABLES
    pc,             \* what the node does next
    seq,            \* main's sequence counter
    sample,         \* main's static sample, in milli-g
    tx, sent,       \* the text or frame being written, and how far it is
    resets

node == <<pc, seq, sample, tx, sent, resets>>
nodeVars == <<vars, bootVars, uartVars, node>>

Nothing == [kind |-> "nothing"]
Banner  == [kind |-> "banner", boot |-> resets]
Error   == [kind |-> "error", boot |-> resets]
Frame   == [kind |-> "frame", boot |-> resets, seq |-> seq, sample |-> sample]

Byte(item, n) == [item |-> item, n |-> n]

ZeroSample == <<0, 0, 0>>

NodeInit ==
    /\ Init /\ StartupInit /\ UartInit
    /\ pc = "startup" /\ seq = 0 /\ sample = ZeroSample
    /\ tx = Nothing /\ sent = 0 /\ resets = 0

\* A jump of main that touches nothing but its own variables.
Goto(next) == pc' = next /\ UNCHANGED <<vars, bootVars, uartVars, resets>>

\* The startup code, until it calls main with its statics cleared.
StartUp ==
    /\ pc = "startup"
    /\ Reset_Handler
    /\ IF stage' = "main"
       THEN /\ regs' = [r \in Register |-> 0] /\ ptr' = 0 /\ phase' = 0
            /\ rdata' = <<>> /\ sample' = ZeroSample
            /\ pc' = "uart"
       ELSE UNCHANGED <<vars, sample, pc>>
    /\ UNCHANGED <<uartVars, seq, tx, sent, resets>>

\* uart_write and uart_puts begin with an item; Write does the rest.
Send(item) == pc' = "write" /\ tx' = item /\ sent' = 0

InitUart ==
    /\ pc = "uart"
    /\ uart_init
    /\ IF upc' = "ready" THEN Send(Banner) ELSE UNCHANGED <<pc, tx, sent>>
    /\ UNCHANGED <<vars, bootVars, seq, sample, resets>>

\* Where main goes on after an item.
After(kind) == CASE kind = "banner" -> "chip"
                 [] kind = "frame"  -> "pace"
                 [] kind = "error"  -> "halted"

\* Mutant: the last byte is not written.
Write_OneShort ==
    /\ pc = "write"
    /\ uart_putc(Byte(tx, sent + 1))
    /\ sent' = sent + 1
    /\ pc' = IF sent' < ITEM_BYTES - 1 THEN "write" ELSE After(tx.kind)
    /\ UNCHANGED <<vars, bootVars, seq, sample, tx, resets>>

\* One byte of an item; after the last one main goes on, or stops for good.
Write ==
    /\ pc = "write"
    /\ uart_putc(Byte(tx, sent + 1))
    /\ sent' = sent + 1
    /\ pc' = IF sent' < ITEM_BYTES THEN "write" ELSE After(tx.kind)
    /\ UNCHANGED <<vars, bootVars, seq, sample, tx, resets>>

\* i2c_sim_init and i2c_sim_bind.
InitChip ==
    /\ pc = "chip"
    /\ Reinitialise /\ rdata' = <<>> /\ MainWrites
    /\ pc' = "devid"
    /\ UNCHANGED <<uartVars, seq, sample, tx, sent, resets>>

Continue(next) == pc' = next /\ UNCHANGED <<bootVars, uartVars, seq, sample, tx, sent, resets>>

\* Error text and an endless loop, after a failure of init or of a read.
Halt == Send(Error) /\ UNCHANGED <<bootVars, uartVars, seq, sample, resets>>

\* The bus reports an error: the transaction happened, or only its first
\* byte, the register number, reached the chip, or nothing did.
Failing(transaction, reg) ==
    (transaction \/ sim_write(<<reg>>) \/ UNCHANGED vars) /\ Halt

\* adxl345_init, one transaction a step: identity first ...
CheckDevid ==
    /\ pc = "devid"
    /\ \/ /\ sim_write_read(SIM_REG_DEVID, 1)
          /\ IF rdata' = <<SIM_DEVID_VALUE>> THEN Continue("format") ELSE Halt
       \/ Failing(sim_write_read(SIM_REG_DEVID, 1), SIM_REG_DEVID)

\* Mutant: the status of a register write is not looked at.
RegWrite_Unchecked(here, reg, val, next) ==
    /\ pc = here
    /\ sim_write(<<reg, val>>) \/ UNCHANGED vars
    /\ Continue(next)

RegWrite(here, reg, val, next) ==
    /\ pc = here
    /\ \/ sim_write(<<reg, val>>) /\ Continue(next)
       \/ Failing(sim_write(<<reg, val>>), reg)

\* Mutant: measuring first.
Configure_PowerFirst ==
    \/ RegWrite("format", ADXL345_REG_POWER_CTL, POWER_CTL_MEASURE, "rate")
    \/ RegWrite("rate", ADXL345_REG_DATA_FORMAT, DATA_FORMAT_CONFIG, "power")
    \/ RegWrite("power", ADXL345_REG_BW_RATE, RATE_100HZ, "read")

\* ... then the configuration, and measuring last.
Configure ==
    \/ RegWrite("format", ADXL345_REG_DATA_FORMAT, DATA_FORMAT_CONFIG, "rate")
    \/ RegWrite("rate", ADXL345_REG_BW_RATE, RATE_100HZ, "power")
    \/ RegWrite("power", ADXL345_REG_POWER_CTL, POWER_CTL_MEASURE, "read")

\* Mutant: without the cast to int16_t.
Raw_Unsigned(bytes, axis) == bytes[2 * axis - 1] + 256 * bytes[2 * axis]

\* adxl345_decode: little-endian int16_t, scaled, the division truncating.
Raw(bytes, axis) ==
    LET low == bytes[2 * axis - 1]
        high == bytes[2 * axis]
    IN  low + 256 * IF high >= 128 THEN high - 256 ELSE high

Mg(raw) == IF raw >= 0 THEN (raw * 125) \div 32 ELSE -((-raw * 125) \div 32)

\* adxl345_read: one burst of six bytes.
ReadSample ==
    /\ pc = "read"
    /\ \/ /\ sim_write_read(SIM_REG_DATAX0, 6)
          /\ sample' = [axis \in 1 .. 3 |-> Mg(Raw(rdata', axis))]
          /\ pc' = "send"
          /\ UNCHANGED <<bootVars, uartVars, seq, tx, sent, resets>>
       \/ Failing(sim_write_read(SIM_REG_DATAX0, 6), SIM_REG_DATAX0)

\* Pack and encode succeed: the payload buffer has SK_PAYLOAD_LEN bytes and
\* the frame buffer SK_FRAME_MAX.
SendFrame ==
    /\ pc = "send"
    /\ Send(Frame)
    /\ UNCHANGED <<vars, bootVars, uartVars, seq, sample, resets>>

\* Mutant: a wider counter.
Pace_NoWrap ==
    /\ pc = "pace"
    /\ seq' = seq + 1
    /\ Goto("read") /\ UNCHANGED <<sample, tx, sent>>

\* seq++ and delay_pace.
Pace ==
    /\ pc = "pace"
    /\ seq' = (seq + 1) % SEQ_MOD
    /\ Goto("read") /\ UNCHANGED <<sample, tx, sent>>

\* The chip at the address is not an ADXL345.
ForeignChip ==
    /\ pc = "devid"
    /\ regs' = [regs EXCEPT ![SIM_REG_DEVID] = 0]
    /\ UNCHANGED <<ptr, phase, rdata, bootVars, uartVars, node>>

\* An exception: Default_Handler traps the processor.
Fault ==
    /\ pc \notin {"halted", "trapped"}
    /\ Goto("trapped") /\ UNCHANGED <<seq, sample, tx, sent>>

\* A reset of the chip or of its core, between any two steps.  RAM stays, and
\* with it the statics; what main kept in registers is gone.
Reset ==
    /\ resets < MaxResets
    /\ resets' = resets + 1
    /\ Restart
    /\ ChipReset \/ CoreReset
    /\ pc' = "startup" /\ seq' = 0 /\ tx' = Nothing /\ sent' = 0
    /\ UNCHANGED <<vars, sample>>

Step == \/ StartUp \/ InitUart \/ Write \/ InitChip
        \/ CheckDevid \/ Configure \/ ReadSample \/ SendFrame \/ Pace

Drain == Transmit /\ UNCHANGED <<vars, bootVars, node>>

NodeNext == Step \/ Drain \/ ForeignChip \/ Fault \/ Reset

\* The processor runs and the UART sends; nothing makes the bus fail or the
\* node reset.
NodeSpec == NodeInit /\ [][NodeNext]_nodeVars
                     /\ WF_nodeVars(Step) /\ WF_nodeVars(Drain)

-----------------------------------------------------------------------------
NodeTypeOK ==
    /\ TypeOK /\ StartupTypeOK /\ UartTypeOK
    /\ pc \in {"startup", "uart", "write", "chip", "devid", "format", "rate", "power",
              "read", "send", "pace", "halted", "trapped"}
    /\ seq \in 0 .. SEQ_MOD - 1
    /\ sample \in [1 .. 3 -> Int]
    /\ tx.kind \in {"nothing", "banner", "error", "frame"}
    /\ sent \in 0 .. ITEM_BYTES
    /\ resets \in 0 .. MaxResets

(***************************************************************************)
(* startup.c:80-90: whatever RAM a reset finds - never initialised, half   *)
(* copied, half cleared, or as main left it - main starts with .data and   *)
(* .bss as the program text says and nothing else overwritten.             *)
(***************************************************************************)
RuntimeReady == pc \in {"uart", "chip"} => Initialised

(***************************************************************************)
(* adxl345.c:98-99: the chip only begins sampling once fully configured -  *)
(* also when a transaction fails after it took effect, or the node is      *)
(* reset between any two transactions.                                     *)
(***************************************************************************)
ConfiguredWhenMeasuring ==
    Measuring(regs) =>
        /\ regs[ADXL345_REG_DATA_FORMAT] = DATA_FORMAT_CONFIG
        /\ regs[ADXL345_REG_BW_RATE] = RATE_100HZ

(***************************************************************************)
(* Frame number n carries the n-th sample of the vibration, untorn and in  *)
(* milli-g: every frame sent comes from a burst of its own, no burst is    *)
(* lost between two frames, and both counters wrap consistently.  The      *)
(* driver's single burst, the chip's one-advance-per-burst and main's      *)
(* seq++ have to agree for it to hold, and after a reset start over        *)
(* together.                                                               *)
(***************************************************************************)
FrameCarriesItsSample ==
    tx.kind = "frame" =>
        tx.sample = [axis \in 1 .. 3 |-> Mg(Axes(tx.seq)[axis])]

(***************************************************************************)
(* No frame is begun but from a chip that is configured and measuring, and *)
(* after the error text nothing but a reset: "Don't spin emitting garbage  *)
(* frames - report once and stop" (main.c:55).                             *)
(***************************************************************************)
NoGarbageFrames ==
    [][tx' # tx =>
          /\ tx'.kind = "frame" => ConfiguredWhenMeasuring /\ Measuring(regs)
          /\ tx.kind = "error" => resets' # resets]_nodeVars

\* Which item may follow another one of the same run.
Follows(item, next) ==
    \/ /\ item.kind \in {"banner", "frame"}
       /\ next.kind = "error"
    \/ /\ item.kind \in {"banner", "frame"}
       /\ next.kind = "frame"
       /\ next.seq = IF item.kind = "banner" THEN 0 ELSE (item.seq + 1) % SEQ_MOD

(***************************************************************************)
(* What a receiver hears, with a FIFO shorter than a frame between         *)
(* uart_putc and the line: within a run every byte of every item in order, *)
(* the frames numbered without a gap.  Only a reset cuts an item, and the  *)
(* bytes of the run before that are still in the FIFO come before the      *)
(* banner of the next one, never in the middle of it.                      *)
(***************************************************************************)
LineIsWhole ==
    [][line' # line =>
          IF line = NoByte \/ line'.item.boot > line.item.boot
          THEN line'.item.kind = "banner" /\ line'.n = 1
          ELSE /\ line'.item.boot = line.item.boot
               /\ IF line.n < ITEM_BYTES
                  THEN line'.item = line.item /\ line'.n = line.n + 1
                  ELSE Follows(line.item, line'.item) /\ line'.n = 1]_nodeVars

(***************************************************************************)
(* Unless it is reset or trapped, the node streams for ever, through the   *)
(* wrap of its sequence counter, or it says why it stopped: the error text *)
(* gets out of the FIFO to its last byte although the processor is in an   *)
(* empty loop.                                                             *)
(***************************************************************************)
StreamsOrExplains ==
    \/ <>[](pc = "trapped")
    \/ <>[](pc = "halted" /\ line = Byte(Error, ITEM_BYTES))
    \/ []<>(line # NoByte /\ line.item.kind = "frame" /\ line.item.seq = SEQ_MOD - 1)
=============================================================================
