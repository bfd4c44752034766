# SHARAK in TLA+

A formal model of the SHARAK node: the framing protocol, the payload codec, the
firmware superloop with its I2C backends, the serial link and the fleet
simulator. TLC checks every module on a small instance; TLAPS proves every safety
invariant of the passing runs, two of the three refinements and the delivery of
intact frames for every instance.

## 1. The system

| Component | Source | State | Operations |
|---|---|---|---|
| CRC-16 | `protocol/src/protocol.c:21-40` | a 16-bit register | one byte in, eight shifts |
| Frame encoder | `protocol.c:203-257` | output index `n`, loop index `i` | `sk_frame_encode` |
| Frame decoder | `protocol.c:262-348`, `sk_decoder_t` | `in_frame`, `esc`, `overflow`, `count`, `buf` | `sk_decoder_init`, `sk_decoder_feed` |
| Payload codec | `protocol.c:45-198` | none (the callers' buffers) | three packers, four unpackers |
| Simulated ADXL345 | `firmware/i2c_sim.c` | `regs[58]`, `ptr`, `phase` | write, write then read |
| Hardware I2C | `firmware/i2c_stellaris.c` | the controller's registers | write, write then read, polling |
| ADXL345 driver | `firmware/adxl345.c` | none but the chip's | init, read, decode, self-test |
| Superloop | `firmware/main.c` | `seq`, static sample and buffers | boot, read, pack, encode, send, halt |
| Startup | `firmware/startup.c`, `lm3s6965.ld` | RAM, the loop's pointer | copy `.data`, clear `.bss`, trap |
| UART | `firmware/uart.c` | UART0's registers, the transmit FIFO | init, put, write, poll a byte |
| Fleet simulator | `sim/fleet_main.c`, `fleet_node.c` | `phase`, `off`, the sockets | make the server, accept, sample, write, close |
| Gateway | `gateway/` | - | `decode` is a stub that returns `BadLength`; the rest is planned |
| Linux driver | `driver/` | - | announced in a README |

**Interaction.** `main` calls the driver, the driver calls an `i2c_bus_t` (the
simulated chip or the hardware), `main` packs the sample, encodes a frame and
hands it to `uart_write` byte by byte. The bytes reach a receiver over a serial
line (QEMU's TCP serial port, or the fleet simulator's socket), which feeds them
to `sk_decoder_feed` one at a time. There are no threads and no interrupts in the
firmware. What runs concurrently are the processor and the I2C controller, the
processor and the UART's transmitter, the node and its receiver, the server and
its clients.

**What is hard.** A decoder that must forget its past at each FLAG; a line that
loses, damages and inserts bytes under a 16-bit CRC; boundaries (a full buffer,
the worst-case frame, two's complement, the wrap of `seq`); a reset between two
bus transactions or two bytes, with RAM and the UART as the last run left them; a
FIFO shorter than a frame; a controller polled before it is busy, or given a
command while it is; a write that takes part of a frame or blocks. `PROJECT.json` lists each hazard at its line, with
the properties that cover it or the reason none does.

**What makes each part correct.**

* CRC: it is the remainder of polynomial division, a codeword has the residue
  zero, short bursts are detected.
* Framing: what is encoded is decoded, whatever came before; no write past a
  buffer; one FLAG is enough to resynchronize; no damaged frame is delivered.
* Codec: unpack inverts pack; no stale byte completes a short message.
* Startup: main starts with its statics as the program text says, whatever was in
  RAM.
* UART: no byte goes out before it is set up, none is lost in the FIFO.
* Node: the chip measures only when configured; frame *n* carries sample *n*; an
  error is never followed by frames; it streams, or it has said why it stopped.
* I2C hardware: every path commands the release of the bus; a call that succeeds moved
  exactly its bytes, one that fails a first part of them; calls return.
* Fleet: whole frames in order to each client, no socket left open, a client's
  leaving is noticed, one that reads is fed.

## 2. The modules

| Module | Models | Composes |
|---|---|---|
| `SkProtocol` | framing as operators: `Stuffed`, `Encoded`, `FeedState`, `FeedResult`, `FeedOut` | - |
| `SkFrameSpec` | abstract: keep the raw bytes, judge all of them at the FLAG | `SkProtocol` |
| `SkDecoder` | one context under any calls; refines `SkFrameSpec` | `SkProtocol`, `SkFrameSpec` |
| `SkDecoderSync` | two contexts with different pasts | `SkProtocol` |
| `SkLoopback` | the encoder's loop step by step, then `uart_write` into a decoder | `SkProtocol` |
| `Crc16`, `Crc16Errors` | the bitwise CRC; what it detects | - |
| `SkPayload` | packers and unpackers over one reused buffer | - |
| `I2cSim` | the simulated chip | - |
| `Startup` | the two loops of `Reset_Handler` over RAM | - |
| `Uart` | `uart_init` register by register, `uart_putc`, FIFO and transmitter | - |
| `SharakNode` | reset to line: startup, UART, superloop, driver and chip, one transaction or byte a step | `I2cSim`, `Startup`, `Uart` |
| `I2cBus` | abstract: what `i2c.h` promises of a call | - |
| `I2cStellaris` | the hardware backend against an asynchronous controller; implements `I2cBus` on a prompt one | `I2cBus` |
| `LossyFifo` | abstract: lost perhaps, but unchanged, once and in order | - |
| `Link` | node, faulty line and receiver; refines `LossyFifo` | `SkProtocol`, `Crc16` in `MCLink` |
| `FleetServer` | the server from socket to exit, against clients that wait, read or not, and leave | - |

`MC*` modules hold the constants of the TLC instances; the eight `*Proofs` modules
the proofs: `SkProtocolProofs` the lemmas about framing, `SkDecoderProofs` those of
`SkDecoder` and `SkDecoderSync`, `SharakNodeProofs` those of the node and the line,
`CodecProofs` those of `SkPayload` and `Crc16Errors`, and the others those of the
module they are named for. Definitions keep the source's names (`sk_decoder_feed`,
`decoder_finish`, `sim_write_read`). Definitions marked as mutants are plausible
bugs; `PROJECT.json` pairs each property with one that breaks it.

How state and actions correspond to the code:

* `sk_decoder_t` is a record with the C fields; `buf` holds the first `count`
  bytes of the array, so `Len(buf)` is `count`. `FeedState`, `FeedResult` and
  `FeedOut` are together one call of `sk_decoder_feed`, branch by branch, and the
  action of that name makes the three assignments.
* `SkLoopback` turns the loop of `sk_frame_encode` into actions: `Call` (argument
  checks and opening FLAG), `Stuff` (one iteration, with its room check),
  `Close`. `org` is a history variable: how many inner bytes are complete at
  each position of the wire.
* `Startup`: RAM is a row of words (`lm3s6965.ld` aligns both sections) of which
  only the origin matters: the image, zero, or junk. `CopyData` and `ZeroBss` are
  one turn of a loop each, `Layouts` the places of `_edata`, `_sbss`, `_ebss`.
* `Uart`: `upc` is the next register write of `uart_init`. A settings register
  written without a clock or while the UART is enabled is `Undefined`; `format`
  is what LCRH latched; a byte written to a full FIFO is lost. `uart_putc` is the
  end of its polling loop and the write of DR in one step, since nobody else
  fills the FIFO.
* `SharakNode`: every bus transaction, and every byte handed to the UART, is an
  action, so a reset, a fault or a failure can fall between any two. A transaction
  that fails happened, or only its register number reached the chip, or nothing
  did. A text or a frame is an item of `ITEM_BYTES` bytes; each byte carries the
  item it belongs to and its number in it, and an item the number of resets before
  it, so that what arrives on `line` can be told apart. RAM - the simulated chip and
  `sample` are in it - survives a reset until `ZeroBss` is done; `seq` does not.
  A reset of the chip clears the UART, one of the core leaves it running with what
  is in its FIFO. `phase` is kept modulo 16 because only its low four bits are read.
* `I2cStellaris`: one action per group of register accesses (`WriteByte`,
  `ReadByte`, `Poll`, `Status`); `Start` and `Finish` are the controller. The
  caller's bytes are numbered -1, -2, ... and the slave's 1, 2, ... so that a stale
  data register shows. A command written while the controller is busy is taken or
  lost. `taken`, `served`, `held` and `eager` are history variables; `held` ends with
  the command of a STOP, not with its execution. `Init` begins with the master
  enabled (`I2C_MCR_MFE`).
* `Link` sends `Encoded(payload)` one byte at a time; `Lose`, `Damage`, `Insert`,
  `Attach` and `Reset` happen between any two bytes.
* `FleetServer` names a frame by its phase and numbers its bytes. `queue` is the
  backlog of `listen(fd, 1)`, `unread` what the kernel holds for the client;
  `Connect`, `Receive`, `Leave` and `Rst` are the clients and the kernel.
  `WriteFails` is a write to a client that has left, which has to fail in the end;
  `WriteErrs` one that fails for another reason, which none has to.

## 3. The runs

| Run | Shows | Instance, and why it is enough |
|---|---|---|
| `decoder` | types and buffer bounds; `SkDecoder` implements `SkFrameSpec` | payloads of 1-2 bytes over the six bytes framing can tell apart, up to 6 raw bytes: two past the buffer of four, with escapes at every place |
| `decoder_sync` | agreement after one common FLAG | payloads of 1 byte, six bytes of noise on either side, enough to overflow one decoder and leave an escape pending in the other |
| `loopback` | encoder bounds, exactness, round trip, quiet frames | payloads of 0-3 bytes with every kind of stuffing, four capacities around `SK_FRAME_MAX` = 10, six bytes of noise |
| `crc_errors` | residue, remainder, burst detection | real polynomial and start value; ten damage patterns (each bit, the outer two, all) in one byte or two neighbours, at every place of messages up to the maximal length; `BurstsAreDetected` covers all patterns. `IsRemainder` divides by the generator of REQ-PR-002, not by `CRC_POLY`, so that a wrong constant shows |
| `payload` | codec inverts, nothing stale | extreme and sign-changing values of each width, three types in one buffer in any order |
| `node` | initialised RAM, UART set up before use, configuration order, frame/sample agreement, no garbage, nothing lost between `uart_putc` and the line, progress | the real register map, `SEQ_MOD` = 32 (twice the period of the vibration, so that both wrap), items of three bytes over a FIFO of two (so that it fills within an item and a run's last bytes outlive it), RAM of four words with a gap or an empty section, two resets of either kind, failures and faults anywhere |
| `link` | refines `LossyFifo`; delivery, one frame per fault, no silent gap | real lengths and CRC (`MCLink` also has TLC evaluate the check value of "123456789" that `protocol.h:85` names); three frames with FLAG and ESC inside, two of them short enough to merge in one buffer; two troubles (faults or resets) at any byte; a receiver attaching at any byte |
| `i2c_hw` | a STOP commanded for each START, data intact, implements `I2cBus`, calls return | writes of 0-2 and reads of 0, 1 and 6 bytes, which are the driver's shapes; a prompt and a late controller; the next call at once or later |
| `fleet` | whole frames, no socket left open, noticing, feeding | two periods of the wobble table, frames of 2-3 bytes over a connection that holds two (so that a write splits and blocks within a frame), two clients waiting |
| `bad_escape` | expected violation | see section 6 |
| `i2c_hw_settle` | expected violation | see section 6 |
| `i2c_hw_hang` | expected violation | see section 6 |

Bounds, all named: `MaxRaw`, `MaxNoise`, `MaxFrame` (bytes between FLAGs or before
them), `MaxTroubles` (faults of the line plus resets), `MaxResets`, `SEQ_MOD` and
`PHASE_MOD` (2^16 and 2^32 in the code), `Caps`, `Rooms`, `OutCaps` and `PackCaps` (room offered),
`FIFO_DEPTH` (16 on the chip), `ITEM_BYTES` (20 for the banner, up to 38 for a
frame), `RamWords` (16384), `SockBuf` and `Backlog`.

The bound on `Link` is a real limit of the protocol and not only of the run: with
two faults *and* a reset TLC finds bytes that a 16-bit CRC accepts although no
frame contained them (frame one's remains, the banner's first bytes and a FLAG).
Detection of every combination is nothing a CRC can give; `ImplementsFifo` is
claimed for two troubles on these frames.

CHECK_DEADLOCK is off where the system may stop: a halted node, a server whose
`accept` failed, a link with no frame left to send, a CRC message that is at its
end.

### Fairness

* `SharakNode`: `WF(Step)` - the processor runs - and `WF(Drain)` - an enabled
  transmitter sends. Failures, faults and resets need not happen, and resets are
  bounded.
* `I2cStellaris`: `WF(Cpu)` and, for `FairSpec`, `WF(Controller)` - the controller
  finishes what it starts. Without the second `CallReturns` fails, which is the
  run `i2c_hw_hang`.
* `FleetServer`: `WF(Server)` and `WF(Rst)` - the server runs and the kernel
  delivers a reset once the client has left. Clients owe nothing; `ReaderIsFed`
  assumes `WF(Receive)` of a client that stays, as its premise.
* `Link` has only safety properties; delivery is stated as an action property
  about the step in which the closing FLAG arrives.

## 4. The proofs

Each theorem holds for every value of the constants under the named assumptions.
For framing and the link these are: `Byte` is a set of bytes with FLAG and ESC,
closed under `EscXor`; `1 <= MIN <= MAX`; messages are byte sequences, and the CRC
of a legal one is two bytes. Nothing else is known of `Crc`: the theorems about
framing would hold with any checksum. The invariants named below are
inductive, or parts of one that is.

* `SkProtocolProofs`: lemmas only.
  * `NatSetInduction`, `UpTo`: induction over the numbers, from the well-founded
    order of the library, with a set in place of a predicate. `RecursionExists`:
    a function that is defined by recursion exists and obeys its equation. What a
    recursive function computes is then proved like anything else; the prover has
    no other way to it.
  * `FeedStateOK`, `FeedResultOK`, `FeedOutOK`: one call of `sk_decoder_feed` maps a
    legal context to a legal context; a positive verdict is the buffered length
    less the CRC and fits the caller's room.
  * `EncodedCarries`: every byte of `Encoded(payload)` is an ordinary byte that
    completes one data byte, an ESC that completes none, or the toggled byte after
    an ESC that completes one (`Cell`). `HearsNext`, `FlagDelivers`: the decoder
    follows such a frame byte by byte and delivers its payload.
* `SkDecoderProofs`
  * `DecoderTypeCorrect`, `DecoderMemorySafe`. `DecoderInv` adds to the types that
    overflow is set only on a full buffer and that a context before its first FLAG
    is untouched; without them the length of what is delivered could not be
    bounded.
  * `DecoderImplementsFrameSpec`: the decoder, which unstuffs as it goes and stops
    storing when full, gives the verdicts of `SkFrameSpec`, which keeps the raw
    bytes and judges all of them at the FLAG. `RefinementInv` says that the bytes
    unstuffed so far from `raw` are `buf` and, once it is full, more than fit; and
    that `esc` is an ESC at the end of `raw`. One step appends to `raw` and, by
    `RecursionExists`, to what is unstuffed.
  * `DecodersResynchronize`, `DecodersAgree`, `SyncTypeCorrect`, for two decoders
    with any pasts. `Resynchronized` alone is not inductive: a decoder could still
    hear noise of its own after the common FLAG were it not for `flags => together`,
    which is in `SyncTypeOK`.
* `SkLoopbackProofs`: `LoopbackTypeCorrect`, `EncoderStaysInBounds`, `EncoderIsExact`,
  `FrameMaxAlwaysSuffices`, `FramesRoundTrip`, `FramesAreQuiet`, all from `LoopInv`:
  * `EncoderInv` bounds the wire by `2 * i - 1` bytes when byte `i` is next; this
    is why `SK_FRAME_MAX` = 1 + 2 * inner + 1 suffices;
  * `WireInv` says that the wire is FLAG and the first `i - 1` inner bytes stuffed,
    and what each byte on it means (`Cell`);
  * `DecoderInv` keeps the decoder in step: after byte `k` of a frame it is
    `Heard(k)` - escape pending exactly on an ESC, buffer equal to the data
    complete so far.
* `LinkProofs`, under `LinkAssumption`: the banner and the texts (`main.c:48,56,67`)
  hold no FLAG, and `MaxTroubles` is any number. All from `LinkInv`, checked with
  TLC before it was proved:
  * `LinkTypeCorrect`;
  * `IntactFramesDelivered`: by `WireInv` what is still to be sent is the rest of
    the current frame, and by `StepInv` a receiver that has heard all of the frame
    so far is in step with it. The texts' lack of a FLAG is what tells a frame's
    rest from a banner's;
  * `FaultsCostOneFrame`: `FaultInv` charges each missed frame to a fault of its
    own, and counts the frame being lost at the time too. That frame is what makes
    it inductive: between the fault and the end of its frame the property alone
    says nothing of the fault already spent.
* `CodecProofs`, for `Seqs`, `Words`, `Halves` any subsets of `uint16_t`, `int32_t`,
  `int16_t`, and for messages of any bytes and any length with any damage within a
  byte or two neighbours:
  * `PackedIsUnpacked`, `StaleBytesRefused`, from `CodecInv`. The lemmas
    `Le2OfUint16`, `Le2OfInt16`, `Le4OfInt32` say that the byte order, the shifts and
    the conversion to a signed type invert each other over the whole type.
  * `BurstsAreDetected`, `ResidueIsZero`, from `CrcInv`: the ends agree until a byte
    is damaged; after the first damaged byte they differ in the low half of the
    register, which the next byte, exclusive-ored onto the high half, cannot mend
    (`DamageReachesLow`, `LowStaysApart`); and a byte both read alike never makes
    two registers equal (`SameByte`). These rest on the register step being linear
    (`BitStepLinear`) and one to one (`BitStepInjective`, which needs the polynomial's
    last term), and on a byte being the sum of its bits (`BitOfValue`).
  * `RegisterIsRemainder`, from `RegisterInv`: appending a byte moves the polynomial
    up by eight places (`PolynomialAppend`), eight steps of the register cancel the
    eight top coefficients (`CancelIsBitStep`), so the division of the longer
    message goes on where that of the shorter ended (`RemainderAppend`).
* `SharakNodeProofs`, under `NodeAssumption` (`SEQ_MOD` is divisible by 16, as
  2^16 is; items have a byte) and `LayoutAssumption` (`_edata <= _sbss <= _ebss`,
  inside RAM):
  * `MainStartsInitialised`, from `BootInv`: below `dst` the copy, and later the
    clearing, is done; above it a word is whatever the reset found; outside both
    sections no word is written. For RAM of every size and every layout.
  * `MeasuresOnlyConfigured`, from `ConfigInv`: the property alone is lost between
    the rate register and POWER_CTL, so each `pc` of `adxl345_init` says what is
    configured by then. A measuring chip that a core reset finds keeps its
    registers until `ZeroBss`, and they were configured.
  * `FramesCarryTheirSample` and `ErrorsStopTheStream`, from `SampleInv`: at each
    step of the loop `phase` is `seq` or `seq + 1` modulo 16, and `sample` and `tx`
    are those of that number. This is where divisibility by 16 is needed: `seq`
    wraps, `phase` does not, and their low bits still agree.
  * Also under `UartAssumption` (the FIFO holds a byte), `SentOnlySetUp`, from
    `SetUpInv`: what is written by each register write of `uart_init`, and that an
    enabled UART is a configured one also when a core reset enters `main` again.
  * `LineCarriesWholeItems`: `LineIsWhole` speaks of two successive bytes on the
    line, which were handed over long before. `FifoInv` says that from the byte on
    the line through the whole FIFO each byte may follow the one before it;
    `ItemInv` relates the last byte handed over (the end of the FIFO, or the line
    when it is empty) to what `main` sends next. For every `FIFO_DEPTH`,
    `ITEM_BYTES` and `MaxResets`.
  * `NodeTypeCorrect`.
* `I2cStellarisProofs`, for `WriteLens` and `ReadLens` any sets of lengths, on any
  controller for the first two and on a prompt one for the others:
  * `BusIsReleased`, from `ControlInv`: the call is inside its data while it works,
    and once it waits for its last byte STOP has been commanded, so that success
    leaves nothing held and only the error paths owe a STOP.
  * `BackendTypeCorrect`.
  * `ReadsAreExact`, from `ReadInv`: once the controller is ready, I2CMDR holds the
    byte of the transfer that just ended, and `rdata` those before it.
  * `BackendImplementsBus`: the refinement of `I2cBus`, from `ReadInv` and `WriteInv`
    (the slave has taken the first `i` bytes, and the one in I2CMDR if its transfer
    ended well). It covers NACKs and lost arbitration at every byte.
* `FleetServerProofs`: `NothingLeftOpen` from `FdInv`, which adds to `NoFdLeak`
  only where the server can be and that no socket is open before the first call;
  `StreamsAreWhole` from `StreamInv`, which says at every point of the loops how
  the bytes last written relate to the frame and offset to be written next
  (`StreamOfWholeFrames` speaks only of the writes themselves); `ServerTypeCorrect`.
  They hold for every `PHASE_MOD`, `FrameLen`, `SockBuf` and `Backlog`.

**Only model-checked.**

* `ImplementsFifo` and `GapsAreReported` of the link. That no damaged frame is
  delivered depends on which byte strings the CRC accepts, and section 3 tells of
  one it accepts wrongly: with `Crc` or `MaxTroubles` left open they are false.
* Liveness, which is out of the prover's reach: `StreamsOrExplains`,
  `LeavingIsNoticed`, `ReaderIsFed`, `CallReturns`.
* The check value in `MCLink`, an evaluation; and the three expected violations.

## 5. Not modelled

* The gateway (a stub and requirements), the Linux driver (a README), build
  files, scripts and CI: no state of the program.
* `NULL` arguments, which only return an error; `adxl345_selftest`, which `main`
  never calls; `uart_try_getc` and the receive FIFO, which nothing reads.
* The contents of RAM beyond where a word came from, and the stack.
* A simulated chip that loses power apart from the node: it is in the node's RAM.
* Register numbers of 58 and more on the simulated chip, which would index past
  `regs[]`, and reads that wrap round from 0x38 into the data block, which would
  be served an old snapshot: the only master, the driver, makes neither.
* The clock gating, pin functions and timer period of `i2c_stellaris_init`, and the
  binding of the bus.
* In the fleet simulator the contents of a sample, the arguments (a port above
  65535 is cut to 16 bits), and `EINTR` of `accept`, which only tries again.
  `AcceptFails` shows that any other error ends a server that `fleet_main.c:79`
  says accepts clients forever. A client that stays and never reads blocks the
  others for ever; nothing promises otherwise.
* A retry right after a failed transfer on the I2C hardware is modelled but not
  promised anything beyond `PromptBusyIsEnough` and `BusReleasedOnReturn`: the STOP
  after an error is not waited for, and TLC finds such a call returning `I2C_OK`
  for a byte the slave never took. `ImplementsBus` therefore excepts it; `main`
  stops at the first error and makes no such call.

## 6. Where code and documents disagree

* **Bad escapes** (`bad_escape`). `docs/01_requirements_SWE1/node.md:77-80` wants a
  bad escape reported with an error code of its own. `sk_decoder_feed` toggles any
  byte after an ESC, drops an ESC before a FLAG, and has no such code; the frame is
  delivered if its CRC fits.
* **BUSY and settle time** (`i2c_hw_settle`). `i2c_stellaris.c:100-101` says that
  BUSY is set shortly after a command and that a few NOPs precede the poll. There
  are none: on a controller that is late the poll falls through and a read stores
  a stale data register and returns `I2C_OK`. On a prompt one
  `i2c_hw` shows the data intact (`PromptBusyIsEnough`).
* **No timeout** (`i2c_hw_hang`). `i2c.h:34` lists a timeout under `I2C_ERR_BUS`;
  `i2c_wait` polls without a bound.

## 7. Plan

Done, in this order: framing (operators, decoder, synchronization, loopback) with
its proofs; CRC; codec; chip and node; link; I2C hardware; fleet; then startup and
UART under the node, the bus interface under the I2C hardware, and the fleet
simulator's sockets; then the proofs of the node, the line, the I2C hardware and
the fleet simulator; then those of the codec, the CRC and the link, of the encoder's
exactness and of the decoder's refinement.

To extend the model, should the code grow: the gateway's decode stage once it is
more than a stub, as a second receiver of `Link`; `uart_try_getc` once something
calls it; an interrupt-paced loop in place of `delay_pace`.

To prove:
1. `ImplementsFifo` for a line without faults and resets, for every checksum,
   message, payload length and moment of attaching: after its first FLAG the
   receiver hears whole frames only.
2. The same where a frame meets damage within two neighbouring bytes that are
   neither FLAG nor ESC before or after it: `BurstsAreDetected` carried over to
   `decoder_finish` through the lemmas on stuffing.
