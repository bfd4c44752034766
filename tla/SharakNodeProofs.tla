-------------------------- MODULE SharakNodeProofs ---------------------------
(***************************************************************************)
(* What the node promises for RAM of every size and layout, sequence       *)
(* counters, FIFOs and items of every length, and any number of resets:    *)
(* first the boot and the chip, then what it puts on its line - nothing    *)
(* before the UART is set up, and whole items in order - and last the      *)
(* types of the whole node.                                                *)
(***************************************************************************)
EXTENDS SharakNode, TLAPS

Driver == {"devid", "format", "rate", "power", "read"}
Loop == Driver \cup {"send", "pace"}

\* What main does with the chip and the samples touches neither RAM's
\* initialisation nor the UART, and writes no banner.
LEMMA LoopSteps ==
  ASSUME CheckDevid \/ Configure \/ ReadSample \/ SendFrame \/ Pace
  PROVE  /\ UNCHANGED <<bootVars, uartVars, resets>>
         /\ pc \in Loop
         /\ \/ pc' \in Loop /\ UNCHANGED <<tx, sent>>
            \/ pc \in Driver /\ pc' = "write" /\ tx' = Error /\ sent' = 0
            \/ pc = "send" /\ pc' = "write" /\ tx' = Frame /\ sent' = 0
<1>. USE DEF Loop, Driver
<1>1. CASE CheckDevid
  BY <1>1 DEF CheckDevid, Continue, Failing, Halt, Send
<1>2. CASE Configure
  BY <1>2 DEF Configure, RegWrite, Continue, Failing, Halt, Send
<1>3. CASE ReadSample
  BY <1>3 DEF ReadSample, Failing, Halt, Send
<1>4. CASE SendFrame
  BY <1>4 DEF SendFrame, Send
<1>5. CASE Pace
  BY <1>5 DEF Pace, Goto
<1>. QED
  BY <1>1, <1>2, <1>3, <1>4, <1>5

-----------------------------------------------------------------------------
(***************************************************************************)
(* Startup: a word outside both sections is never written; each loop has   *)
(* done what is below dst; and no step of main comes between the end of    *)
(* the startup code and the points where RuntimeReady speaks.              *)
(***************************************************************************)
Copied(end) == \A a \in Address : a < end => ram[a] = Image(a)

BootInv ==
    /\ layout \in Layouts
    /\ ram \in [Address -> Int]
    /\ stage \in {"copy", "zero", "main"} /\ dst \in 0 .. layout.ebss
    /\ \A a \in Address : ~InSections(a) => ram[a] = Junk
    /\ stage = "copy" => dst <= layout.edata /\ Copied(dst)
    /\ stage = "zero" =>
          /\ layout.sbss <= dst /\ dst <= layout.ebss
          /\ Copied(layout.edata)
          /\ \A a \in Address : layout.sbss <= a /\ a < dst => ram[a] = 0
    /\ pc = "startup" => stage # "main"
    /\ pc \notin {"startup", "trapped"} => stage = "main"
    /\ pc = "write" => tx.kind \in {"banner", "error", "frame"}
    /\ pc \in {"uart", "chip"} \/ (pc = "write" /\ tx.kind = "banner") => Initialised

LEMMA LayoutBounds ==
  ASSUME layout \in Layouts
  PROVE  /\ RamWords \in Nat
         /\ layout.edata \in Nat /\ layout.sbss \in Nat /\ layout.ebss \in Nat
         /\ layout.edata <= layout.sbss /\ layout.sbss <= layout.ebss
         /\ layout.ebss <= RamWords
  BY LayoutAssumption

LEMMA BootStart == NodeInit => BootInv
<1>. SUFFICES ASSUME NodeInit PROVE BootInv
  OBVIOUS
<1>1. layout \in Layouts /\ ram = [a \in Address |-> Junk] /\ stage = "copy" /\ dst = 0
  BY DEF NodeInit, StartupInit
<1>2. pc = "startup"
  BY DEF NodeInit
<1>. QED
  BY <1>1, <1>2, LayoutBounds DEF BootInv, Copied, Address, Junk

LEMMA StartUpBoots ==
  ASSUME BootInv, StartUp
  PROVE  BootInv'
<1>. USE LayoutBounds DEF BootInv, Address
<1>1. layout' = layout /\ pc = "startup"
  BY DEF StartUp, Reset_Handler, CopyData, ZeroBss
<1>2. CASE CopyData
  <2>1. pc' = "startup" /\ stage = "copy" /\ stage' \in {"copy", "zero"}
    BY <1>2 DEF StartUp, CopyData
  <2>2. CASE Before(layout.edata)
    <3>1. ram' = [ram EXCEPT ![dst] = Image(dst)] /\ dst' = dst + 1 /\ stage' = "copy"
      BY <1>2, <2>1, <2>2 DEF CopyData
    <3>2. dst \in Address /\ InSections(dst)
      BY <2>1, <2>2 DEF Before, InSections
    <3>3. \A a \in Address : a < dst' => ram'[a] = Image(a)
      BY <2>1, <3>1, <3>2 DEF Copied
    <3>4. dst' <= layout.edata
      BY <2>1, <2>2, <3>1 DEF Before
    <3>. QED
      BY <1>1, <2>1, <3>1, <3>2, <3>3, <3>4 DEF InSections, Image, Copied
  <2>3. CASE ~Before(layout.edata)
    BY <1>1, <1>2, <2>1, <2>3 DEF CopyData, Before, InSections, Copied
  <2>. QED
    BY <2>2, <2>3
<1>3. CASE ZeroBss
  <2>1. CASE Before(layout.ebss)
    <3>1. ram' = [ram EXCEPT ![dst] = 0] /\ dst' = dst + 1 /\ stage = "zero" /\ stage' = "zero"
      BY <1>3, <2>1 DEF ZeroBss
    <3>2. dst \in Address /\ InSections(dst) /\ pc' = "startup"
      BY <1>1, <2>1, <3>1 DEF Before, InSections, StartUp
    <3>. QED
      BY <1>1, <2>1, <3>1, <3>2 DEF Before, InSections, Copied
  <2>2. CASE ~Before(layout.ebss)
    <3>1. ram' = ram /\ dst' = dst /\ stage = "zero" /\ stage' = "main" /\ pc' = "uart"
      BY <1>3, <2>2 DEF ZeroBss, StartUp
    <3>2. Initialised
      BY <2>2, <3>1 DEF Before, Initialised, InSections, Copied
    <3>. QED
      BY <1>1, <3>1, <3>2 DEF Initialised, InSections
  <2>. QED
    BY <2>1, <2>2
<1>. QED
  BY <1>2, <1>3 DEF StartUp, Reset_Handler

LEMMA BootStep == BootInv /\ [NodeNext]_nodeVars => BootInv'
<1>. SUFFICES ASSUME BootInv, [NodeNext]_nodeVars PROVE BootInv'
  OBVIOUS
<1>0. ASSUME UNCHANGED bootVars,
             pc' \notin {"startup", "trapped"} => pc \notin {"startup", "trapped"},
             pc' = "startup" => pc = "startup",
             pc' = "write" => tx'.kind \in {"banner", "error", "frame"},
             pc' \in {"uart", "chip"} \/ (pc' = "write" /\ tx'.kind = "banner") => Initialised
      PROVE  BootInv'
  BY <1>0 DEF BootInv, bootVars, Copied, InSections, Initialised
<1>1. CASE StartUp
  BY <1>1, StartUpBoots
<1>2. CASE InitUart
  BY <1>0, <1>2 DEF InitUart, Send, Banner, BootInv
<1>3. CASE Write
  BY <1>0, <1>3 DEF Write, After, BootInv
<1>4. CASE InitChip
  <2>1. layout' = layout /\ stage = "main" /\ stage' = "main" /\ dst' = dst /\ pc' = "devid"
    BY <1>4 DEF InitChip, MainWrites
  <2>2. ram' = [a \in Address |-> IF InSections(a) THEN Junk ELSE ram[a]]
    BY <1>4 DEF InitChip, MainWrites
  <2>. QED
    BY <2>1, <2>2 DEF BootInv, InSections, Junk
<1>5. CASE CheckDevid \/ Configure \/ ReadSample \/ SendFrame \/ Pace
  BY <1>0, <1>5, LoopSteps DEF Loop, Driver, Error, Frame, BootInv
<1>6. CASE Drain
  BY <1>0, <1>6 DEF Drain, node, BootInv
<1>7. CASE ForeignChip
  BY <1>0, <1>7 DEF ForeignChip, node, BootInv
<1>8. CASE Fault
  BY <1>0, <1>8 DEF Fault, Goto
<1>9. CASE Reset
  BY <1>9, LayoutBounds DEF Reset, Restart, BootInv, Copied, InSections, Address
<1>10. CASE UNCHANGED nodeVars
  BY <1>0, <1>10 DEF nodeVars, node, BootInv
<1>. QED
  BY <1>1, <1>2, <1>3, <1>4, <1>5, <1>6, <1>7, <1>8, <1>9, <1>10 DEF NodeNext, Step

\* Whatever RAM a reset finds, and wherever the linker put the sections, main
\* starts with .data and .bss as the program text says.
THEOREM MainStartsInitialised == NodeSpec => []RuntimeReady
<1>1. BootInv => RuntimeReady
  BY DEF BootInv, RuntimeReady
<1>. QED
  BY <1>1, BootStart, BootStep, PTL DEF NodeSpec

-----------------------------------------------------------------------------
(* What a transaction does to the registers that no burst refreshes. *)

LEMMA RegisterWritten ==
  ASSUME NEW reg \in Register, NEW val, sim_write(<<reg, val>>)
  PROVE  /\ DOMAIN regs' = Register
         /\ \A r \in Register : regs'[r] = IF r = reg THEN val ELSE regs[r]
         /\ phase' = phase
<1>1. regs' = Written(regs, <<reg, val>>) /\ phase' = phase
  BY DEF sim_write
<1>2. \A n \in 2 .. Len(<<reg, val>>) : n = 2
  OBVIOUS
<1>3. 2 \in 2 .. Len(<<reg, val>>) /\ Advance(<<reg, val>>[1], 2 - 2) = reg
  BY DEF Advance, Register, I2C_SIM_NREGS
<1>4. ASSUME NEW r \in Register
      PROVE  regs'[r] = IF r = reg THEN val ELSE regs[r]
  <2>1. CASE r = reg
    <3>1. (CHOOSE n \in 2 .. Len(<<reg, val>>) : Advance(<<reg, val>>[1], n - 2) = r) = 2
      BY <1>2, <1>3, <2>1
    <3>. QED
      BY <1>1, <1>3, <2>1, <3>1 DEF Written
  <2>2. CASE r # reg
    BY <1>1, <1>2, <1>3, <2>2 DEF Written
  <2>. QED
    BY <2>1, <2>2
<1>. QED
  BY <1>1, <1>4 DEF Written

LEMMA PointerWritten ==
  ASSUME NEW reg \in Register, sim_write(<<reg>>)
  PROVE  /\ DOMAIN regs' = Register
         /\ \A r \in Register : regs'[r] = regs[r]
         /\ phase' = phase
  BY DEF sim_write, Written

LEMMA RegistersRead ==
  ASSUME NEW reg \in Register, NEW n \in Nat, sim_write_read(reg, n), DOMAIN regs = Register
  PROVE  /\ DOMAIN regs' = Register
         /\ \A r \in Register \ DataRegister : regs'[r] = regs[r]
         /\ ~Measuring(regs) => phase' = phase
  BY DEF sim_write_read, Refreshed

(***************************************************************************)
(* Configuration: between the register writes of adxl345_init the ones     *)
(* already made are in the chip, whatever else happens to it.              *)
(***************************************************************************)
FormatSet == regs[ADXL345_REG_DATA_FORMAT] = DATA_FORMAT_CONFIG
RateSet == regs[ADXL345_REG_BW_RATE] = RATE_100HZ

ConfigInv ==
    /\ DOMAIN regs = Register
    /\ Measuring(regs) => FormatSet /\ RateSet
    /\ pc = "rate" => FormatSet
    /\ pc = "power" => FormatSet /\ RateSet

LEMMA ConfigRegisters ==
  /\ {ADXL345_REG_DATA_FORMAT, ADXL345_REG_BW_RATE, SIM_REG_POWER_CTL, SIM_REG_DEVID,
      SIM_REG_DATAX0, ADXL345_REG_POWER_CTL} \subseteq Register
  /\ {ADXL345_REG_DATA_FORMAT, ADXL345_REG_BW_RATE, SIM_REG_POWER_CTL}
        \subseteq Register \ (DataRegister \cup {SIM_REG_DEVID})
  /\ ADXL345_REG_POWER_CTL = SIM_REG_POWER_CTL
  BY DEF ADXL345_REG_DATA_FORMAT, ADXL345_REG_BW_RATE, SIM_REG_POWER_CTL, SIM_REG_DEVID,
         SIM_REG_DATAX0, SIM_REG_DATAZ1, ADXL345_REG_POWER_CTL, Register, DataRegister,
         I2C_SIM_NREGS

\* A step that leaves the three registers alone and starts no register write.
LEMMA ConfigKept ==
  ASSUME ConfigInv, DOMAIN regs' = Register,
         \A r \in Register \ (DataRegister \cup {SIM_REG_DEVID}) : regs'[r] = regs[r],
         pc' \in {"rate", "power"} => pc' = pc
  PROVE  ConfigInv'
  BY ConfigRegisters DEF ConfigInv, Measuring, FormatSet, RateSet

LEMMA ConfigStart == NodeInit => ConfigInv
  BY ConfigRegisters
  DEF NodeInit, Init, i2c_sim_init, ConfigInv, Measuring, SIM_REG_POWER_CTL, SIM_REG_DEVID

LEMMA FailingKeepsConfig ==
  ASSUME ConfigInv, NEW reg \in Register,
         sim_write(<<reg>>) \/ UNCHANGED vars, Halt
  PROVE  ConfigInv'
<1>1. pc' = "write"
  BY DEF Halt, Send
<1>2. /\ DOMAIN regs' = Register
      /\ \A r \in Register : regs'[r] = regs[r]
  BY PointerWritten DEF vars, chip, ConfigInv
<1>. QED
  BY <1>1, <1>2, ConfigKept

\* One register write of adxl345_init, done and reported or done and not.
LEMMA ConfigureConfig ==
  ASSUME ConfigInv, Configure
  PROVE  ConfigInv'
<1>. USE ConfigRegisters
<1>1. CASE RegWrite("format", ADXL345_REG_DATA_FORMAT, DATA_FORMAT_CONFIG, "rate")
  <2>1. CASE sim_write(<<ADXL345_REG_DATA_FORMAT, DATA_FORMAT_CONFIG>>)
    <3>1. /\ DOMAIN regs' = Register
          /\ \A r \in Register :
                regs'[r] = IF r = ADXL345_REG_DATA_FORMAT THEN DATA_FORMAT_CONFIG ELSE regs[r]
      BY <2>1, RegisterWritten
    <3>2. pc' # "power"
      BY <1>1 DEF RegWrite, Failing, Continue, Halt, Send
    <3>. QED
      BY <3>1, <3>2 DEF ConfigInv, Measuring, FormatSet, RateSet,
         ADXL345_REG_DATA_FORMAT, ADXL345_REG_BW_RATE, SIM_REG_POWER_CTL
  <2>. QED
    BY <1>1, <2>1, FailingKeepsConfig DEF RegWrite, Failing
<1>2. CASE RegWrite("rate", ADXL345_REG_BW_RATE, RATE_100HZ, "power")
  <2>1. CASE sim_write(<<ADXL345_REG_BW_RATE, RATE_100HZ>>)
    <3>1. /\ DOMAIN regs' = Register
          /\ \A r \in Register :
                regs'[r] = IF r = ADXL345_REG_BW_RATE THEN RATE_100HZ ELSE regs[r]
      BY <2>1, RegisterWritten
    <3>2. pc = "rate" /\ pc' # "rate"
      BY <1>2 DEF RegWrite, Failing, Continue, Halt, Send
    <3>. QED
      BY <3>1, <3>2 DEF ConfigInv, Measuring, FormatSet, RateSet,
         ADXL345_REG_DATA_FORMAT, ADXL345_REG_BW_RATE, SIM_REG_POWER_CTL
  <2>. QED
    BY <1>2, <2>1, FailingKeepsConfig DEF RegWrite, Failing
<1>3. CASE RegWrite("power", ADXL345_REG_POWER_CTL, POWER_CTL_MEASURE, "read")
  <2>1. CASE sim_write(<<ADXL345_REG_POWER_CTL, POWER_CTL_MEASURE>>)
    <3>1. /\ DOMAIN regs' = Register
          /\ \A r \in Register :
                regs'[r] = IF r = ADXL345_REG_POWER_CTL THEN POWER_CTL_MEASURE ELSE regs[r]
      BY <2>1, RegisterWritten
    <3>2. pc = "power" /\ pc' \notin {"rate", "power"}
      BY <1>3 DEF RegWrite, Failing, Continue, Halt, Send
    <3>. QED
      BY <3>1, <3>2 DEF ConfigInv, FormatSet, RateSet,
         ADXL345_REG_DATA_FORMAT, ADXL345_REG_BW_RATE, ADXL345_REG_POWER_CTL
  <2>. QED
    BY <1>3, <2>1, FailingKeepsConfig DEF RegWrite, Failing
<1>. QED
  BY <1>1, <1>2, <1>3 DEF Configure

LEMMA ConfigStep == BootInv /\ ConfigInv /\ [NodeNext]_nodeVars => ConfigInv'
<1>. SUFFICES ASSUME BootInv, ConfigInv, [NodeNext]_nodeVars PROVE ConfigInv'
  OBVIOUS
<1>. USE ConfigRegisters
<1>0. ASSUME UNCHANGED regs, pc' \in {"rate", "power"} => pc' = pc
      PROVE  ConfigInv'
  BY <1>0 DEF ConfigInv, Measuring, FormatSet, RateSet
<1>1. CASE StartUp
  <2>1. CASE stage' = "main"
    BY <1>1, <2>1 DEF StartUp, ConfigInv, Measuring
  <2>. QED
    BY <1>0, <1>1, <2>1 DEF StartUp, vars, chip
<1>2. CASE InitUart
  BY <1>0, <1>2 DEF InitUart, Send, vars, chip
<1>3. CASE Write
  <2>1. pc' = "write" \/ pc' = After(tx.kind)
    BY <1>3 DEF Write
  <2>2. pc' \notin {"rate", "power"}
    BY <1>3, <2>1 DEF After, Write, BootInv
  <2>. QED
    BY <1>0, <1>3, <2>2 DEF Write, vars, chip
<1>4. CASE InitChip
  BY <1>4 DEF InitChip, Reinitialise, ConfigInv, Measuring, SIM_REG_POWER_CTL, SIM_REG_DEVID
<1>5. CASE CheckDevid
  <2>1. CASE sim_write_read(SIM_REG_DEVID, 1)
    <3>1. pc' \notin {"rate", "power"}
      BY <1>5 DEF CheckDevid, Continue, Failing, Halt, Send
    <3>. QED
      BY <2>1, <3>1, RegistersRead, ConfigKept DEF ConfigInv
  <2>. QED
    BY <1>5, <2>1, FailingKeepsConfig DEF CheckDevid, Failing
<1>6. CASE Configure
  BY <1>6, ConfigureConfig
<1>7. CASE ReadSample
  <2>1. CASE sim_write_read(SIM_REG_DATAX0, 6)
    <3>1. pc' \notin {"rate", "power"}
      BY <1>7 DEF ReadSample, Failing, Halt, Send
    <3>. QED
      BY <2>1, <3>1, RegistersRead, ConfigKept DEF ConfigInv
  <2>. QED
    BY <1>7, <2>1, FailingKeepsConfig DEF ReadSample, Failing
<1>8. CASE SendFrame
  BY <1>0, <1>8 DEF SendFrame, Send, vars, chip
<1>9. CASE Pace
  BY <1>0, <1>9 DEF Pace, Goto, vars, chip
<1>10. CASE Drain
  BY <1>0, <1>10 DEF Drain, vars, chip, node
<1>11. CASE ForeignChip
  <2>1. pc' = pc /\ regs' = [regs EXCEPT ![SIM_REG_DEVID] = 0]
    BY <1>11 DEF ForeignChip, node
  <2>. QED
    BY <2>1, ConfigKept DEF ConfigInv
<1>12. CASE Fault
  BY <1>0, <1>12 DEF Fault, Goto, vars, chip
<1>13. CASE Reset
  BY <1>0, <1>13 DEF Reset, vars, chip
<1>14. CASE UNCHANGED nodeVars
  BY <1>0, <1>14 DEF nodeVars, vars, chip, node
<1>. QED
  BY <1>1, <1>2, <1>3, <1>4, <1>5, <1>6, <1>7, <1>8, <1>9, <1>10, <1>11, <1>12, <1>13, <1>14
  DEF NodeNext, Step

\* The chip only begins sampling once it is fully configured.
THEOREM MeasuresOnlyConfigured == NodeSpec => []ConfiguredWhenMeasuring
<1>1. ConfigInv => ConfiguredWhenMeasuring
  BY DEF ConfigInv, ConfiguredWhenMeasuring, FormatSet, RateSet
<1>. QED
  BY <1>1, BootStart, BootStep, ConfigStart, ConfigStep, PTL DEF NodeSpec

-----------------------------------------------------------------------------
(* The arithmetic of samples: bytes, period and counter. *)

LEMMA TwoBytes ==
  ASSUME NEW a \in Int, -32768 <= a, a <= 32767
  PROVE  LET low == a % 256
             high == (a \div 256) % 256
         IN  low + 256 * (IF high >= 128 THEN high - 256 ELSE high) = a
<1>1. a = 256 * (a \div 256) + (a % 256) /\ a \div 256 \in Int /\ a % 256 \in Int
  OBVIOUS
<1>2. -128 <= a \div 256 /\ a \div 256 <= 127
  OBVIOUS
<1>3. \A q \in Int : -128 <= q /\ q <= 127 =>
          q % 256 = IF q >= 0 THEN q ELSE q + 256
  OBVIOUS
<1>4. (a \div 256) % 256 = IF a \div 256 >= 0 THEN a \div 256 ELSE a \div 256 + 256
  BY <1>1, <1>2, <1>3
<1>. QED
  BY <1>1, <1>2, <1>4

LEMMA AxesFit ==
  ASSUME NEW k \in Nat, NEW axis \in 1 .. 3
  PROVE  /\ Axes(k)[axis] \in Int
         /\ -32768 <= Axes(k)[axis] /\ Axes(k)[axis] <= 32767
<1>1. \A n \in Nat : n % 16 \in 0 .. 15
  OBVIOUS
<1>2. \A n \in Nat : Wobble(n) \in -16 .. 16
  BY <1>1 DEF Wobble
<1>3. Wobble(k) \in -16 .. 16 /\ Wobble(k + 4) \in -16 .. 16
  BY <1>2
<1>4. Axes(k)[axis] = Wobble(k) \/ Axes(k)[axis] = Wobble(k + 4) \/ Axes(k)[axis] = 256
  BY DEF Axes
<1>. QED
  BY <1>3, <1>4

LEMMA AxesPeriod ==
  ASSUME NEW k \in Nat
  PROVE  Axes(k % 16) = Axes(k)
<1>1. (k % 16) % 16 = k % 16 /\ ((k % 16) + 4) % 16 = (k + 4) % 16
  OBVIOUS
<1>. QED
  BY <1>1 DEF Axes, Wobble

LEMMA NextSeq ==
  ASSUME NEW s \in 0 .. SEQ_MOD - 1
  PROVE  /\ (s + 1) % SEQ_MOD \in 0 .. SEQ_MOD - 1
         /\ ((s + 1) % SEQ_MOD) % 16 = (s + 1) % 16
<1>. USE NodeAssumption
<1>1. CASE s + 1 < SEQ_MOD
  <2>1. (s + 1) % SEQ_MOD = s + 1
    BY <1>1
  <2>. QED
    BY <1>1, <2>1
<1>2. CASE s + 1 = SEQ_MOD
  <2>1. (s + 1) % SEQ_MOD = 0
    BY <1>2
  <2>. QED
    BY <1>2, <2>1
<1>. QED
  BY <1>1, <1>2

\* A burst from a measuring chip reads back the axes of its phase.
LEMMA BurstReads ==
  ASSUME phase \in 0 .. 15, Measuring(regs), sim_write_read(SIM_REG_DATAX0, 6)
  PROVE  /\ Measuring(regs')
         /\ phase' = (phase + 1) % 16
         /\ \A axis \in 1 .. 3 : Raw(rdata', axis) = Axes(phase)[axis]
<1>. USE DEF SIM_REG_DATAX0, SIM_REG_DATAZ1, SIM_REG_POWER_CTL, I2C_SIM_NREGS, Register,
             DataRegister
<1>1. sim_touches_data(SIM_REG_DATAX0, 6)
  BY DEF sim_touches_data
<1>2. regs' = Refreshed(regs, phase) /\ phase' = (phase + 1) % 16
  BY <1>1 DEF sim_write_read
<1>3. Measuring(regs')
  BY <1>2 DEF Measuring, Refreshed
<1>4. rdata' = [n \in 1 .. 6 |-> regs'[Advance(SIM_REG_DATAX0, n - 1)]]
  BY DEF sim_write_read
<1>5. ASSUME NEW n \in 1 .. 6
      PROVE  rdata'[n] = IF (n - 1) % 2 = 1
                         THEN (Axes(phase)[(n - 1) \div 2 + 1] \div 256) % 256
                         ELSE Axes(phase)[(n - 1) \div 2 + 1] % 256
  <2>1. /\ Advance(SIM_REG_DATAX0, n - 1) = n + 49
        /\ n + 49 \in 50 .. 55 /\ n + 49 - 50 = n - 1
    BY DEF Advance
  <2>2. rdata'[n] = SnapshotByte(phase, n + 49)
    BY <1>2, <1>4, <2>1 DEF Refreshed
  <2>. QED
    BY <2>1, <2>2 DEF SnapshotByte, AxisByte
<1>6. ASSUME NEW axis \in 1 .. 3
      PROVE  Raw(rdata', axis) = Axes(phase)[axis]
  <2>1. /\ 2 * axis - 1 \in 1 .. 6 /\ 2 * axis \in 1 .. 6
        /\ (2 * axis - 1 - 1) \div 2 + 1 = axis /\ (2 * axis - 1 - 1) % 2 = 0
        /\ (2 * axis - 1) \div 2 + 1 = axis /\ (2 * axis - 1) % 2 = 1
    OBVIOUS
  <2>2. /\ rdata'[2 * axis - 1] = Axes(phase)[axis] % 256
        /\ rdata'[2 * axis] = (Axes(phase)[axis] \div 256) % 256
    BY <1>5, <2>1
  <2>3. /\ Axes(phase)[axis] \in Int
        /\ -32768 <= Axes(phase)[axis] /\ Axes(phase)[axis] <= 32767
    BY AxesFit
  <2>. QED
    BY <2>2, <2>3, TwoBytes DEF Raw
<1>. QED
  BY <1>2, <1>3, <1>6

(***************************************************************************)
(* Samples: from the first burst on the chip's phase and main's counter go *)
(* together, the phase one ahead between a burst and the increment.  Every *)
(* run starts both at zero.                                                *)
(***************************************************************************)
SampleOf(k) == [axis \in 1 .. 3 |-> Mg(Axes(k)[axis])]

Sending(kind) == pc = "write" /\ tx.kind = kind

SampleInv ==
    /\ seq \in 0 .. SEQ_MOD - 1 /\ phase \in 0 .. 15 /\ resets \in Nat
    /\ tx.kind = "frame" => tx.sample = SampleOf(tx.seq)
    /\ tx.kind = "error" => pc \in {"write", "halted", "trapped"}
    /\ pc \in {"startup", "uart"} => tx.kind = "nothing"
    /\ pc \in Loop \cup {"chip"} => tx.kind \in {"banner", "frame"}
    /\ pc \in {"startup", "uart", "chip"} \/ Sending("banner") => seq = 0
    /\ pc \in Driver \ {"read"} => seq = 0 /\ phase = 0
    /\ pc = "read" => Measuring(regs) /\ phase = seq % 16
    /\ pc \in {"send", "pace"} \/ Sending("frame") =>
          Measuring(regs) /\ phase = (seq + 1) % 16
    /\ pc = "send" => sample = SampleOf(seq)

LEMMA SampleStart == NodeInit => SampleInv
  BY NodeAssumption
  DEF NodeInit, Init, i2c_sim_init, SampleInv, Nothing, Loop, Driver, Sending

LEMMA HaltKeepsSamples ==
  ASSUME SampleInv, pc \in Driver, Halt, phase' \in 0 .. 15
  PROVE  SampleInv'
  BY DEF SampleInv, Halt, Send, Error, Loop, Driver, Sending

LEMMA CheckDevidSamples ==
  ASSUME SampleInv, CheckDevid
  PROVE  SampleInv'
<1>1. ASSUME sim_write_read(SIM_REG_DEVID, 1) PROVE phase' = phase
  BY <1>1 DEF sim_write_read, sim_touches_data, SIM_REG_DEVID, SIM_REG_DATAX0, SIM_REG_DATAZ1
<1>2. ASSUME sim_write(<<SIM_REG_DEVID>>) \/ UNCHANGED vars PROVE phase' = phase
  BY <1>2 DEF sim_write, vars, chip
<1>3. phase' = phase /\ phase \in 0 .. 15 /\ pc = "devid"
  BY <1>1, <1>2 DEF CheckDevid, Failing, SampleInv
<1>4. CASE Halt
  BY <1>3, <1>4, HaltKeepsSamples DEF Driver
<1>5. CASE Continue("format")
  BY <1>3, <1>5 DEF Continue, SampleInv, Loop, Driver, Sending
<1>. QED
  BY <1>4, <1>5 DEF CheckDevid, Failing

LEMMA ConfigureSamples ==
  ASSUME SampleInv, Configure
  PROVE  SampleInv'
<1>1. ASSUME NEW reg \in Register, NEW val,
             sim_write(<<reg, val>>) \/ sim_write(<<reg>>) \/ UNCHANGED vars
      PROVE  phase' = phase
  BY <1>1 DEF sim_write, vars, chip
<1>2. ASSUME NEW here \in Driver \ {"read"}, NEW reg \in Register, NEW val, NEW next,
             RegWrite(here, reg, val, next), next \in Driver \ {"read"}
      PROVE  SampleInv'
  <2>1. phase' = phase /\ phase \in 0 .. 15 /\ pc = here
    BY <1>1, <1>2 DEF RegWrite, Failing, SampleInv
  <2>2. CASE Halt
    BY <2>1, <2>2, HaltKeepsSamples
  <2>3. CASE Continue(next)
    BY <1>2, <2>1, <2>3 DEF Continue, SampleInv, Loop, Driver, Sending
  <2>. QED
    BY <1>2, <2>2, <2>3 DEF RegWrite, Failing
<1>3. CASE RegWrite("power", ADXL345_REG_POWER_CTL, POWER_CTL_MEASURE, "read")
  <2>1. phase' = phase /\ phase \in 0 .. 15 /\ pc = "power"
    BY <1>1, <1>3, ConfigRegisters DEF RegWrite, Failing, SampleInv
  <2>2. CASE Halt
    BY <2>1, <2>2, HaltKeepsSamples DEF Driver
  <2>3. CASE sim_write(<<ADXL345_REG_POWER_CTL, POWER_CTL_MEASURE>>) /\ Continue("read")
    <3>1. regs'[SIM_REG_POWER_CTL] = 8
      BY <2>3, RegisterWritten, ConfigRegisters DEF POWER_CTL_MEASURE
    <3>2. Measuring(regs')
      BY <3>1 DEF Measuring
    <3>. QED
      BY <2>1, <2>3, <3>2 DEF Continue, SampleInv, Loop, Driver, Sending
  <2>. QED
    BY <1>3, <2>2, <2>3 DEF RegWrite, Failing
<1>. QED
  BY <1>2, <1>3, ConfigRegisters DEF Configure, Driver

LEMMA ReadSampleSamples ==
  ASSUME SampleInv, ReadSample
  PROVE  SampleInv'
<1>0. /\ pc = "read" /\ Measuring(regs) /\ phase \in 0 .. 15 /\ phase = seq % 16
      /\ seq \in Nat
  BY NodeAssumption DEF ReadSample, SampleInv
<1>1. CASE sim_write_read(SIM_REG_DATAX0, 6)
  <2>1. /\ Measuring(regs')
        /\ phase' = (phase + 1) % 16
        /\ \A axis \in 1 .. 3 : Raw(rdata', axis) = Axes(phase)[axis]
    BY <1>0, <1>1, BurstReads
  <2>2. phase' = (seq + 1) % 16 /\ phase' \in 0 .. 15
    BY <1>0, <2>1
  <2>3. CASE Halt
    BY <1>0, <2>2, <2>3, HaltKeepsSamples DEF Driver
  <2>4. CASE /\ sample' = [axis \in 1 .. 3 |-> Mg(Raw(rdata', axis))]
             /\ pc' = "send"
             /\ UNCHANGED <<bootVars, uartVars, seq, tx, sent, resets>>
    <3>1. sample' = SampleOf(seq)
      BY <1>0, <2>1, <2>4, AxesPeriod DEF SampleOf
    <3>. QED
      BY <1>0, <2>1, <2>2, <2>4, <3>1 DEF SampleInv, Loop, Driver, Sending, SampleOf
  <2>. QED
    BY <2>3, <2>4 DEF ReadSample, Failing
<1>2. CASE (sim_write(<<SIM_REG_DATAX0>>) \/ UNCHANGED vars) /\ Halt
  <2>1. phase' = phase
    BY <1>2 DEF sim_write, vars, chip
  <2>. QED
    BY <1>0, <1>2, <2>1, HaltKeepsSamples DEF Driver
<1>. QED
  BY <1>1, <1>2 DEF ReadSample, Failing

LEMMA SampleStep == BootInv /\ SampleInv /\ [NodeNext]_nodeVars => SampleInv'
<1>. SUFFICES ASSUME BootInv, SampleInv, [NodeNext]_nodeVars PROVE SampleInv'
  OBVIOUS
<1>. USE DEF Loop, Driver, Sending
<1>1. CASE StartUp
  <2>1. CASE stage' = "main"
    BY <1>1, <2>1 DEF StartUp, SampleInv
  <2>2. CASE stage' # "main"
    BY <1>1, <2>2 DEF StartUp, vars, chip, SampleInv, SampleOf
  <2>. QED
    BY <2>1, <2>2
<1>2. CASE InitUart
  BY <1>2 DEF InitUart, Send, Banner, vars, chip, SampleInv, SampleOf
<1>3. CASE Write
  <2>1. tx.kind \in {"banner", "error", "frame"} /\ pc = "write"
    BY <1>3 DEF Write, BootInv
  <2>2. pc' = "write" \/ pc' = After(tx.kind)
    BY <1>3 DEF Write
  <2>3. UNCHANGED <<regs, phase, seq, sample, tx, resets>>
    BY <1>3 DEF Write, vars, chip
  <2>. QED
    BY <2>1, <2>2, <2>3 DEF After, SampleInv, SampleOf
<1>4. CASE InitChip
  BY <1>4 DEF InitChip, Reinitialise, SampleInv, SampleOf
<1>5. CASE CheckDevid
  BY <1>5, CheckDevidSamples
<1>6. CASE Configure
  BY <1>6, ConfigureSamples
<1>7. CASE ReadSample
  BY <1>7, ReadSampleSamples
<1>8. CASE SendFrame
  BY <1>8 DEF SendFrame, Send, Frame, vars, chip, SampleInv, SampleOf
<1>9. CASE Pace
  <2>1. /\ pc = "pace" /\ pc' = "read" /\ seq' = (seq + 1) % SEQ_MOD
        /\ UNCHANGED <<regs, phase, sample, tx, resets>>
    BY <1>9 DEF Pace, Goto, vars, chip
  <2>2. phase = seq' % 16 /\ seq' \in 0 .. SEQ_MOD - 1
    BY <2>1, NextSeq DEF SampleInv
  <2>. QED
    BY <2>1, <2>2 DEF SampleInv
<1>10. CASE Drain \/ UNCHANGED nodeVars
  BY <1>10 DEF Drain, nodeVars, node, vars, chip, SampleInv, SampleOf
<1>11. CASE ForeignChip
  BY <1>11 DEF ForeignChip, node, SampleInv
<1>12. CASE Fault
  BY <1>12 DEF Fault, Goto, vars, chip, SampleInv
<1>13. CASE Reset
  BY <1>13, NodeAssumption DEF Reset, Nothing, vars, chip, SampleInv
<1>. QED
  BY <1>1, <1>2, <1>3, <1>4, <1>5, <1>6, <1>7, <1>8, <1>9, <1>10, <1>11, <1>12, <1>13
  DEF NodeNext, Step

\* Frame n carries sample n, whatever the width of seq, and over every reset.
THEOREM FramesCarryTheirSample == NodeSpec => []FrameCarriesItsSample
<1>1. SampleInv => FrameCarriesItsSample
  BY DEF SampleInv, FrameCarriesItsSample, SampleOf
<1>. QED
  BY <1>1, BootStart, BootStep, SampleStart, SampleStep, PTL DEF NodeSpec

\* A frame is begun only from a chip that is configured and measuring, and
\* after the error text comes nothing but a reset.
THEOREM ErrorsStopTheStream == NodeSpec => NoGarbageFrames
<1>1. BootInv /\ ConfigInv /\ SampleInv /\ [NodeNext]_nodeVars =>
        [tx' # tx =>
          /\ tx'.kind = "frame" => ConfiguredWhenMeasuring /\ Measuring(regs)
          /\ tx.kind = "error" => resets' # resets]_nodeVars
  <2>. SUFFICES ASSUME BootInv, ConfigInv, SampleInv, NodeNext, tx' # tx
                PROVE  /\ tx'.kind = "frame" => ConfiguredWhenMeasuring /\ Measuring(regs)
                       /\ tx.kind = "error" => resets' # resets
    BY DEF nodeVars, node
  <2>1. CASE InitUart
    <3>1. tx' = Banner /\ pc = "uart"
      BY <2>1 DEF InitUart, Send
    <3>2. tx'.kind = "banner"
      BY <3>1 DEF Banner
    <3>3. tx.kind = "nothing"
      BY <3>1 DEF SampleInv
    <3>. QED
      BY <3>2, <3>3
  <2>2. CASE CheckDevid \/ Configure \/ ReadSample \/ SendFrame \/ Pace
    <3>1. pc \in Loop /\ (tx' = Error \/ (tx' = Frame /\ pc = "send"))
      BY <2>2, LoopSteps
    <3>2. tx.kind # "error" /\ (tx'.kind = "frame" => pc = "send")
      BY <3>1 DEF SampleInv, Error
    <3>. QED
      BY <3>2 DEF SampleInv, ConfigInv, ConfiguredWhenMeasuring, FormatSet, RateSet
  <2>3. CASE Reset
    BY <2>3 DEF Reset, Nothing, SampleInv
  <2>. QED
    BY <2>1, <2>2, <2>3
    DEF NodeNext, Step, StartUp, Write, InitChip, Drain, ForeignChip, Fault, Goto, node
<1>. QED
  BY <1>1, BootStart, BootStep, ConfigStart, ConfigStep, SampleStart, SampleStep, PTL
  DEF NodeSpec, NoGarbageFrames

-----------------------------------------------------------------------------
(* The line. *)

\* What the steps that are not about the UART leave alone.
LEMMA UartSteps ==
  ASSUME [NodeNext]_nodeVars
  PROVE  \/ InitUart /\ uart_init
         \/ Write /\ uart_putc(Byte(tx, sent + 1))
         \/ Drain /\ Transmit
         \/ Reset /\ (ChipReset \/ CoreReset)
         \/ UNCHANGED uartVars
<1>1. CASE StartUp
  BY <1>1 DEF StartUp
<1>2. CASE InitChip \/ ForeignChip
  BY <1>2 DEF InitChip, ForeignChip
<1>3. CASE CheckDevid \/ Configure \/ ReadSample \/ SendFrame \/ Pace
  BY <1>3, LoopSteps
<1>4. CASE Fault
  BY <1>4 DEF Fault, Goto
<1>5. CASE UNCHANGED nodeVars
  BY <1>5 DEF nodeVars
<1>6. CASE InitUart \/ Write \/ Drain \/ Reset
  BY <1>6 DEF InitUart, Write, Drain, Reset
<1>. QED
  BY <1>1, <1>2, <1>3, <1>4, <1>5, <1>6 DEF NodeNext, Step

-----------------------------------------------------------------------------
(***************************************************************************)
(* Set-up: an enabled UART runs with the format uart_init gives it, and on *)
(* the way through uart_init - where it is disabled - each register that   *)
(* was written holds what was meant.                                       *)
(***************************************************************************)
Configured == format = <<UART_IBRD_115200, UART_FBRD_115200, UART_8N1>>

SetUpInv ==
    /\ upc # "gate" => clocked = TRUE
    /\ "UARTEN" \in ctl => Configured /\ upc \in {"gate", "off", "ready"}
    /\ upc \in {"fbrd", "lcrh", "on"} => ibrd = UART_IBRD_115200
    /\ upc \in {"lcrh", "on"} => fbrd = UART_FBRD_115200
    /\ upc = "on" => Configured

LEMMA SetUpStart == NodeInit => SetUpInv
  BY DEF NodeInit, UartInit, SetUpInv

LEMMA SetUpStep == SetUpInv /\ [NodeNext]_nodeVars => SetUpInv'
<1>. SUFFICES ASSUME SetUpInv, [NodeNext]_nodeVars PROVE SetUpInv'
  OBVIOUS
<1>. USE DEF SetUpInv, Configured, settings
<1>1. CASE uart_init
  <2>1. CASE GateClock
    BY <2>1 DEF GateClock, Then
  <2>2. CASE Disable
    BY <2>2 DEF Disable, Then
  <2>3. CASE Divisors
    BY <2>3 DEF Divisors, Then, Taken
  <2>4. CASE LineControl
    BY <2>4 DEF LineControl, Then, Taken
  <2>5. CASE Enable
    BY <2>5 DEF Enable, Then
  <2>. QED
    BY <1>1, <2>1, <2>2, <2>3, <2>4, <2>5 DEF uart_init
<1>2. CASE uart_putc(Byte(tx, sent + 1))
  BY <1>2 DEF uart_putc, WriteDR
<1>3. CASE Transmit
  BY <1>3 DEF Transmit
<1>4. CASE ChipReset \/ CoreReset
  BY <1>4 DEF ChipReset, CoreReset
<1>5. CASE UNCHANGED uartVars
  BY <1>5 DEF uartVars
<1>. QED
  BY <1>1, <1>2, <1>3, <1>4, <1>5, UartSteps

\* A byte only ever goes out at 115200 baud, 8N1, also when main is entered
\* again with the UART still running.
THEOREM SentOnlySetUp == NodeSpec => SetUpBeforeUse
<1>1. SetUpInv /\ [NodeNext]_nodeVars =>
        [line' # line =>
           format = <<UART_IBRD_115200, UART_FBRD_115200, UART_8N1>>]_uartVars
  <2>. SUFFICES ASSUME SetUpInv, [NodeNext]_nodeVars, line' # line
                PROVE  Configured
    BY DEF Configured
  <2>1. Transmit
    BY UartSteps DEF uart_init, GateClock, Disable, Divisors, LineControl, Enable,
       uart_putc, WriteDR, ChipReset, CoreReset, uartVars
  <2>. QED
    BY <2>1 DEF Transmit, SetUpInv
<1>. QED
  BY <1>1, SetUpStart, SetUpStep, PTL DEF NodeSpec, SetUpBeforeUse

-----------------------------------------------------------------------------
(***************************************************************************)
(* The FIFO: from the last byte on the line through the FIFO to the last   *)
(* byte main handed over, each byte is followed by one that may follow it. *)
(***************************************************************************)
Items == [kind : {"banner", "error"}, boot : Nat] \cup
         [kind : {"frame"}, boot : Nat, seq : Nat, sample : [1 .. 3 -> Int]]
Bytes == [item : Items, n : 1 .. ITEM_BYTES]

Succeeds(byte, next) ==
    IF byte = NoByte \/ next.item.boot > byte.item.boot
    THEN next.item.kind = "banner" /\ next.n = 1
    ELSE /\ next.item.boot = byte.item.boot
         /\ IF byte.n < ITEM_BYTES
            THEN next.item = byte.item /\ next.n = byte.n + 1
            ELSE Follows(byte.item, next.item) /\ next.n = 1

Last == IF txfifo = <<>> THEN line ELSE txfifo[Len(txfifo)]

\* Nothing was sent in this run.
Earlier(byte) == byte = NoByte \/ byte.item.boot < resets

FifoInv ==
    /\ txfifo \in Seq(Bytes) /\ line \in Bytes \cup {NoByte}
    /\ resets \in Nat
    /\ line # NoByte => line.item.boot <= resets
    /\ \A k \in 1 .. Len(txfifo) : txfifo[k].item.boot <= resets
    /\ txfifo # <<>> => Succeeds(line, txfifo[1])
    /\ \A k \in 1 .. Len(txfifo) - 1 : Succeeds(txfifo[k], txfifo[k + 1])

LEMMA FifoTakes ==
  ASSUME FifoInv, NEW byte \in Bytes, byte.item.boot <= resets, uart_putc(byte),
         Succeeds(Last, byte), UNCHANGED resets
  PROVE  FifoInv' /\ Last' = byte
<1>1. txfifo' = Append(txfifo, byte) /\ line' = line
  BY DEF uart_putc, WriteDR, Full
<1>2. /\ txfifo' \in Seq(Bytes) /\ Len(txfifo') = Len(txfifo) + 1 /\ Len(txfifo) \in Nat
      /\ \A k \in 1 .. Len(txfifo) : txfifo'[k] = txfifo[k]
      /\ txfifo'[Len(txfifo) + 1] = byte
  BY <1>1 DEF FifoInv
<1>3. \A k \in 1 .. Len(txfifo) - 1 : Succeeds(txfifo'[k], txfifo'[k + 1])
  BY <1>2 DEF FifoInv
<1>4. CASE txfifo = <<>>
  <2>1. Last = line /\ Len(txfifo) = 0
    BY <1>4 DEF Last
  <2>. QED
    BY <1>1, <1>2, <2>1 DEF FifoInv, Last
<1>5. CASE txfifo # <<>>
  <2>1. Last = txfifo[Len(txfifo)] /\ Len(txfifo) > 0
    BY <1>5 DEF Last, FifoInv
  <2>2. Succeeds(txfifo'[Len(txfifo)], txfifo'[Len(txfifo) + 1])
    BY <1>2, <2>1
  <2>3. \A k \in 1 .. Len(txfifo') - 1 : Succeeds(txfifo'[k], txfifo'[k + 1])
    BY <1>2, <1>3, <2>1, <2>2
  <2>4. Succeeds(line', txfifo'[1])
    BY <1>1, <1>2, <1>5, <2>1 DEF FifoInv
  <2>. QED
    BY <1>1, <1>2, <2>1, <2>3, <2>4 DEF FifoInv, Last
<1>. QED
  BY <1>4, <1>5

LEMMA FifoGives ==
  ASSUME FifoInv, Transmit, UNCHANGED resets
  PROVE  FifoInv' /\ Last' = Last /\ Succeeds(line, line')
<1>1. txfifo # <<>> /\ line' = txfifo[1] /\ txfifo' = Tail(txfifo)
  BY DEF Transmit, FifoInv
<1>2. /\ Len(txfifo) \in Nat /\ Len(txfifo) > 0
      /\ txfifo' \in Seq(Bytes) /\ Len(txfifo') = Len(txfifo) - 1
      /\ \A k \in 1 .. Len(txfifo) - 1 : txfifo'[k] = txfifo[k + 1]
  BY <1>1 DEF FifoInv
<1>3. line' \in Bytes /\ line'.item.boot <= resets
  BY <1>1, <1>2 DEF FifoInv
<1>4. Succeeds(line, line')
  BY <1>1 DEF FifoInv
<1>5. Last' = Last
  <2>1. CASE Len(txfifo) = 1
    <3>1. txfifo' = <<>> /\ txfifo[Len(txfifo)] = line'
      BY <1>1, <1>2, <2>1
    <3>. QED
      BY <1>1, <3>1 DEF Last
  <2>2. CASE Len(txfifo) > 1
    <3>1. /\ txfifo' # <<>> /\ Len(txfifo) - 1 \in 1 .. Len(txfifo) - 1
          /\ Len(txfifo) - 1 + 1 = Len(txfifo)
      BY <1>2, <2>2
    <3>2. txfifo'[Len(txfifo')] = txfifo[Len(txfifo)]
      BY <1>2, <3>1
    <3>. QED
      BY <1>1, <3>1, <3>2 DEF Last
  <2>. QED
    BY <1>2, <2>1, <2>2
<1>6. txfifo' # <<>> => Succeeds(line', txfifo'[1])
  <2>. SUFFICES ASSUME txfifo' # <<>> PROVE Succeeds(line', txfifo'[1])
    OBVIOUS
  <2>1. Len(txfifo) > 1
    BY <1>2
  <2>. QED
    BY <1>1, <1>2, <2>1 DEF FifoInv
<1>7. \A k \in 1 .. Len(txfifo') - 1 : Succeeds(txfifo'[k], txfifo'[k + 1])
  BY <1>2 DEF FifoInv
<1>8. \A k \in 1 .. Len(txfifo') : txfifo'[k].item.boot <= resets
  BY <1>2 DEF FifoInv
<1>. QED
  BY <1>2, <1>3, <1>4, <1>5, <1>6, <1>7, <1>8 DEF FifoInv

LEMMA FifoReset ==
  ASSUME FifoInv, Reset
  PROVE  FifoInv' /\ Earlier(Last)'
<1>1. resets' = resets + 1 /\ resets \in Nat /\ line' = line /\ txfifo' \in {txfifo, <<>>}
  BY DEF Reset, ChipReset, CoreReset, FifoInv
<1>2. \A byte \in Bytes : byte.item.boot \in Nat
  BY DEF Bytes, Items
<1>3. FifoInv'
  <2>1. line # NoByte => line.item.boot <= resets'
    BY <1>1, <1>2 DEF FifoInv
  <2>2. \A k \in 1 .. Len(txfifo) : txfifo[k].item.boot <= resets'
    BY <1>1, <1>2 DEF FifoInv
  <2>3. resets' \in Nat
    BY <1>1
  <2>4. CASE txfifo' = txfifo
    BY <1>1, <2>1, <2>2, <2>3, <2>4 DEF FifoInv
  <2>5. CASE txfifo' = <<>>
    BY <1>1, <2>1, <2>3, <2>5 DEF FifoInv
  <2>. QED
    BY <1>1, <2>4, <2>5
<1>4. CASE txfifo' = <<>>
  BY <1>1, <1>2, <1>4 DEF FifoInv, Last, Earlier
<1>5. CASE txfifo' # <<>>
  <2>1. Len(txfifo) \in 1 .. Len(txfifo) /\ txfifo' = txfifo
    BY <1>1, <1>5 DEF FifoInv
  <2>2. txfifo'[Len(txfifo')] \in Bytes /\ txfifo'[Len(txfifo')].item.boot <= resets
    BY <2>1 DEF FifoInv
  <2>3. txfifo'[Len(txfifo')].item.boot < resets'
    BY <1>1, <1>2, <2>2
  <2>. QED
    BY <1>3, <1>5, <2>3 DEF Earlier, Last
<1>. QED
  BY <1>3, <1>4, <1>5

(***************************************************************************)
(* Where main is in its items: the last byte it handed over is that of     *)
(* the item it is writing, or the last one of the item before.             *)
(***************************************************************************)
NextSeqIs(n) == n = IF tx.kind = "banner" THEN 0 ELSE (tx.seq + 1) % SEQ_MOD

\* The item before the one that is about to begin.
MayFollow(item, byte) ==
    /\ byte \in Bytes /\ byte.n = ITEM_BYTES
    /\ byte.item.boot = resets /\ Follows(byte.item, item)

ItemInv ==
    /\ tx \in Items \cup {Nothing}
    /\ pc \in {"startup", "uart"} => Earlier(Last)
    /\ pc = "write" =>
          /\ tx \in Items /\ tx.boot = resets /\ sent \in 0 .. ITEM_BYTES - 1
          /\ sent > 0 => Last = Byte(tx, sent)
          /\ sent = 0 /\ tx.kind = "banner" => Earlier(Last)
          /\ sent = 0 /\ tx.kind # "banner" => MayFollow(tx, Last)
          /\ tx.kind = "frame" => tx.seq = seq
    /\ pc \in Loop \cup {"chip"} =>
          /\ tx \in Items /\ tx.boot = resets /\ Last = Byte(tx, ITEM_BYTES)
          /\ pc # "pace" => NextSeqIs(seq)
          /\ pc = "pace" => tx.kind = "frame" /\ tx.seq = seq

LineInv == BootInv /\ SampleInv /\ FifoInv /\ ItemInv

LEMMA LineStart == NodeInit => FifoInv /\ ItemInv
  BY DEF NodeInit, UartInit, FifoInv, ItemInv, Earlier, Last, Nothing, Loop, Driver

LEMMA ByteIsByte ==
  ASSUME NEW item \in Items, NEW n \in 1 .. ITEM_BYTES
  PROVE  /\ Byte(item, n) \in Bytes
         /\ Byte(item, n).item = item /\ Byte(item, n).n = n
         /\ Byte(item, n) # NoByte
  BY DEF Byte, Bytes, NoByte

\* The byte main hands over next is one that may follow the last one.
LEMMA WriteSucceeds ==
  ASSUME LineInv, pc = "write"
  PROVE  /\ Byte(tx, sent + 1) \in Bytes
         /\ Byte(tx, sent + 1).item.boot <= resets
         /\ Succeeds(Last, Byte(tx, sent + 1))
<1>. DEFINE next == Byte(tx, sent + 1)
<1>1. /\ tx \in Items /\ tx.boot = resets /\ resets \in Nat
      /\ sent \in Nat /\ sent + 1 \in 1 .. ITEM_BYTES /\ ITEM_BYTES \in Nat
  BY NodeAssumption DEF LineInv, ItemInv, FifoInv
<1>2. next \in Bytes /\ next.item = tx /\ next.n = sent + 1
  BY <1>1, ByteIsByte
<1>3. CASE sent > 0
  <2>1. Last = Byte(tx, sent) /\ sent \in 1 .. ITEM_BYTES
    BY <1>1, <1>3 DEF LineInv, ItemInv
  <2>2. Last.item = tx /\ Last.n = sent /\ Last # NoByte
    BY <1>1, <2>1, ByteIsByte
  <2>. QED
    BY <1>1, <1>2, <2>2 DEF Succeeds
<1>4. CASE sent = 0 /\ tx.kind = "banner"
  BY <1>1, <1>2, <1>4 DEF LineInv, ItemInv, Earlier, Succeeds
<1>5. CASE sent = 0 /\ tx.kind # "banner"
  <2>1. MayFollow(tx, Last)
    BY <1>5 DEF LineInv, ItemInv
  <2>2. Last \in Bytes /\ Last # NoByte
    BY <2>1 DEF MayFollow, Bytes, NoByte
  <2>. QED
    BY <1>1, <1>2, <1>5, <2>1, <2>2 DEF MayFollow, Succeeds
<1>. QED
  BY <1>1, <1>2, <1>3, <1>4, <1>5

LEMMA WriteLine ==
  ASSUME LineInv, Write
  PROVE  FifoInv' /\ ItemInv'
<1>1. /\ pc = "write" /\ uart_putc(Byte(tx, sent + 1)) /\ sent' = sent + 1
      /\ pc' = IF sent' < ITEM_BYTES THEN "write" ELSE After(tx.kind)
      /\ UNCHANGED <<seq, tx, resets>>
  BY DEF Write
<1>2. FifoInv' /\ Last' = Byte(tx, sent + 1)
  BY <1>1, WriteSucceeds, FifoTakes DEF LineInv
<1>3. /\ tx \in Items /\ tx.boot = resets /\ sent \in Nat /\ sent + 1 <= ITEM_BYTES
      /\ ITEM_BYTES \in Nat
      /\ tx.kind = "frame" => tx.seq = seq
      /\ tx.kind = "banner" => seq = 0
  BY <1>1, NodeAssumption DEF LineInv, ItemInv, SampleInv, Sending
<1>4. CASE sent' < ITEM_BYTES
  BY <1>1, <1>2, <1>3, <1>4 DEF ItemInv, Loop, Driver
<1>5. CASE ~(sent' < ITEM_BYTES)
  <2>1. sent' = ITEM_BYTES /\ Last' = Byte(tx, ITEM_BYTES)
    BY <1>1, <1>2, <1>3, <1>5
  <2>2. tx.kind \in {"banner", "error", "frame"}
    BY <1>1 DEF LineInv, BootInv
  <2>3. CASE tx.kind = "banner"
    BY <1>1, <1>2, <1>3, <1>5, <2>1, <2>3 DEF After, ItemInv, NextSeqIs, Loop, Driver
  <2>4. CASE tx.kind = "error"
    BY <1>1, <1>2, <1>3, <1>5, <2>1, <2>4 DEF After, ItemInv, Loop, Driver
  <2>5. CASE tx.kind = "frame"
    BY <1>1, <1>2, <1>3, <1>5, <2>1, <2>5 DEF After, ItemInv, Loop, Driver
  <2>. QED
    BY <1>2, <2>2, <2>3, <2>4, <2>5
<1>. QED
  BY <1>2, <1>4, <1>5

LEMMA SeqInLoop ==
  ASSUME CheckDevid \/ Configure \/ ReadSample \/ SendFrame
  PROVE  seq' = seq /\ pc # "pace" /\ pc' # "pace"
<1>1. CASE CheckDevid
  BY <1>1 DEF CheckDevid, Continue, Failing, Halt, Send
<1>2. CASE Configure
  BY <1>2 DEF Configure, RegWrite, Continue, Failing, Halt, Send
<1>3. CASE ReadSample
  BY <1>3 DEF ReadSample, Failing, Halt, Send
<1>4. CASE SendFrame
  BY <1>4 DEF SendFrame, Send
<1>. QED
  BY <1>1, <1>2, <1>3, <1>4

LEMMA ErrorAndFrame ==
  ASSUME LineInv
  PROVE  /\ Error \in Items /\ Error.kind = "error" /\ Error.boot = resets
         /\ pc = "send" => Frame \in Items
         /\ Frame.kind = "frame" /\ Frame.boot = resets /\ Frame.seq = seq
<1>1. resets \in Nat /\ seq \in Nat
  BY NodeAssumption DEF LineInv, SampleInv
<1>2. \A k \in Nat : SampleOf(k) \in [1 .. 3 -> Int]
  BY AxesFit DEF SampleOf, Mg
<1>3. pc = "send" => sample \in [1 .. 3 -> Int]
  BY <1>1, <1>2 DEF LineInv, SampleInv
<1>. QED
  BY <1>1, <1>3 DEF Error, Frame, Items

LEMMA LoopLine ==
  ASSUME LineInv, CheckDevid \/ Configure \/ ReadSample \/ SendFrame \/ Pace
  PROVE  ItemInv'
<1>1. /\ UNCHANGED <<txfifo, line, resets>> /\ pc \in Loop
      /\ \/ pc' \in Loop /\ UNCHANGED <<tx, sent>>
         \/ pc \in Driver /\ pc' = "write" /\ tx' = Error /\ sent' = 0
         \/ pc = "send" /\ pc' = "write" /\ tx' = Frame /\ sent' = 0
  BY LoopSteps DEF uartVars
<1>2. Last' = Last
  BY <1>1 DEF Last
<1>3. /\ tx \in Items /\ tx.boot = resets /\ Last = Byte(tx, ITEM_BYTES)
      /\ tx.kind \in {"banner", "frame"}
  BY <1>1 DEF LineInv, ItemInv, SampleInv
<1>4. /\ Last \in Bytes /\ Last.item = tx /\ Last.n = ITEM_BYTES
      /\ ITEM_BYTES \in Nat /\ ITEM_BYTES > 0
  BY <1>3, ByteIsByte, NodeAssumption
<1>5. CASE pc' \in Loop /\ UNCHANGED <<tx, sent>>
  <2>1. CASE Pace
    <3>1. seq' = (seq + 1) % SEQ_MOD /\ pc = "pace" /\ pc' = "read"
      BY <2>1 DEF Pace, Goto
    <3>2. tx.kind = "frame" /\ tx.seq = seq
      BY <3>1 DEF LineInv, ItemInv, Loop
    <3>. QED
      BY <1>1, <1>2, <1>3, <1>5, <3>1, <3>2 DEF ItemInv, NextSeqIs, Loop, Driver
  <2>2. CASE CheckDevid \/ Configure \/ ReadSample \/ SendFrame
    <3>1. seq' = seq /\ pc # "pace" /\ pc' # "pace" /\ NextSeqIs(seq)
      BY <1>1, <2>2, SeqInLoop DEF LineInv, ItemInv
    <3>. QED
      BY <1>1, <1>2, <1>3, <1>5, <3>1 DEF ItemInv, NextSeqIs, Loop, Driver
  <2>. QED
    BY <2>1, <2>2
<1>6. CASE pc \in Driver /\ pc' = "write" /\ tx' = Error /\ sent' = 0
  <2>1. Follows(tx, Error)
    BY <1>3, ErrorAndFrame DEF Follows
  <2>. QED
    BY <1>1, <1>2, <1>3, <1>4, <1>6, <2>1, ErrorAndFrame
    DEF ItemInv, MayFollow, Loop, Driver
<1>7. CASE pc = "send" /\ pc' = "write" /\ tx' = Frame /\ sent' = 0
  <2>1. NextSeqIs(seq)
    BY <1>1, <1>7 DEF LineInv, ItemInv
  <2>2. Follows(tx, Frame)
    BY <1>3, <2>1, ErrorAndFrame DEF Follows, NextSeqIs
  <2>3. seq' = seq
    BY <1>7, SeqInLoop DEF Pace, Goto
  <2>. QED
    BY <1>1, <1>2, <1>3, <1>4, <1>7, <2>2, <2>3, ErrorAndFrame
    DEF ItemInv, MayFollow, Loop, Driver
<1>. QED
  BY <1>1, <1>5, <1>6, <1>7

LEMMA FifoKept ==
  ASSUME FifoInv, UNCHANGED <<txfifo, line, resets>>
  PROVE  FifoInv' /\ Last' = Last
  BY DEF FifoInv, Last

LEMMA LineStep == LineInv /\ [NodeNext]_nodeVars => FifoInv' /\ ItemInv'
<1>. SUFFICES ASSUME LineInv, [NodeNext]_nodeVars PROVE FifoInv' /\ ItemInv'
  OBVIOUS
<1>0. FifoInv /\ ItemInv
  BY DEF LineInv
<1>1. CASE StartUp
  <2>1. /\ UNCHANGED <<txfifo, line, seq, tx, sent, resets>>
        /\ pc = "startup" /\ pc' \in {"startup", "uart"}
    BY <1>1 DEF StartUp, uartVars
  <2>2. FifoInv' /\ Last' = Last
    BY <1>0, <2>1, FifoKept
  <2>. QED
    BY <1>0, <2>1, <2>2 DEF ItemInv, Earlier, Loop, Driver
<1>2. CASE InitUart
  <2>1. UNCHANGED <<txfifo, line, seq, resets>> /\ pc = "uart"
    BY <1>2 DEF InitUart, uart_init, GateClock, Disable, Divisors, LineControl, Enable
  <2>2. FifoInv' /\ Last' = Last
    BY <1>0, <2>1, FifoKept
  <2>3. CASE UNCHANGED <<pc, tx, sent>>
    BY <1>0, <2>1, <2>2, <2>3 DEF ItemInv, Earlier, Loop, Driver
  <2>4. CASE Send(Banner)
    <3>1. pc' = "write" /\ tx' = Banner /\ sent' = 0
      BY <2>4 DEF Send
    <3>2. Banner \in Items /\ Banner.kind = "banner" /\ Banner.boot = resets
      BY <1>0 DEF FifoInv, Banner, Items
    <3>3. ITEM_BYTES - 1 \in Nat
      BY NodeAssumption
    <3>. QED
      BY <1>0, <2>1, <2>2, <3>1, <3>2, <3>3 DEF ItemInv, Earlier, Loop, Driver
  <2>. QED
    BY <1>2, <2>3, <2>4 DEF InitUart
<1>3. CASE Write
  BY <1>3, WriteLine
<1>4. CASE InitChip
  <2>1. /\ UNCHANGED <<txfifo, line, seq, tx, sent, resets>>
        /\ pc = "chip" /\ pc' = "devid"
    BY <1>4 DEF InitChip, uartVars
  <2>2. FifoInv' /\ Last' = Last
    BY <1>0, <2>1, FifoKept
  <2>. QED
    BY <1>0, <2>1, <2>2 DEF ItemInv, NextSeqIs, Loop, Driver
<1>5. CASE CheckDevid \/ Configure \/ ReadSample \/ SendFrame \/ Pace
  <2>1. UNCHANGED <<txfifo, line, resets>>
    BY <1>5, LoopSteps DEF uartVars
  <2>. QED
    BY <1>0, <1>5, <2>1, FifoKept, LoopLine
<1>6. CASE Drain
  <2>1. Transmit /\ UNCHANGED <<pc, seq, tx, sent, resets>>
    BY <1>6 DEF Drain, node
  <2>2. FifoInv' /\ Last' = Last
    BY <1>0, <2>1, FifoGives
  <2>. QED
    BY <1>0, <2>1, <2>2 DEF ItemInv, Earlier, MayFollow, NextSeqIs
<1>7. CASE ForeignChip \/ UNCHANGED nodeVars
  <2>1. UNCHANGED <<txfifo, line, pc, seq, tx, sent, resets>>
    BY <1>7 DEF ForeignChip, nodeVars, uartVars, node
  <2>2. FifoInv' /\ Last' = Last
    BY <1>0, <2>1, FifoKept
  <2>. QED
    BY <1>0, <2>1, <2>2 DEF ItemInv, Earlier, MayFollow, NextSeqIs
<1>8. CASE Fault
  <2>1. UNCHANGED <<txfifo, line, seq, tx, sent, resets>> /\ pc' = "trapped"
    BY <1>8 DEF Fault, Goto, uartVars
  <2>2. FifoInv'
    BY <1>0, <2>1, FifoKept
  <2>. QED
    BY <1>0, <2>1, <2>2 DEF ItemInv, Loop, Driver
<1>9. CASE Reset
  <2>1. pc' = "startup" /\ tx' = Nothing
    BY <1>9 DEF Reset
  <2>2. FifoInv' /\ Earlier(Last)'
    BY <1>0, <1>9, FifoReset
  <2>. QED
    BY <2>1, <2>2 DEF ItemInv, Loop, Driver
<1>. QED
  BY <1>1, <1>2, <1>3, <1>4, <1>5, <1>6, <1>7, <1>8, <1>9 DEF NodeNext, Step

\* A receiver hears whole items in order within each run, frames numbered
\* without a gap, and the rest of a run before the banner of the next.
THEOREM LineCarriesWholeItems == NodeSpec => LineIsWhole
<1>1. FifoInv /\ [NodeNext]_nodeVars => (line' # line => Succeeds(line, line'))
  <2>. SUFFICES ASSUME FifoInv, [NodeNext]_nodeVars, line' # line
                PROVE  Succeeds(line, line')
    OBVIOUS
  <2>1. Transmit /\ UNCHANGED resets
    BY UartSteps DEF uart_init, GateClock, Disable, Divisors, LineControl, Enable,
       uart_putc, WriteDR, ChipReset, CoreReset, uartVars, Drain, node
  <2>. QED
    BY <2>1, FifoGives
<1>2. LineInv /\ [NodeNext]_nodeVars => LineInv'
  BY BootStep, SampleStep, LineStep DEF LineInv
<1>3. NodeInit => LineInv
  BY BootStart, SampleStart, LineStart DEF LineInv
<1>4. LineInv => FifoInv
  BY DEF LineInv
<1>. QED
  BY <1>1, <1>2, <1>3, <1>4, PTL DEF NodeSpec, LineIsWhole, Succeeds

-----------------------------------------------------------------------------
(* The types of everything: the chip's registers are bytes ... *)

LEMMA AdvanceFits == \A p, n \in Nat : Advance(p, n) \in Register
  BY DEF Advance, Register, I2C_SIM_NREGS

LEMMA SnapshotFits ==
  ASSUME NEW k \in Nat, NEW r \in DataRegister
  PROVE  SnapshotByte(k, r) \in 0 .. 255
<1>1. (r - SIM_REG_DATAX0) \div 2 + 1 \in 1 .. 3
  BY DEF DataRegister, SIM_REG_DATAX0, SIM_REG_DATAZ1
<1>2. Axes(k)[(r - SIM_REG_DATAX0) \div 2 + 1] \in Int
  BY <1>1, AxesFit
<1>3. \A n \in Int : n % 256 \in 0 .. 255 /\ (n \div 256) % 256 \in 0 .. 255
  OBVIOUS
<1>. QED
  BY <1>2, <1>3 DEF SnapshotByte, AxisByte

LEMMA ChipTypes ==
  ASSUME TypeOK, NEW reg \in Register, NEW val \in 0 .. 255, NEW n \in Nat,
         \/ sim_write(<<reg, val>>) \/ sim_write(<<reg>>)
         \/ sim_write_read(reg, n) \/ UNCHANGED vars
  PROVE  TypeOK'
<1>. USE DEF TypeOK
<1>0. reg \in Nat
  BY DEF Register
<1>1. CASE sim_write(<<reg, val>>)
  <2>0. \A r \in Register : regs'[r] = IF r = reg THEN val ELSE regs[r]
    BY <1>1, RegisterWritten
  <2>1. \A r \in Register : regs'[r] \in 0 .. 255
    BY <2>0
  <2>2. regs' = [r \in Register |-> regs'[r]]
    BY <1>1 DEF sim_write, Written
  <2>3. ptr' = Advance(reg, 1) /\ rdata' = <<>> /\ phase' = phase
    BY <1>1 DEF sim_write
  <2>4. regs' \in [Register -> 0 .. 255] /\ ptr' \in Register
    BY <1>0, <2>1, <2>2, <2>3, AdvanceFits
  <2>. QED
    BY <2>3, <2>4 DEF TypeOK
<1>2. CASE sim_write(<<reg>>)
  <2>1. \A r \in Register : regs'[r] \in 0 .. 255
    BY <1>2, PointerWritten
  <2>2. regs' = [r \in Register |-> regs'[r]]
    BY <1>2 DEF sim_write, Written
  <2>3. ptr' = Advance(reg, 0) /\ rdata' = <<>> /\ phase' = phase
    BY <1>2 DEF sim_write
  <2>4. regs' \in [Register -> 0 .. 255] /\ ptr' \in Register
    BY <1>0, <2>1, <2>2, <2>3, AdvanceFits
  <2>. QED
    BY <2>3, <2>4 DEF TypeOK
<1>3. CASE sim_write_read(reg, n)
  <2>1. regs' = Refreshed(regs, phase) \/ regs' = regs
    BY <1>3 DEF sim_write_read
  <2>2. Refreshed(regs, phase) \in [Register -> 0 .. 255]
    <3>1. phase \in Nat
      OBVIOUS
    <3>2. \A r \in DataRegister : SnapshotByte(phase, r) \in 0 .. 255
      BY <3>1, SnapshotFits
    <3>. QED
      BY <3>2 DEF Refreshed
  <2>3. regs' \in [Register -> 0 .. 255]
    BY <2>1, <2>2
  <2>4. ptr' \in Register
    BY <1>0, <1>3, AdvanceFits DEF sim_write_read
  <2>5. phase' \in 0 .. 15
    BY <1>3 DEF sim_write_read
  <2>6. rdata' \in [1 .. n -> 0 .. 255]
    <3>1. \A m \in 1 .. n : Advance(reg, m - 1) \in Register
      BY <1>0, AdvanceFits
    <3>. QED
      BY <1>3, <2>3, <3>1 DEF sim_write_read
  <2>7. rdata' \in Seq(0 .. 255)
    BY <2>6
  <2>. QED
    BY <2>3, <2>4, <2>5, <2>7
<1>4. CASE UNCHANGED vars
  BY <1>4 DEF vars, chip
<1>. QED
  BY <1>1, <1>2, <1>3, <1>4

LEMMA ChipTypeStep == TypeOK /\ [NodeNext]_nodeVars => TypeOK'
<1>. SUFFICES ASSUME TypeOK, [NodeNext]_nodeVars PROVE TypeOK'
  OBVIOUS
<1>0. /\ 0 \in Register /\ 0 \in 0 .. 255 /\ SIM_DEVID_VALUE \in 0 .. 255
      /\ {DATA_FORMAT_CONFIG, RATE_100HZ, POWER_CTL_MEASURE} \subseteq 0 .. 255
  BY DEF Register, I2C_SIM_NREGS, SIM_DEVID_VALUE, DATA_FORMAT_CONFIG, RATE_100HZ,
         POWER_CTL_MEASURE
<1>1. CASE StartUp \/ InitChip
  <2>1. \/ UNCHANGED vars
        \/ /\ \/ regs' = [r \in Register |-> 0]
              \/ regs' = [r \in Register |-> IF r = SIM_REG_DEVID THEN SIM_DEVID_VALUE ELSE 0]
           /\ ptr' = 0 /\ phase' = 0 /\ rdata' = <<>>
    BY <1>1 DEF StartUp, InitChip, Reinitialise
  <2>2. <<>> \in Seq(0 .. 255) /\ 0 \in 0 .. 15
    OBVIOUS
  <2>3. CASE UNCHANGED vars
    BY <2>3 DEF vars, chip, TypeOK
  <2>4. CASE ~UNCHANGED vars
    <3>1. /\ [r \in Register |-> 0] \in [Register -> 0 .. 255]
          /\ [r \in Register |-> IF r = SIM_REG_DEVID THEN SIM_DEVID_VALUE ELSE 0]
                \in [Register -> 0 .. 255]
      BY <1>0
    <3>2. regs' \in [Register -> 0 .. 255] /\ ptr' = 0 /\ phase' = 0 /\ rdata' = <<>>
      BY <2>1, <2>4, <3>1
    <3>. QED
      BY <1>0, <2>2, <3>2 DEF TypeOK
  <2>. QED
    BY <2>3, <2>4
<1>2. CASE CheckDevid \/ ReadSample
  BY <1>0, <1>2, ChipTypes, ConfigRegisters DEF CheckDevid, ReadSample, Failing
<1>3. CASE Configure
  <2>1. ASSUME NEW here, NEW reg \in Register, NEW val \in 0 .. 255, NEW next,
               RegWrite(here, reg, val, next)
        PROVE  TypeOK'
    BY <2>1, ChipTypes DEF RegWrite, Failing
  <2>. QED
    BY <1>0, <1>3, <2>1, ConfigRegisters DEF Configure
<1>4. CASE ForeignChip
  BY <1>0, <1>4, ConfigRegisters DEF ForeignChip, TypeOK
<1>5. CASE InitUart \/ Write \/ SendFrame \/ Pace \/ Drain \/ Fault \/ Reset
           \/ UNCHANGED nodeVars
  <2>1. UNCHANGED vars
    BY <1>5 DEF InitUart, Write, SendFrame, Pace, Goto, Drain, Fault, Reset, nodeVars
  <2>. QED
    BY <2>1 DEF vars, chip, TypeOK
<1>. QED
  BY <1>1, <1>2, <1>3, <1>4, <1>5 DEF NodeNext, Step

(* ... the UART's registers and its FIFO are within their bounds ... *)

ClockFlag == clocked \in BOOLEAN

UartTypes ==
    /\ upc \in {"gate", "off", "ibrd", "fbrd", "lcrh", "on", "ready"}
    /\ ctl \subseteq {"UARTEN", "TXE", "RXE"}
    /\ ibrd \in Int /\ fbrd \in Int
    /\ Len(txfifo) <= FIFO_DEPTH

LEMMA ClockStep == ClockFlag /\ [NodeNext]_nodeVars => ClockFlag'
<1>. SUFFICES ASSUME ClockFlag, [NodeNext]_nodeVars PROVE ClockFlag'
  OBVIOUS
<1>1. clocked' = clocked \/ clocked' = TRUE \/ clocked' = FALSE
  BY UartSteps DEF uart_init, GateClock, Disable, Divisors, LineControl, Enable, uart_putc,
     WriteDR, Transmit, ChipReset, CoreReset, uartVars
<1>. QED
  BY <1>1, Zenon DEF ClockFlag

LEMMA UartTypeStep == FifoInv /\ UartTypes /\ [NodeNext]_nodeVars => UartTypes'
<1>. SUFFICES ASSUME FifoInv, UartTypes, [NodeNext]_nodeVars PROVE UartTypes'
  OBVIOUS
<1>. USE UartAssumption DEF UartTypes, settings
<1>1. CASE uart_init
  <2>1. \A value \in Int : Taken(value) \in Int
    BY DEF Taken, Undefined
  <2>2. /\ UNCHANGED txfifo
        /\ upc' \in {"gate", "off", "ibrd", "fbrd", "lcrh", "on", "ready"}
        /\ ctl' \in {ctl, {}, {"UARTEN", "TXE", "RXE"}}
    BY <1>1
    DEF uart_init, GateClock, Disable, Divisors, LineControl, Enable, Then
  <2>3. /\ ibrd' \in {ibrd, Taken(UART_IBRD_115200)}
        /\ fbrd' \in {fbrd, Taken(UART_FBRD_115200)}
    BY <1>1 DEF uart_init, GateClock, Disable, Divisors, LineControl, Enable
  <2>4. ibrd' \in Int /\ fbrd' \in Int
    BY <2>1, <2>3 DEF UART_IBRD_115200, UART_FBRD_115200
  <2>. QED
    BY <2>2, <2>4
<1>2. CASE uart_putc(Byte(tx, sent + 1))
  <2>1. Len(txfifo) \in Nat /\ Len(Append(txfifo, Byte(tx, sent + 1))) = Len(txfifo) + 1
    BY DEF FifoInv
  <2>. QED
    BY <1>2, <2>1 DEF uart_putc, WriteDR, Full
<1>3. CASE Transmit
  <2>1. Len(Tail(txfifo)) <= Len(txfifo) /\ Len(txfifo) \in Nat /\ Len(Tail(txfifo)) \in Nat
    BY <1>3 DEF Transmit, FifoInv
  <2>. QED
    BY <1>3, <2>1 DEF Transmit
<1>4. CASE ChipReset \/ CoreReset
  <2>1. Len(txfifo') <= FIFO_DEPTH
    <3>1. txfifo' = txfifo \/ txfifo' = <<>>
      BY <1>4 DEF ChipReset, CoreReset
    <3>2. Len(<<>>) <= FIFO_DEPTH
      OBVIOUS
    <3>. QED
      BY <3>1, <3>2
  <2>2. /\ upc' = "gate" /\ ctl' \in {ctl, {}}
        /\ ibrd' \in {ibrd, 0} /\ fbrd' \in {fbrd, 0}
    BY <1>4 DEF ChipReset, CoreReset
  <2>. QED
    BY <2>1, <2>2
<1>5. CASE UNCHANGED uartVars
  BY <1>5 DEF uartVars
<1>. QED
  BY <1>1, <1>2, <1>3, <1>4, <1>5, UartSteps

(* ... and so is what main keeps. *)

MainTypes ==
    /\ pc \in {"startup", "uart", "write", "chip", "halted", "trapped"} \cup Loop
    /\ sample \in [1 .. 3 -> Int]
    /\ tx.kind \in {"nothing", "banner", "error", "frame"}
    /\ sent \in 0 .. ITEM_BYTES
    /\ resets \in 0 .. MaxResets

LEMMA SamplesAreIntegers == \A k \in Nat : SampleOf(k) \in [1 .. 3 -> Int]
  BY AxesFit DEF SampleOf, Mg

LEMMA MainTypeStep ==
  LineInv /\ SampleInv' /\ MainTypes /\ [NodeNext]_nodeVars => MainTypes'
<1>. SUFFICES ASSUME LineInv, SampleInv', MainTypes, [NodeNext]_nodeVars PROVE MainTypes'
  OBVIOUS
<1>. USE NodeAssumption DEF MainTypes
<1>0. 0 \in 0 .. ITEM_BYTES /\ ZeroSample \in [1 .. 3 -> Int]
  BY DEF ZeroSample
<1>1. CASE StartUp
  BY <1>0, <1>1 DEF StartUp
<1>2. CASE InitUart
  BY <1>0, <1>2 DEF InitUart, Send, Banner
<1>3. CASE Write
  <2>1. tx.kind \in {"banner", "error", "frame"} /\ sent \in 0 .. ITEM_BYTES - 1
    BY <1>3 DEF Write, LineInv, BootInv, ItemInv
  <2>2. After(tx.kind) \in {"chip", "halted", "pace"}
    BY <2>1 DEF After
  <2>. QED
    BY <1>3, <2>1, <2>2 DEF Write, Loop, Driver
<1>4. CASE InitChip
  BY <1>4 DEF InitChip, Loop, Driver
<1>5. CASE CheckDevid \/ Configure \/ ReadSample \/ SendFrame \/ Pace
  <2>1. /\ resets' = resets
        /\ \/ pc' \in Loop /\ UNCHANGED <<tx, sent>>
           \/ pc' = "write" /\ tx' \in {Error, Frame} /\ sent' = 0
    BY <1>5, LoopSteps
  <2>2. Error.kind = "error" /\ Frame.kind = "frame"
    BY DEF Error, Frame
  <2>3. UNCHANGED sample \/ pc' = "send"
    BY <1>5 DEF CheckDevid, Configure, RegWrite, Continue, ReadSample, Failing, Halt, Send,
       SendFrame, Pace
  <2>4. sample' \in [1 .. 3 -> Int]
    BY <2>3, SamplesAreIntegers DEF SampleInv, SampleOf
  <2>. QED
    BY <1>0, <2>1, <2>2, <2>4
<1>6. CASE Drain \/ ForeignChip \/ UNCHANGED nodeVars
  BY <1>6 DEF Drain, ForeignChip, nodeVars, node
<1>7. CASE Fault
  BY <1>7 DEF Fault, Goto
<1>8. CASE Reset
  BY <1>0, <1>8 DEF Reset, Nothing
<1>. QED
  BY <1>1, <1>2, <1>3, <1>4, <1>5, <1>6, <1>7, <1>8 DEF NodeNext, Step

LEMMA TypeStart == NodeInit => TypeOK /\ ClockFlag /\ UartTypes /\ MainTypes
<1>. SUFFICES ASSUME NodeInit PROVE TypeOK /\ ClockFlag /\ UartTypes /\ MainTypes
  OBVIOUS
<1>1. TypeOK
  BY DEF NodeInit, Init, i2c_sim_init, TypeOK, SIM_DEVID_VALUE, Register, I2C_SIM_NREGS
<1>2. ClockFlag
  BY Zenon DEF NodeInit, UartInit, ClockFlag
<1>3. UartTypes
  BY UartAssumption DEF NodeInit, UartInit, UartTypes, settings
<1>4. MainTypes
  BY NodeAssumption DEF NodeInit, MainTypes, ZeroSample, Nothing
<1>. QED
  BY <1>1, <1>2, <1>3, <1>4

\* Memory, registers, FIFO and counters keep their types and bounds.
THEOREM NodeTypeCorrect == NodeSpec => []NodeTypeOK
<1>1. LineInv /\ [NodeNext]_nodeVars => LineInv'
  BY BootStep, SampleStep, LineStep DEF LineInv
<1>2. NodeInit => LineInv
  BY BootStart, SampleStart, LineStart DEF LineInv
<1>3. LineInv => FifoInv /\ SampleInv
  BY DEF LineInv
<1>4. LineInv /\ TypeOK /\ ClockFlag /\ UartTypes /\ MainTypes => NodeTypeOK
  <2>. SUFFICES ASSUME LineInv, TypeOK, ClockFlag, UartTypes, MainTypes PROVE NodeTypeOK
    OBVIOUS
  <2>1. StartupTypeOK
    BY DEF LineInv, BootInv, StartupTypeOK
  <2>2. UartTypeOK
    BY DEF ClockFlag, UartTypes, UartTypeOK
  <2>3. seq \in 0 .. SEQ_MOD - 1
    BY DEF LineInv, SampleInv
  <2>. QED
    BY <2>1, <2>2, <2>3 DEF MainTypes, Loop, Driver, NodeTypeOK
<1>. QED
  BY <1>1, <1>2, <1>3, <1>4, TypeStart, ChipTypeStep, ClockStep, UartTypeStep, MainTypeStep, PTL
  DEF NodeSpec
=============================================================================
