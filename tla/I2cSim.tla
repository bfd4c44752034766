------------------------------- MODULE I2cSim -------------------------------
(***************************************************************************)
(* firmware/i2c_sim.c: the simulated ADXL345 behind the i2c_bus_t          *)
(* interface - a register file, an auto-incrementing register pointer and  *)
(* a synthetic vibration that advances once per burst read of the data.    *)
(* Only transactions with the chip's own address and with valid pointers   *)
(* are modelled: every other one returns an error before it changes        *)
(* anything, as a write of no bytes does; the extra bytes a write_read may *)
(* write before it reads, which no caller sends, are left out too.         *)
(* phase is a uint32_t of which only the low four bits are ever read, so   *)
(* it is kept modulo 16.  A register number of 58 or more, which would     *)
(* index past regs[] (i2c_sim.c:115), is no input here: the driver has     *)
(* none.                                                                   *)
(***************************************************************************)
EXTENDS Integers, Sequences

I2C_SIM_NREGS == 58

SIM_REG_DEVID     == 0
SIM_REG_POWER_CTL == 45     \* 0x2D
SIM_REG_DATAX0    == 50     \* 0x32
SIM_REG_DATAZ1    == 55     \* 0x37
SIM_DEVID_VALUE   == 229    \* 0xE5

Register == 0 .. I2C_SIM_NREGS - 1
DataRegister == SIM_REG_DATAX0 .. SIM_REG_DATAZ1

VARIABLES regs, ptr, phase,
    rdata           \* the bytes the last transaction returned

chip == <<regs, ptr, phase>>
vars == <<chip, rdata>>

i2c_sim_init ==
    /\ regs = [r \in Register |-> IF r = SIM_REG_DEVID THEN SIM_DEVID_VALUE ELSE 0]
    /\ ptr = 0
    /\ phase = 0

\* The same, on a chip that has been running.
Reinitialise ==
    /\ regs' = [r \in Register |-> IF r = SIM_REG_DEVID THEN SIM_DEVID_VALUE ELSE 0]
    /\ ptr' = 0
    /\ phase' = 0

\* Where the pointer is after n bytes from p: sim_next_ptr, n times.
Advance(p, n) == (p + n) % I2C_SIM_NREGS

\* wobble[], amplitude 16, and the three axes it drives.
Wobble(k) == CASE k % 16 <= 4            -> 4 * (k % 16)
               [] k % 16 \in 5 .. 12     -> 4 * (8 - (k % 16))
               [] OTHER                  -> 4 * ((k % 16) - 16)

Axes(k) == <<Wobble(k), Wobble(k + 4), 256>>

\* Little-endian two's complement of an axis, low byte at an even offset.
AxisByte(n, high) == IF high THEN (n \div 256) % 256 ELSE n % 256

\* sim_refresh_sample: all six data registers at once.
SnapshotByte(k, r) ==
    LET offset == r - SIM_REG_DATAX0
    IN  AxisByte(Axes(k)[offset \div 2 + 1], offset % 2 = 1)

Refreshed(file, k) ==
    [r \in Register |-> IF r \in DataRegister THEN SnapshotByte(k, r) ELSE file[r]]

Measuring(file) == (file[SIM_REG_POWER_CTL] \div 8) % 2 = 1

sim_touches_data(p, rlen) == p <= SIM_REG_DATAZ1 /\ p + rlen > SIM_REG_DATAX0

\* The first byte sets the pointer, the others are register writes.
Written(file, data) ==
    [r \in Register |->
        IF \E n \in 2 .. Len(data) : Advance(data[1], n - 2) = r
        THEN data[CHOOSE n \in 2 .. Len(data) : Advance(data[1], n - 2) = r]
        ELSE file[r]]

sim_write(data) ==
    /\ IF data = <<>>
       THEN UNCHANGED <<regs, ptr>>
       ELSE /\ regs' = Written(regs, data)
            /\ ptr' = Advance(data[1], Len(data) - 1)
    /\ rdata' = <<>>
    /\ UNCHANGED phase

\* A pointer write and a burst read of rlen bytes, with a repeated start.
sim_write_read(reg, rlen) ==
    LET fresh == rlen > 0 /\ sim_touches_data(reg, rlen) /\ Measuring(regs)
    IN  /\ regs' = IF fresh THEN Refreshed(regs, phase) ELSE regs
        /\ phase' = IF fresh THEN (phase + 1) % 16 ELSE phase
        /\ rdata' = [n \in 1 .. rlen |-> regs'[Advance(reg, n - 1)]]
        /\ ptr' = Advance(reg, rlen)

Init == i2c_sim_init /\ rdata = <<>>

TypeOK ==
    /\ regs \in [Register -> 0 .. 255]
    /\ ptr \in Register
    /\ phase \in 0 .. 15
    /\ rdata \in Seq(0 .. 255)
=============================================================================
