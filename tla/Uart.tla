-------------------------------- MODULE Uart --------------------------------
(***************************************************************************)
(* firmware/uart.c: the polled UART0 driver, one register access a step,   *)
(* with the UART behind it.  The hardware is external: a transmit FIFO     *)
(* that drops what is written to it when full, divisors that take effect   *)
(* only with a write of LCRH, and a transmitter that moves one byte from   *)
(* the FIFO to the line while UART and transmitter are enabled.            *)
(***************************************************************************)
EXTENDS Integers, Sequences

CONSTANT FIFO_DEPTH     \* 16 on the LM3S6965

ASSUME UartAssumption == FIFO_DEPTH \in Nat \ {0}

UART_IBRD_115200 == 6
UART_FBRD_115200 == 33
UART_8N1 == {"WLEN_8", "FEN"}

VARIABLES
    upc,            \* the next register write of uart_init; "ready" after it
    clocked,        \* RCGC1: UART0 has its clock
    ctl,            \* CTL: the enable bits
    ibrd, fbrd,     \* the divisors as written
    format,         \* the divisors and line control the line runs with
    txfifo,         \* the bytes uart_putc wrote that are not yet on the line
    line            \* the last byte the line carried

settings == <<ibrd, fbrd, format>>
uartVars == <<upc, clocked, ctl, settings, txfifo, line>>

NoByte == [n |-> 0]
Undefined == -1

\* The registers as a reset of the chip leaves them.
UartInit ==
    /\ upc = "gate" /\ clocked = FALSE /\ ctl = {}
    /\ ibrd = 0 /\ fbrd = 0 /\ format = <<0, 0, {}>>
    /\ txfifo = <<>> /\ line = NoByte

ChipReset ==
    /\ upc' = "gate" /\ clocked' = FALSE /\ ctl' = {}
    /\ ibrd' = 0 /\ fbrd' = 0 /\ format' = <<0, 0, {}>>
    /\ txfifo' = <<>>
    /\ UNCHANGED line

\* A reset of the core alone leaves the UART running, with what is in its FIFO.
CoreReset == upc' = "gate" /\ UNCHANGED <<clocked, ctl, settings, txfifo, line>>

-----------------------------------------------------------------------------
(* uart_init, one register write after the other. *)

Then(here, next) == upc = here /\ upc' = next

\* What a settings register holds after a write: nothing defined without a
\* clock or while the UART is enabled.
Taken(value) == IF clocked /\ "UARTEN" \notin ctl THEN value ELSE Undefined

GateClock == Then("gate", "off") /\ clocked' = TRUE
             /\ UNCHANGED <<ctl, settings, txfifo, line>>

\* Mutant: the UART is reprogrammed as it is found.
Disable_Skipped == Then("off", "ibrd")
                   /\ UNCHANGED <<clocked, ctl, settings, txfifo, line>>

Disable == Then("off", "ibrd") /\ ctl' = {}
           /\ UNCHANGED <<clocked, settings, txfifo, line>>

Divisors ==
    \/ Then("ibrd", "fbrd") /\ ibrd' = Taken(UART_IBRD_115200)
       /\ UNCHANGED <<clocked, ctl, fbrd, format, txfifo, line>>
    \/ Then("fbrd", "lcrh") /\ fbrd' = Taken(UART_FBRD_115200)
       /\ UNCHANGED <<clocked, ctl, ibrd, format, txfifo, line>>

\* The write of LCRH makes the line run with the divisors as they are now.
LineControl == Then("lcrh", "on") /\ format' = <<ibrd, fbrd, Taken(UART_8N1)>>
               /\ UNCHANGED <<clocked, ctl, ibrd, fbrd, txfifo, line>>

\* Mutant: the transmitter is left off.
Enable_NoTxe == Then("on", "ready") /\ ctl' = {"UARTEN", "RXE"}
                /\ UNCHANGED <<clocked, settings, txfifo, line>>

Enable == Then("on", "ready") /\ ctl' = {"UARTEN", "TXE", "RXE"}
          /\ UNCHANGED <<clocked, settings, txfifo, line>>

uart_init == GateClock \/ Disable \/ Divisors \/ LineControl \/ Enable

-----------------------------------------------------------------------------
Full == Len(txfifo) = FIFO_DEPTH

\* A write of DR; what finds no room is lost.
WriteDR(byte) ==
    /\ txfifo' = IF Full THEN txfifo ELSE Append(txfifo, byte)
    /\ UNCHANGED <<upc, clocked, ctl, settings, line>>

\* Mutant: TXFF is not looked at.
uart_putc_NoWait(byte) == WriteDR(byte)

\* The loop on TXFF ends and the byte is written.  Nobody else writes DR, so
\* the room the poll has seen is still there.
uart_putc(byte) == ~Full /\ WriteDR(byte)

\* The transmitter.
Transmit ==
    /\ txfifo # <<>> /\ clocked /\ {"UARTEN", "TXE"} \subseteq ctl
    /\ line' = Head(txfifo) /\ txfifo' = Tail(txfifo)
    /\ UNCHANGED <<upc, clocked, ctl, settings>>

-----------------------------------------------------------------------------
UartTypeOK ==
    /\ upc \in {"gate", "off", "ibrd", "fbrd", "lcrh", "on", "ready"}
    /\ clocked \in BOOLEAN /\ ctl \subseteq {"UARTEN", "TXE", "RXE"}
    /\ {ibrd, fbrd} \subseteq Int
    /\ Len(txfifo) <= FIFO_DEPTH

(***************************************************************************)
(* uart.c:82-98: a byte only ever goes out at 115200 baud, 8N1 - the clock *)
(* was on and the UART off when the divisors were written, and LCRH was    *)
(* written after them - also when main is entered again while the UART is  *)
(* still running and sending what the last run left in it.                 *)
(***************************************************************************)
SetUpBeforeUse ==
    [][line' # line => format = <<UART_IBRD_115200, UART_FBRD_115200, UART_8N1>>]_uartVars
=============================================================================
