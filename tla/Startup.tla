------------------------------ MODULE Startup -------------------------------
(***************************************************************************)
(* firmware/startup.c: Reset_Handler's two loops over the sections that    *)
(* firmware/lm3s6965.ld lays out in RAM.  RAM is a row of words - both     *)
(* sections begin and end on a word - of which only the origin of the      *)
(* content matters.  A reset leaves RAM as it is, half-initialised or as   *)
(* main left it.                                                           *)
(***************************************************************************)
EXTENDS Integers

CONSTANTS
    RamWords,       \* the length of RAM
    Layouts         \* where _edata, _sbss and _ebss are

ASSUME LayoutAssumption ==
    /\ RamWords \in Nat
    /\ \A l \in Layouts :
          /\ {l.edata, l.sbss, l.ebss} \subseteq 0 .. RamWords
          /\ l.edata <= l.sbss /\ l.sbss <= l.ebss

Address == 0 .. RamWords - 1

Junk == -1          \* what no initialisation put there
Image(a) == a + 1   \* the word flash holds for address a of .data

VARIABLES
    layout,         \* the sections of this image; _sdata is 0
    ram,
    stage,          \* "copy", "zero", and "main" once main has been called
    dst             \* the address the loop is at (b in the second one)

bootVars == <<layout, ram, stage, dst>>

\* At power-on RAM holds anything.
StartupInit ==
    /\ layout \in Layouts
    /\ ram = [a \in Address |-> Junk]
    /\ stage = "copy" /\ dst = 0

\* dst < &_edata, b < &_ebss.
Before(end) == dst < end

\* Mutant: the second loop goes on where the first one ended.
CopyData_NoSbss ==
    /\ stage = "copy"
    /\ IF Before(layout.edata)
       THEN /\ ram' = [ram EXCEPT ![dst] = Image(dst)]
            /\ dst' = dst + 1 /\ UNCHANGED stage
       ELSE stage' = "zero" /\ UNCHANGED <<ram, dst>>
    /\ UNCHANGED layout

\* One turn of the loop that copies .data, or its end.
CopyData ==
    /\ stage = "copy"
    /\ IF Before(layout.edata)
       THEN /\ ram' = [ram EXCEPT ![dst] = Image(dst)]
            /\ dst' = dst + 1 /\ UNCHANGED stage
       ELSE stage' = "zero" /\ dst' = layout.sbss /\ UNCHANGED ram
    /\ UNCHANGED layout

\* One turn of the loop that clears .bss, or the call of main.
ZeroBss ==
    /\ stage = "zero"
    /\ IF Before(layout.ebss)
       THEN /\ ram' = [ram EXCEPT ![dst] = 0]
            /\ dst' = dst + 1 /\ UNCHANGED stage
       ELSE stage' = "main" /\ UNCHANGED <<ram, dst>>
    /\ UNCHANGED layout

Reset_Handler == CopyData \/ ZeroBss

InSections(a) == a < layout.edata \/ a \in layout.sbss .. layout.ebss - 1

\* main changes its variables, which are in the two sections.
MainWrites ==
    /\ stage = "main"
    /\ ram' = [a \in Address |-> IF InSections(a) THEN Junk ELSE ram[a]]
    /\ UNCHANGED <<layout, stage, dst>>

\* A reset, at any point.
Restart == stage' = "copy" /\ dst' = 0 /\ UNCHANGED <<layout, ram>>

-----------------------------------------------------------------------------
StartupTypeOK ==
    /\ layout \in Layouts
    /\ ram \in [Address -> Int]
    /\ stage \in {"copy", "zero", "main"}
    /\ dst \in 0 .. layout.ebss

\* What a C program may rely on, and nothing else touched: the rest of RAM
\* is the stack, or a gap of alignment.
Initialised ==
    \A a \in Address :
        ram[a] = IF a < layout.edata THEN Image(a)
                 ELSE IF InSections(a) THEN 0 ELSE Junk
=============================================================================
