----------------------------- MODULE Interrupts -----------------------------
(***************************************************************************)
(* Interrupts and resets: the host calls clemens_emulate_cpu (emulator.c)  *)
(* and clemens_emulate_mmio (emulator_mmio.c) in turn, once for every      *)
(* instruction.  The first executes the instruction, enters the interrupt  *)
(* handler or goes through a reset; the second lets time pass for the      *)
(* devices and decides what the next call of the first will do.            *)
(*                                                                         *)
(* Time is counted in scanlines; clocks_spent, which a reset sets to zero, *)
(* and mega2_cycles, which it does not, are kept modulo ClockWidth because *)
(* only their difference, a uint32_t, is used.  Of the processor there are *)
(* its state, its pins and the I flag; which instruction comes next is the *)
(* choice of the guest.  No card of the repository raises NMI.             *)
(***************************************************************************)
EXTENDS Integers

CONSTANTS
    ScanlineCount, VblLowerBound,  \* the lines of a frame, the first of its blank
    VisibleLines,                  \* the lines with a control byte that may ask for an interrupt
    Per60th, QtrSec, OneSec,       \* the periods of the timers
    ClockWidth,                    \* 2^32
    Durations,                     \* how many scanlines may end during an instruction
    OtherSources                   \* ADB, SCC, DOC and the slots, whose lines come and go

ASSUME FrameAssumption ==
    /\ ScanlineCount \in Nat /\ VblLowerBound \in 1 .. ScanlineCount - 1
    /\ Durations \subseteq 0 .. VblLowerBound
    /\ ScanlineCount <= ClockWidth
ASSUME TimerAssumption ==
    /\ Per60th \in Nat \ {0} /\ QtrSec \in Nat \ {0} /\ OneSec \in Nat \ {0}
    /\ ClockWidth \in Nat /\ Per60th + VblLowerBound <= ClockWidth
ASSUME SourcesAssumption ==
    OtherSources \intersect {"SCAN_LINE", "BLANK", "QSEC", "RTC_1SEC"} = {}

VARIABLES
    turn,              \* which of the two calls comes next
    state_type, readyOut, enabled, irqDisable,
    resbIn, resb_counter,
    clocks_spent,
    mmio_state, mega2_cycles, timer_60hz_us,
    irq_line,          \* mmio.irq_line, all lines as of the last sync
    reset_key,
    irq_1sec_us, irq_qtrsec_us, timer_flags, timer_line,
    v_counter, vbl_started, vgc_flags, irq_vbl, vgc_line,
    survived           \* history: timer lines that were asserted through a reset

cpuVars == <<state_type, readyOut, enabled, irqDisable>>
resetVars == <<resbIn, resb_counter>>
glueVars == <<mmio_state, mega2_cycles, timer_60hz_us>>
countVars == <<irq_1sec_us, irq_qtrsec_us>>
beamVars == <<v_counter, vbl_started>>
sourceVars == <<irq_line, timer_flags, timer_line, vgc_flags, irq_vbl, vgc_line, survived>>
vars == <<turn, cpuVars, resetVars, clocks_spent, glueVars, reset_key, countVars, beamVars,
          sourceVars>>

VgcSources == {"SCAN_LINE", "BLANK"}
TimerSources == {"QSEC", "RTC_1SEC"}
TimerFlags == {"1SEC_ENABLED", "QSEC_ENABLED", "QSEC_IRQ"}
VgcFlags == {"INIT", "SUPER_HIRES", "ENABLE_VBL_IRQ", "SCANLINE_IRQ"}

TypeOK ==
    /\ turn \in {"cpu", "mmio"}
    /\ state_type \in {"None", "Reset", "Execute", "IRQ"}
    /\ readyOut \in BOOLEAN /\ enabled \in BOOLEAN /\ irqDisable \in BOOLEAN
    /\ resbIn \in BOOLEAN /\ resb_counter \in 0 .. 3
    /\ clocks_spent \in 0 .. ClockWidth - 1
    /\ mmio_state \in {"None", "Reset", "Active"}
    /\ mega2_cycles \in 0 .. ClockWidth - 1 /\ timer_60hz_us \in 0 .. Per60th - 1
    /\ irq_line \subseteq VgcSources \union TimerSources \union OtherSources
    /\ reset_key \in BOOLEAN
    /\ irq_1sec_us \in 0 .. OneSec - 1 /\ irq_qtrsec_us \in 0 .. QtrSec - 1
    /\ timer_flags \subseteq TimerFlags /\ timer_line \subseteq TimerSources
    /\ v_counter \in 0 .. ScanlineCount - 1 /\ vbl_started \in BOOLEAN
    /\ vgc_flags \subseteq VgcFlags /\ irq_vbl \in BOOLEAN /\ vgc_line \subseteq VgcSources
    /\ survived \subseteq TimerSources

Init ==   \* after clemens_init, clem_mmio_init and the reset of power-on
    /\ turn = "cpu" /\ state_type = "None"
    /\ readyOut = FALSE /\ enabled = FALSE /\ irqDisable = FALSE
    /\ resbIn = FALSE /\ resb_counter = 3
    /\ clocks_spent = 0 /\ mega2_cycles = 0 /\ timer_60hz_us = 0
    /\ mmio_state = "None" /\ irq_line = {} /\ reset_key = FALSE
    /\ irq_1sec_us = 0 /\ irq_qtrsec_us = 0 /\ timer_flags = {} /\ timer_line = {}
    /\ v_counter = 0 /\ vbl_started = FALSE
    /\ vgc_flags = {"INIT"} /\ irq_vbl = FALSE /\ vgc_line = {}
    /\ survived = {}

-----------------------------------------------------------------------------
(* clemens_emulate_cpu                                                     *)

Spend(d) ==
    /\ clocks_spent' = (clocks_spent + d) % ClockWidth
    /\ turn' = "mmio"

ResetLow ==     \* as long as RESB is low
    /\ turn = "cpu" /\ ~resbIn
    /\ state_type' = "Reset"
    /\ IF state_type # "Reset"
       THEN readyOut' = TRUE /\ enabled' = TRUE /\ irqDisable' = TRUE
       ELSE UNCHANGED <<readyOut, enabled, irqDisable>>
    /\ resb_counter' = IF resb_counter > 0 THEN resb_counter - 1 ELSE 0
    /\ resbIn' = (resb_counter = 1)
    /\ clocks_spent' = 0
    /\ turn' = "mmio"
    /\ UNCHANGED <<glueVars, reset_key, countVars, beamVars, sourceVars>>

Runs == turn = "cpu" /\ resbIn /\ enabled

Stopped ==      \* after STP time stands still
    /\ turn = "cpu" /\ resbIn /\ ~enabled
    /\ turn' = "mmio"
    /\ UNCHANGED <<cpuVars, resetVars, clocks_spent, glueVars, reset_key, countVars, beamVars,
                   sourceVars>>

PullResetVector(d) ==
    /\ Runs /\ state_type = "Reset"
    /\ state_type' = "Execute"
    /\ Spend(d)
    /\ UNCHANGED <<readyOut, enabled, irqDisable, resetVars, glueVars, reset_key, countVars,
                   beamVars, sourceVars>>

EnterHandler(d) ==
    /\ Runs /\ state_type = "IRQ"
    /\ state_type' = "Execute" /\ readyOut' = TRUE /\ irqDisable' = TRUE
    /\ Spend(d)
    /\ UNCHANGED <<enabled, resetVars, glueVars, reset_key, countVars, beamVars, sourceVars>>

(* Mutant of Wait: takes no time. *)
WaitNoTime(d) ==
    /\ Runs /\ state_type = "Execute" /\ ~readyOut
    /\ Spend(0)
    /\ UNCHANGED <<cpuVars, resetVars, glueVars, reset_key, countVars, beamVars, sourceVars>>

Wait(d) ==      \* a cycle of WAI
    /\ Runs /\ state_type = "Execute" /\ ~readyOut
    /\ Spend(d)
    /\ UNCHANGED <<cpuVars, resetVars, glueVars, reset_key, countVars, beamVars, sourceVars>>

(* cpu_execute, by what the instruction means for interrupts.              *)
Executes(d) ==
    /\ Runs /\ state_type = "Execute" /\ readyOut
    /\ Spend(d)
    /\ UNCHANGED <<state_type, resetVars, glueVars, reset_key, countVars, beamVars>>

SetIrqDisable(on, d) ==   \* SEI, CLI, REP, SEP, PLP, RTI, BRK, COP; or on as it was: any other
    /\ Executes(d)
    /\ irqDisable' = on
    /\ UNCHANGED <<readyOut, enabled, sourceVars>>

WAI(d) ==
    /\ Executes(d)
    /\ readyOut' = FALSE
    /\ UNCHANGED <<enabled, irqDisable, sourceVars>>

STP(d) ==
    /\ Executes(d)
    /\ enabled' = FALSE
    /\ UNCHANGED <<readyOut, irqDisable, sourceVars>>

Switch(set, flag, on) == IF on THEN set \union {flag} ELSE set \ {flag}
Unless(on, source) == IF on THEN {} ELSE {source}

(* Mutant of ClearIrq: leaves the line of the timer. *)
ClearIrqVgcOnly(sources, scanOff) ==
    /\ irq_line' = irq_line \ sources
    /\ timer_line' = timer_line
    /\ vgc_line' = vgc_line \ (sources \union scanOff)
    /\ survived' = survived \ sources

(* _clem_mmio_clear_irq; scanOff is what clem_vgc clears by itself.        *)
ClearIrq(sources, scanOff) ==
    /\ irq_line' = irq_line \ sources
    /\ timer_line' = timer_line \ sources
    /\ vgc_line' = vgc_line \ (sources \union scanOff)
    /\ survived' = survived \ sources

SetInten(quarter, vbl, d) ==     \* C041
    /\ Executes(d)
    /\ timer_flags' = Switch(timer_flags, "QSEC_ENABLED", quarter)
    /\ vgc_flags' = Switch(vgc_flags, "ENABLE_VBL_IRQ", vbl)
    /\ ClearIrq(Unless(quarter, "QSEC") \union Unless(vbl, "BLANK"), {})
    /\ UNCHANGED <<readyOut, enabled, irqDisable, irq_vbl>>

SetVgcIrq(second, scan, d) ==    \* C023
    /\ Executes(d)
    /\ timer_flags' = Switch(timer_flags, "1SEC_ENABLED", second)
    /\ vgc_flags' = Switch(vgc_flags, "SCANLINE_IRQ", scan)
    /\ ClearIrq(Unless(second, "RTC_1SEC"), Unless(scan, "SCAN_LINE"))
    /\ UNCHANGED <<readyOut, enabled, irqDisable, irq_vbl>>

ClearScanInt(second, scan, d) == \* C032
    /\ Executes(d)
    /\ ClearIrq(Unless(second, "RTC_1SEC"), Unless(scan, "SCAN_LINE"))
    /\ UNCHANGED <<readyOut, enabled, irqDisable, timer_flags, vgc_flags, irq_vbl>>

ClrVblInt(d) ==                  \* C047
    /\ Executes(d)
    /\ irq_vbl' = FALSE
    /\ timer_flags' = timer_flags \ {"QSEC_IRQ"}
    /\ ClearIrq({"QSEC", "BLANK"}, {})
    /\ UNCHANGED <<readyOut, enabled, irqDisable, vgc_flags>>

NewVideo(superHires, d) ==       \* C029
    /\ Executes(d)
    /\ vgc_flags' = Switch(vgc_flags, "SUPER_HIRES", superHires)
    /\ UNCHANGED <<readyOut, enabled, irqDisable, irq_line, timer_flags, timer_line, irq_vbl,
                   vgc_line, survived>>

Instruction(d) ==
    \/ \E on \in BOOLEAN : SetIrqDisable(on, d) \/ NewVideo(on, d)
    \/ \E a, b \in BOOLEAN : SetInten(a, b, d) \/ SetVgcIrq(a, b, d) \/ ClearScanInt(a, b, d)
    \/ ClrVblInt(d) \/ WAI(d) \/ STP(d)

Cpu(d) == PullResetVector(d) \/ EnterHandler(d) \/ Wait(d) \/ Instruction(d)

-----------------------------------------------------------------------------
(* clemens_emulate_mmio                                                    *)

MmioHeld ==
    /\ turn = "mmio" /\ ~resbIn
    /\ mmio_state' = "Reset"
    /\ turn' = "cpu"
    /\ UNCHANGED <<cpuVars, resetVars, clocks_spent, mega2_cycles, timer_60hz_us, reset_key,
                   countVars, beamVars, sourceVars>>

(* Mutant of AdbReset: the key stays down. *)
AdbResetKeyDown == UNCHANGED reset_key

AdbReset == reset_key' = FALSE    \* of clem_adb_reset

DevicesReset ==      \* clem_mmio_reset: clem_timer_reset clears the flags only
    /\ turn = "mmio" /\ resbIn /\ mmio_state = "Reset"
    /\ mmio_state' = "Active"
    /\ timer_flags' = {} /\ survived' = timer_line
    /\ vgc_flags' = {"INIT"} /\ irq_vbl' = FALSE /\ vgc_line' = {}
    /\ AdbReset
    /\ turn' = "cpu"
    /\ UNCHANGED <<cpuVars, resetVars, clocks_spent, mega2_cycles, timer_60hz_us, countVars,
                   beamVars, irq_line, timer_line>>

Elapsed == (ClockWidth + clocks_spent - mega2_cycles) % ClockWidth

(* The 60 Hz loop: clem_timer_sync and the reset key, once for each round.  *)
Rounds == ((timer_60hz_us + Elapsed) % ClockWidth) \div Per60th

TimerSync ==
    LET second == irq_1sec_us + Rounds * Per60th
        quarter == irq_qtrsec_us + Rounds * Per60th
        ends1 == second >= OneSec /\ "1SEC_ENABLED" \in timer_flags
        endsQ == quarter >= QtrSec /\ "QSEC_ENABLED" \in timer_flags
    IN /\ mega2_cycles' = clocks_spent
       /\ timer_60hz_us' = ((timer_60hz_us + Elapsed) % ClockWidth) % Per60th
       /\ irq_1sec_us' = second % OneSec
       /\ irq_qtrsec_us' = quarter % QtrSec
       /\ timer_line' = timer_line \union (IF ends1 THEN {"RTC_1SEC"} ELSE {})
                                   \union (IF endsQ THEN {"QSEC"} ELSE {})
       /\ timer_flags' = IF endsQ THEN timer_flags \union {"QSEC_IRQ"} ELSE timer_flags

ResetRequested == Rounds > 0 /\ resb_counter = 0 /\ reset_key

(* Mutant of ResetKeySync: a single step with RESB low. *)
ResetKeyGlitch ==
    /\ resb_counter' = IF ResetRequested THEN 1 ELSE resb_counter
    /\ resbIn' = ~ResetRequested

ResetKeySync ==
    /\ resb_counter' = IF ResetRequested THEN 2 ELSE resb_counter
    /\ resbIn' = ~ResetRequested

(* clem_vgc_sync.  Its own clock is the one of the last sync, unless a     *)
(* reset came in between, and then INIT makes it forget the time.  control *)
(* tells whether one of the lines that ended asks for an interrupt.        *)
(* Mutant of BlankStarts: as often as the beam is seen in the blank. *)
BlankGoesOn == v_counter + Elapsed >= VblLowerBound

NextLine(line) == IF line >= ScanlineCount THEN line - ScanlineCount ELSE line
BlankStarts == v_counter + Elapsed >= VblLowerBound /\ ~vbl_started

VgcSync(control) ==
    LET line == v_counter + Elapsed
        visible == \E l \in VisibleLines : v_counter <= l /\ l < line
        scan == visible /\ control /\ {"SCANLINE_IRQ", "SUPER_HIRES"} \subseteq vgc_flags
        blank == BlankStarts /\ "ENABLE_VBL_IRQ" \in vgc_flags
        wraps == line >= ScanlineCount
    IN IF "INIT" \in vgc_flags
       THEN /\ vgc_flags' = vgc_flags \ {"INIT"}
            /\ UNCHANGED <<beamVars, irq_vbl, vgc_line>>
       ELSE /\ vgc_line' = vgc_line \union (IF scan THEN {"SCAN_LINE"} ELSE {})
                                    \union (IF blank THEN {"BLANK"} ELSE {})
            /\ irq_vbl' = (irq_vbl \/ blank)
            /\ v_counter' = NextLine(line)
            /\ vbl_started' = (~wraps /\ (vbl_started \/ BlankStarts))
            /\ UNCHANGED vgc_flags

MmioSync ==
    /\ turn = "mmio" /\ resbIn /\ mmio_state = "Active"
    /\ \E control \in BOOLEAN : VgcSync(control)
    /\ TimerSync
    /\ ResetKeySync
    /\ \E others \in SUBSET OtherSources : irq_line' = timer_line' \union vgc_line' \union others
    /\ state_type' = IF irq_line' # {} /\ state_type = "Execute" /\ ~irqDisable
                     THEN "IRQ" ELSE state_type
    /\ turn' = "cpu"
    /\ UNCHANGED <<readyOut, enabled, irqDisable, clocks_spent, mmio_state, reset_key, survived>>

-----------------------------------------------------------------------------
(* Between two steps: a reset by the host; the reset key, or the guest's   *)
(* SYSTEM RESET command to the ADB controller, which does the same.        *)
HostReset ==
    /\ turn = "cpu"
    /\ resbIn' = FALSE /\ resb_counter' = 3
    /\ UNCHANGED <<turn, cpuVars, clocks_spent, glueVars, reset_key, countVars, beamVars,
                   sourceVars>>

PressReset ==
    /\ turn = "cpu"
    /\ reset_key' = TRUE
    /\ UNCHANGED <<turn, cpuVars, resetVars, clocks_spent, glueVars, countVars, beamVars,
                   sourceVars>>

Steps == ResetLow \/ Stopped \/ (\E d \in Durations : Cpu(d)) \/ MmioHeld \/ DevicesReset \/ MmioSync

Next == Steps \/ HostReset \/ PressReset

Spec == Init /\ [][Next]_vars

(* The host keeps stepping the machine, and every step takes time: a line  *)
(* has 65 cycles and even a cycle of WAI is one of them.                   *)
FairSpec ==
    /\ Spec
    /\ WF_vars(Steps)
    /\ SF_vars(\E d \in Durations \ {0} : Cpu(d))

-----------------------------------------------------------------------------
(* What a handler can find out about a source: C046, C023, or the registers *)
(* of the other devices.                                                   *)
Visible ==
    (IF "QSEC_IRQ" \in timer_flags THEN {"QSEC"} ELSE {})
    \union (IF irq_vbl THEN {"BLANK"} ELSE {})
    \union (irq_line \intersect ({"SCAN_LINE", "RTC_1SEC"} \union OtherSources))

EnabledSources ==
    OtherSources
    \union (IF "QSEC_ENABLED" \in timer_flags THEN {"QSEC"} ELSE {})
    \union (IF "1SEC_ENABLED" \in timer_flags THEN {"RTC_1SEC"} ELSE {})
    \union (IF "ENABLE_VBL_IRQ" \in vgc_flags THEN {"BLANK"} ELSE {})
    \union (IF "SCANLINE_IRQ" \in vgc_flags THEN {"SCAN_LINE"} ELSE {})

AboutToHandle == Runs /\ state_type = "IRQ"

(* When the processor enters the interrupt handler, which the devices      *)
(* decided one step earlier, the line is still asserted, and every source  *)
(* of it is enabled and can be told from the status registers: no write to *)
(* C041, C023, C032 or C047 leaves a line without its flag.  Excepted are  *)
(* lines of the timer that a reset left asserted (clem_timer.c:4).         *)
HandlerHasCause ==
    AboutToHandle =>
        /\ irq_line # {}
        /\ irq_line \ survived \subseteq Visible \intersect EnabledSources

(* The vertical blank interrupt is raised when the beam enters the blank,  *)
(* once in a frame, whatever the length of the instructions, and it is not *)
(* missed if it is enabled by then (clem_vgc.c:232-243).                   *)
VblAtTheBlank ==
    [][MmioSync /\ "INIT" \notin vgc_flags =>
          LET enters == v_counter < VblLowerBound /\ v_counter + Elapsed >= VblLowerBound
          IN /\ "BLANK" \in vgc_line' \ vgc_line => enters
             /\ enters /\ "ENABLE_VBL_IRQ" \in vgc_flags => irq_vbl' /\ "BLANK" \in vgc_line' ]_vars

(* The processor fetches the reset vector, through the memory map, only    *)
(* after the devices went through their reset, however the reset began and *)
(* whatever the machine was doing: two processors' steps with RESB low are *)
(* what emulate_mmio needs to notice (emulator_mmio.c:474, 574).           *)
ResetReachesDevices ==
    Runs /\ state_type = "Reset" =>
        mmio_state = "Active" /\ vgc_flags = {"INIT"} /\ timer_flags = {} /\ vgc_line = {}

(* The reset key does not reset the machine for ever: if nobody asks for   *)
(* resets any more, RESB goes up and stays there (emulator_mmio.c:572).    *)
NoResetLoop == <>[][~HostReset /\ ~PressReset]_vars => <>[]resbIn

(* A guest that waits with interrupts allowed and that of the vertical     *)
(* blank enabled goes on: time passes while it waits, and in every frame   *)
(* there is a blank (clem_cycle.h:57).                                     *)
WaitingGuestWakes ==
    (Runs /\ state_type = "Execute" /\ ~readyOut /\ ~irqDisable /\ "ENABLE_VBL_IRQ" \in vgc_flags)
        ~> readyOut
=============================================================================
