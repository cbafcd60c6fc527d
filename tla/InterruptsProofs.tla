-------------------------- MODULE InterruptsProofs --------------------------
(***************************************************************************)
(* The safety of interrupts and resets, for every frame, every period of   *)
(* the timers, every width of the clocks and all lengths of instructions   *)
(* that do not jump over the blank.                                        *)
(***************************************************************************)
EXTENDS Interrupts, TLAPS

USE FrameAssumption, TimerAssumption

(* A line is asserted as long as its flags say so; the handler is only     *)
(* entered for lines that are.                                             *)
LinesInv ==
    /\ "QSEC" \in timer_line \ survived => {"QSEC_ENABLED", "QSEC_IRQ"} \subseteq timer_flags
    /\ "RTC_1SEC" \in timer_line \ survived => "1SEC_ENABLED" \in timer_flags
    /\ "BLANK" \in vgc_line => "ENABLE_VBL_IRQ" \in vgc_flags /\ irq_vbl
    /\ "SCAN_LINE" \in vgc_line => "SCANLINE_IRQ" \in vgc_flags

HandlerInv ==
    /\ AboutToHandle =>
        irq_line # {} /\ irq_line \subseteq timer_line \union vgc_line \union OtherSources
    /\ turn = "mmio" /\ state_type = "IRQ" => ~enabled

(* How far a reset has come.                                               *)
ResetInv ==
    /\ resbIn <=> resb_counter = 0
    /\ mmio_state = "None" => ~resbIn
    /\ state_type = "None" => ~resbIn
    /\ turn = "cpu" /\ resb_counter = 1 => mmio_state = "Reset" /\ state_type = "Reset"
    /\ turn = "mmio" /\ ~resbIn => state_type = "Reset"
    /\ turn = "cpu" /\ resbIn => mmio_state = "Active"
    /\ turn = "mmio" /\ resbIn => (mmio_state = "Reset" <=> state_type = "Reset")
    /\ state_type = "Reset" => enabled

ResetDoneInv ==
    turn = "cpu" /\ resbIn /\ state_type = "Reset" =>
        vgc_flags = {"INIT"} /\ timer_flags = {} /\ vgc_line = {}

(* Both clocks agree when the devices have been synchronised.              *)
ClockInv ==
    mmio_state = "Active" /\ resbIn /\ "INIT" \notin vgc_flags =>
        \E d \in Durations \union {0} :
            /\ clocks_spent = (mega2_cycles + d) % ClockWidth
            /\ turn = "cpu" => d = 0

BlankInv == vbl_started <=> v_counter >= VblLowerBound

IInv == TypeOK /\ LinesInv /\ HandlerInv /\ ResetInv /\ ResetDoneInv /\ ClockInv /\ BlankInv

-----------------------------------------------------------------------------
(* What every instruction does.                                            *)
LEMMA InstructionExecutes ==
    ASSUME NEW d \in Durations, Instruction(d)
    PROVE  /\ Executes(d)
           /\ "INIT" \in vgc_flags <=> "INIT" \in vgc_flags'
<1>1. CASE \E on \in BOOLEAN : SetIrqDisable(on, d)
  BY <1>1 DEF SetIrqDisable, sourceVars
<1>2. CASE \E on \in BOOLEAN : NewVideo(on, d)
  BY <1>2 DEF NewVideo, Switch
<1>3. CASE \E a, b \in BOOLEAN : SetInten(a, b, d)
  BY <1>3 DEF SetInten, Switch
<1>4. CASE \E a, b \in BOOLEAN : SetVgcIrq(a, b, d)
  BY <1>4 DEF SetVgcIrq, Switch
<1>5. CASE \E a, b \in BOOLEAN : ClearScanInt(a, b, d)
  BY <1>5 DEF ClearScanInt
<1>6. CASE ClrVblInt(d)
  BY <1>6 DEF ClrVblInt
<1>7. CASE WAI(d)
  BY <1>7 DEF WAI, sourceVars
<1>8. CASE STP(d)
  BY <1>8 DEF STP, sourceVars
<1> QED
  BY <1>1, <1>2, <1>3, <1>4, <1>5, <1>6, <1>7, <1>8 DEF Instruction

(* The clocks, and what remains of the periods.                            *)
LEMMA Remainder ==
    ASSUME NEW a \in Int, NEW n \in Nat \ {0}
    PROVE  a % n \in 0 .. n - 1 /\ a \div n \in Int
OBVIOUS

(* Elapsed and Rounds are numbers of the right range.                      *)
LEMMA ElapsedType ==
    ASSUME TypeOK
    PROVE  Elapsed \in 0 .. ClockWidth - 1 /\ Rounds \in Int
<1>1. Elapsed \in 0 .. ClockWidth - 1
  BY Remainder DEF Elapsed, TypeOK
<1> QED
  BY <1>1, Remainder DEF Rounds, TypeOK

(* The time that passed is the duration of the instruction.                *)
LEMMA ElapsedIs ==
    ASSUME TypeOK, NEW d \in 0 .. ClockWidth - 1, clocks_spent = (mega2_cycles + d) % ClockWidth
    PROVE  Elapsed = d
<1>1. CASE mega2_cycles + d < ClockWidth
  <2>1. clocks_spent = mega2_cycles + d
    BY <1>1 DEF TypeOK
  <2>2. Elapsed = (ClockWidth + d) % ClockWidth
    BY <2>1 DEF Elapsed, TypeOK
  <2> QED
    BY <2>2
<1>2. CASE mega2_cycles + d >= ClockWidth
  <2>1. clocks_spent = mega2_cycles + d - ClockWidth
    BY <1>2 DEF TypeOK
  <2>2. Elapsed = d % ClockWidth
    BY <2>1 DEF Elapsed, TypeOK
  <2> QED
    BY <2>2
<1> QED
  BY <1>1, <1>2 DEF TypeOK

(* The beam never jumps over the whole blank.                              *)
LEMMA Blank ==
    ASSUME TypeOK, ClockInv, resbIn, mmio_state = "Active", "INIT" \notin vgc_flags
    PROVE  Elapsed \in 0 .. VblLowerBound
<1>1. PICK d \in Durations \union {0} : clocks_spent = (mega2_cycles + d) % ClockWidth
  BY DEF ClockInv
<1>2. d \in 0 .. VblLowerBound /\ d \in 0 .. ClockWidth - 1
  OBVIOUS
<1> QED
  BY <1>1, <1>2, ElapsedIs

(* The flag of the vertical blank interrupt, once the beam is known.       *)
LEMMA BlankBit ==
    ASSUME NEW control, VgcSync(control), "INIT" \notin vgc_flags
    PROVE  irq_vbl' <=> irq_vbl \/ (BlankStarts /\ "ENABLE_VBL_IRQ" \in vgc_flags)
BY Zenon DEF VgcSync

-----------------------------------------------------------------------------
(* The invariant holds after power-on.                                     *)
LEMMA InitInv == Init => IInv
<1> SUFFICES ASSUME Init PROVE IInv
  OBVIOUS
<1>1. /\ 0 \in 0 .. ClockWidth - 1 /\ 0 \in 0 .. Per60th - 1 /\ 0 \in 0 .. OneSec - 1
      /\ 0 \in 0 .. QtrSec - 1 /\ 0 \in 0 .. ScanlineCount - 1
  OBVIOUS
<1>2. resb_counter \in 0 .. 3
  BY DEF Init
<1>3. TypeOK
  BY <1>1, <1>2, Zenon DEF Init, TypeOK, VgcFlags
<1> QED
  BY <1>3 DEF Init, IInv, LinesInv, HandlerInv, AboutToHandle, Runs, ResetInv, ResetDoneInv,
     ClockInv, BlankInv

-----------------------------------------------------------------------------
(* The steps, one invariant after the other; here: the ranges.             *)
LEMMA TypeStep == TypeOK /\ ClockInv /\ Next => TypeOK'
<1> SUFFICES ASSUME TypeOK, ClockInv, Next PROVE TypeOK'
  OBVIOUS
<1> USE DEF TypeOK
<1>r. \A d \in Durations : (clocks_spent + d) % ClockWidth \in 0 .. ClockWidth - 1
  BY Remainder
<1>1. CASE ResetLow
  <2>1. clocks_spent' \in 0 .. ClockWidth - 1 /\ resb_counter' \in 0 .. 3
    BY <1>1 DEF ResetLow
  <2>2. readyOut' \in BOOLEAN /\ enabled' \in BOOLEAN /\ irqDisable' \in BOOLEAN /\ resbIn' \in BOOLEAN
    BY <1>1, Zenon DEF ResetLow
  <2> QED
    BY <1>1, <2>1, <2>2 DEF ResetLow, glueVars, countVars, beamVars, sourceVars
<1>2. CASE Stopped
  BY <1>2 DEF Stopped, cpuVars, resetVars, glueVars, countVars, beamVars, sourceVars
<1>3. ASSUME NEW d \in Durations, PullResetVector(d) PROVE TypeOK'
  BY <1>3, <1>r DEF PullResetVector, Spend, resetVars, glueVars, countVars, beamVars, sourceVars
<1>4. ASSUME NEW d \in Durations, EnterHandler(d) PROVE TypeOK'
  BY <1>4, <1>r DEF EnterHandler, Spend, resetVars, glueVars, countVars, beamVars, sourceVars
<1>5. ASSUME NEW d \in Durations, Wait(d) PROVE TypeOK'
  BY <1>5, <1>r DEF Wait, Spend, cpuVars, resetVars, glueVars, countVars, beamVars, sourceVars
<1>6. ASSUME NEW d \in Durations, Instruction(d) PROVE TypeOK'
  <2> USE DEF Executes, Spend, resetVars, glueVars, countVars, beamVars, sourceVars, TimerFlags, VgcFlags, Switch
  <2>1. CASE \E on \in BOOLEAN : SetIrqDisable(on, d)
    BY <2>1, <1>r DEF SetIrqDisable
  <2>2. CASE \E on \in BOOLEAN : NewVideo(on, d)
    BY <2>2, <1>r DEF NewVideo
  <2>3. CASE \E a, b \in BOOLEAN : SetInten(a, b, d)
    BY <2>3, <1>r DEF SetInten, ClearIrq
  <2>4. CASE \E a, b \in BOOLEAN : SetVgcIrq(a, b, d)
    BY <2>4, <1>r DEF SetVgcIrq, ClearIrq
  <2>5. CASE \E a, b \in BOOLEAN : ClearScanInt(a, b, d)
    BY <2>5, <1>r DEF ClearScanInt, ClearIrq
  <2>6. CASE ClrVblInt(d)
    BY <2>6, <1>r DEF ClrVblInt, ClearIrq
  <2>7. CASE WAI(d)
    BY <2>7, <1>r DEF WAI
  <2>8. CASE STP(d)
    BY <2>8, <1>r DEF STP
  <2> QED
    BY <1>6, <2>1, <2>2, <2>3, <2>4, <2>5, <2>6, <2>7, <2>8 DEF Instruction
<1>7. CASE MmioHeld
  BY <1>7 DEF MmioHeld, cpuVars, resetVars, countVars, beamVars, sourceVars
<1>8. CASE DevicesReset
  BY <1>8 DEF DevicesReset, AdbReset, cpuVars, resetVars, countVars, beamVars, VgcFlags, TimerFlags
<1>9. CASE MmioSync
  <2>1. PICK control \in BOOLEAN : VgcSync(control)
    BY <1>9 DEF MmioSync
  <2>2. Elapsed \in 0 .. ClockWidth - 1 /\ Rounds \in Int
    BY ElapsedType
  <2>3. /\ timer_60hz_us' \in 0 .. Per60th - 1 /\ irq_1sec_us' \in 0 .. OneSec - 1
        /\ irq_qtrsec_us' \in 0 .. QtrSec - 1 /\ mega2_cycles' \in 0 .. ClockWidth - 1
    <3>1. Rounds * Per60th \in Int
      BY <2>2
    <3> QED
      BY <1>9, <2>2, <3>1, Remainder DEF MmioSync, TimerSync
  <2>4. timer_flags' \subseteq TimerFlags /\ timer_line' \subseteq TimerSources
    BY <1>9 DEF MmioSync, TimerSync, TimerFlags, TimerSources
  <2>5. vgc_flags' \subseteq VgcFlags /\ vgc_line' \subseteq VgcSources /\ irq_vbl' \in BOOLEAN
    BY <2>1 DEF VgcSync, VgcSources
  <2>6. v_counter' \in 0 .. ScanlineCount - 1 /\ vbl_started' \in BOOLEAN
    <3>1. CASE "INIT" \in vgc_flags
      BY <2>1, <3>1 DEF VgcSync, beamVars
    <3>2. CASE "INIT" \notin vgc_flags
      <4>1. Elapsed \in 0 .. VblLowerBound
        BY <1>9, <3>2, Blank DEF MmioSync
      <4> QED
        BY <2>1, <3>2, <4>1 DEF VgcSync, NextLine
    <3> QED
      BY <3>1, <3>2
  <2>7. resb_counter' \in 0 .. 3 /\ resbIn' \in BOOLEAN
    BY <1>9 DEF MmioSync, ResetKeySync
  <2>8. irq_line' \subseteq VgcSources \union TimerSources \union OtherSources
    BY <1>9, <2>4, <2>5 DEF MmioSync
  <2> QED
    <3>1. turn' \in {"cpu", "mmio"} /\ state_type' \in {"None", "Reset", "Execute", "IRQ"}
      BY <1>9, Zenon DEF MmioSync
    <3> QED
      BY <1>9, <2>3, <2>4, <2>5, <2>6, <2>7, <2>8, <3>1, Zenon DEF MmioSync
<1>10. CASE HostReset
  <2>1. resb_counter' \in 0 .. 3
    BY <1>10 DEF HostReset
  <2>2. resbIn' \in BOOLEAN
    BY <1>10, Zenon DEF HostReset
  <2> QED
    BY <1>10, <2>1, <2>2, Zenon DEF HostReset, cpuVars, glueVars, countVars, beamVars, sourceVars
<1>11. CASE PressReset
  BY <1>11 DEF PressReset, cpuVars, resetVars, glueVars, countVars, beamVars, sourceVars
<1> QED
  BY <1>1, <1>2, <1>3, <1>4, <1>5, <1>6, <1>7, <1>8, <1>9, <1>10, <1>11 DEF Next, Steps, Cpu

(* No write to a register leaves a line asserted without its flags.        *)
LEMMA LinesStep == IInv /\ Next => LinesInv'
<1> SUFFICES ASSUME IInv, Next PROVE LinesInv'
  OBVIOUS
<1> USE DEF IInv, LinesInv
<1>u. CASE UNCHANGED <<timer_line, survived, timer_flags, vgc_line, vgc_flags, irq_vbl>>
  BY <1>u
<1>1. CASE ResetLow \/ Stopped \/ MmioHeld \/ HostReset \/ PressReset
  BY <1>1, <1>u DEF ResetLow, Stopped, MmioHeld, HostReset, PressReset, sourceVars
<1>2. ASSUME NEW d \in Durations, PullResetVector(d) \/ EnterHandler(d) \/ Wait(d) PROVE LinesInv'
  BY <1>2, <1>u DEF PullResetVector, EnterHandler, Wait, sourceVars
<1>3. ASSUME NEW d \in Durations, Instruction(d) PROVE LinesInv'
  <2>1. CASE \E on \in BOOLEAN : SetIrqDisable(on, d)
    BY <2>1, <1>u DEF SetIrqDisable, sourceVars
  <2>2. CASE \E on \in BOOLEAN : NewVideo(on, d)
    BY <2>2 DEF NewVideo, Switch
  <2>3. CASE \E a, b \in BOOLEAN : SetInten(a, b, d)
    BY <2>3 DEF SetInten, ClearIrq, Switch, Unless
  <2>4. CASE \E a, b \in BOOLEAN : SetVgcIrq(a, b, d)
    BY <2>4 DEF SetVgcIrq, ClearIrq, Switch, Unless
  <2>5. CASE \E a, b \in BOOLEAN : ClearScanInt(a, b, d)
    BY <2>5 DEF ClearScanInt, ClearIrq, Unless
  <2>6. CASE ClrVblInt(d)
    BY <2>6 DEF ClrVblInt, ClearIrq
  <2>7. CASE WAI(d)
    BY <2>7, <1>u DEF WAI, sourceVars
  <2>8. CASE STP(d)
    BY <2>8, <1>u DEF STP, sourceVars
  <2> QED
    BY <1>3, <2>1, <2>2, <2>3, <2>4, <2>5, <2>6, <2>7, <2>8 DEF Instruction
<1>4. CASE DevicesReset
  BY <1>4 DEF DevicesReset
<1>5. CASE MmioSync
  <2>1. PICK control \in BOOLEAN : VgcSync(control)
    BY <1>5 DEF MmioSync
  <2>2. /\ "QSEC" \in (timer_line \ survived)' => {"QSEC_ENABLED", "QSEC_IRQ"} \subseteq timer_flags'
        /\ "RTC_1SEC" \in (timer_line \ survived)' => "1SEC_ENABLED" \in timer_flags'
    BY <1>5 DEF MmioSync, TimerSync
  <2>3. /\ "BLANK" \in vgc_line' => "ENABLE_VBL_IRQ" \in vgc_flags' /\ irq_vbl'
        /\ "SCAN_LINE" \in vgc_line' => "SCANLINE_IRQ" \in vgc_flags'
    <3>1. CASE "INIT" \in vgc_flags
      BY <2>1, <3>1 DEF VgcSync
    <3>2. CASE "INIT" \notin vgc_flags
      BY <2>1, <3>2, BlankBit DEF VgcSync
    <3> QED
      BY <3>1, <3>2
  <2> QED
    BY <2>2, <2>3
<1> QED
  BY <1>1, <1>2, <1>3, <1>4, <1>5 DEF Next, Steps, Cpu

(* Only MmioSync asks for the handler, and it does so for asserted lines.  *)
LEMMA HandlerStep == IInv /\ Next => HandlerInv'
<1> SUFFICES ASSUME IInv, Next PROVE HandlerInv'
  OBVIOUS
<1> USE DEF IInv, HandlerInv, ResetInv, AboutToHandle, Runs
<1>1. CASE ResetLow
  BY <1>1 DEF ResetLow
<1>2. CASE Stopped
  BY <1>2 DEF Stopped, cpuVars
<1>3. ASSUME NEW d \in Durations, Cpu(d) PROVE HandlerInv'
  <2>1. turn' = "mmio" /\ state_type' = "Execute"
    BY <1>3, InstructionExecutes DEF Cpu, PullResetVector, EnterHandler, Wait, Executes, Spend, cpuVars
  <2> QED
    BY <2>1
<1>4. CASE MmioHeld
  BY <1>4 DEF MmioHeld, resetVars
<1>5. CASE DevicesReset
  BY <1>5 DEF DevicesReset, cpuVars
<1>6. CASE MmioSync
  <2>1. PICK others \in SUBSET OtherSources : irq_line' = timer_line' \union vgc_line' \union others
    BY <1>6 DEF MmioSync
  <2>2. enabled' /\ state_type' = "IRQ" => irq_line' # {}
    BY <1>6 DEF MmioSync
  <2> QED
    BY <1>6, <2>1, <2>2 DEF MmioSync
<1>7. CASE HostReset
  BY <1>7 DEF HostReset
<1>8. CASE PressReset
  BY <1>8 DEF PressReset, cpuVars, resetVars, sourceVars
<1> QED
  BY <1>1, <1>2, <1>3, <1>4, <1>5, <1>6, <1>7, <1>8 DEF Next, Steps

(* A reset goes through its stages in order, whatever happens meanwhile.   *)
LEMMA ResetStep == IInv /\ Next => ResetInv' /\ ResetDoneInv'
<1> SUFFICES ASSUME IInv, Next PROVE ResetInv' /\ ResetDoneInv'
  OBVIOUS
<1> USE DEF IInv, TypeOK, ResetInv, ResetDoneInv
<1>1. CASE ResetLow
  BY <1>1 DEF ResetLow, glueVars
<1>2. CASE Stopped
  BY <1>2 DEF Stopped, cpuVars, resetVars, glueVars
<1>3. ASSUME NEW d \in Durations, Cpu(d) PROVE ResetInv' /\ ResetDoneInv'
  <2>1. turn' = "mmio" /\ state_type' = "Execute" /\ Runs /\ UNCHANGED <<resetVars, glueVars>>
    BY <1>3, InstructionExecutes DEF Cpu, PullResetVector, EnterHandler, Wait, Executes, Spend, cpuVars
  <2> QED
    BY <2>1 DEF Runs, resetVars, glueVars
<1>4. CASE MmioHeld
  BY <1>4 DEF MmioHeld, cpuVars, resetVars
<1>5. CASE DevicesReset
  BY <1>5 DEF DevicesReset, cpuVars, resetVars
<1>6. CASE MmioSync
  <2>1. state_type # "Reset" /\ state_type' # "Reset" /\ state_type' # "None"
    BY <1>6 DEF MmioSync
  <2>2. /\ resbIn' <=> resb_counter' = 0
        /\ resb_counter' # 1
    <3>1. resbIn' <=> ~ResetRequested
      BY <1>6, Zenon DEF MmioSync, ResetKeySync
    <3>2. resb_counter = 0 /\ resb_counter' = IF ResetRequested THEN 2 ELSE resb_counter
      BY <1>6 DEF MmioSync, ResetKeySync
    <3> QED
      BY <3>1, <3>2
  <2> QED
    BY <1>6, <2>1, <2>2 DEF MmioSync
<1>7. CASE HostReset
  BY <1>7 DEF HostReset, cpuVars, glueVars
<1>8. CASE PressReset
  BY <1>8 DEF PressReset, cpuVars, resetVars, glueVars, sourceVars
<1> QED
  BY <1>1, <1>2, <1>3, <1>4, <1>5, <1>6, <1>7, <1>8 DEF Next, Steps

(* Only the processor advances its clock, and only after the devices.      *)
LEMMA ClockStep == IInv /\ Next => ClockInv'
<1> SUFFICES ASSUME IInv, Next, (mmio_state = "Active" /\ resbIn /\ "INIT" \notin vgc_flags)'
             PROVE  \E d \in Durations \union {0} :
                        /\ clocks_spent' = (mega2_cycles' + d) % ClockWidth
                        /\ turn' = "cpu" => d = 0
  BY DEF ClockInv
<1> USE DEF IInv, TypeOK
<1>1. CASE ResetLow
  BY <1>1 DEF ResetLow, ResetInv, glueVars
<1>2. CASE Stopped
  BY <1>2 DEF Stopped, ClockInv, glueVars, sourceVars
<1>3. ASSUME NEW d \in Durations, Cpu(d)
      PROVE  clocks_spent' = (mega2_cycles' + d) % ClockWidth /\ turn' = "mmio"
  <2>1. /\ turn' = "mmio" /\ clocks_spent' = (clocks_spent + d) % ClockWidth /\ Runs
        /\ UNCHANGED <<resetVars, glueVars>>
        /\ "INIT" \notin vgc_flags
    BY <1>3, InstructionExecutes
    DEF Cpu, PullResetVector, EnterHandler, Wait, Executes, Spend, cpuVars, sourceVars
  <2>2. clocks_spent = (mega2_cycles + 0) % ClockWidth
    BY <2>1 DEF ClockInv, ResetInv, Runs
  <2>3. clocks_spent = mega2_cycles
    BY <2>2
  <2> QED
    BY <2>1, <2>3 DEF glueVars
<1>4. CASE MmioHeld
  BY <1>4 DEF MmioHeld, resetVars
<1>5. CASE DevicesReset
  BY <1>5 DEF DevicesReset
<1>6. CASE MmioSync
  <2>1. clocks_spent' = clocks_spent /\ mega2_cycles' = clocks_spent
    BY <1>6 DEF MmioSync, TimerSync
  <2>2. clocks_spent = (clocks_spent + 0) % ClockWidth
    OBVIOUS
  <2> QED
    BY <2>1, <2>2
<1>7. CASE HostReset
  BY <1>7 DEF HostReset
<1>8. CASE PressReset
  BY <1>8 DEF PressReset, ClockInv, resetVars, glueVars, sourceVars
<1> QED
  BY <1>1, <1>2, <1>3, <1>4, <1>5, <1>6, <1>7, <1>8 DEF Next, Steps

(* vbl_started tells whether the beam is in the blank.                     *)
LEMMA BlankStep == IInv /\ Next => BlankInv'
<1> SUFFICES ASSUME IInv, Next PROVE BlankInv'
  OBVIOUS
<1>1. CASE UNCHANGED beamVars
  BY <1>1 DEF IInv, BlankInv, beamVars
<1>2. CASE MmioSync
  <2>1. PICK control \in BOOLEAN : VgcSync(control)
    BY <1>2 DEF MmioSync
  <2>2. CASE "INIT" \in vgc_flags
    BY <1>1, <2>1, <2>2 DEF VgcSync
  <2>3. CASE "INIT" \notin vgc_flags
    <3>1. Elapsed \in 0 .. VblLowerBound
      BY <1>2, <2>3, Blank DEF MmioSync, IInv
    <3>2. /\ v_counter' = NextLine(v_counter + Elapsed)
          /\ vbl_started' <=> ~(v_counter + Elapsed >= ScanlineCount) /\ (vbl_started \/ BlankStarts)
      BY <2>1, <2>3 DEF VgcSync
    <3> QED
      BY <3>1, <3>2 DEF NextLine, BlankStarts, BlankInv, IInv, TypeOK
  <2> QED
    BY <2>2, <2>3
<1>3. ASSUME NEW d \in Durations, Cpu(d) PROVE UNCHANGED beamVars
  BY <1>3, InstructionExecutes DEF Cpu, PullResetVector, EnterHandler, Wait, Executes
<1> QED
  BY <1>1, <1>2, <1>3 DEF Next, Steps, ResetLow, Stopped, MmioHeld, DevicesReset, HostReset, PressReset

(* A step that changes nothing.                                            *)
LEMMA Stutter == IInv /\ UNCHANGED vars => IInv'
BY DEF IInv, TypeOK, LinesInv, HandlerInv, AboutToHandle, Runs, ResetInv, ResetDoneInv, ClockInv, BlankInv,
   vars, cpuVars, resetVars, glueVars, countVars, beamVars, sourceVars

-----------------------------------------------------------------------------
(* The inductive invariant holds in every state the machine can reach.     *)
THEOREM Invariant == Spec => []IInv
<1>1. IInv /\ [Next]_vars => IInv'
  BY TypeStep, LinesStep, HandlerStep, ResetStep, ClockStep, BlankStep, Stutter DEF IInv
<1> QED
  BY <1>1, InitInv, PTL DEF Spec

(* Every register keeps its range, whatever the guest does and however     *)
(* long an instruction takes.                                              *)
THEOREM TypeCorrect == Spec => []TypeOK
<1>1. IInv => TypeOK
  BY DEF IInv
<1> QED
  BY <1>1, Invariant, PTL

(* No handler is entered for a source that is off or cannot be told from   *)
(* the status registers, unless a reset left its line asserted.            *)
THEOREM HandlersHaveCauses == Spec => []HandlerHasCause
<1>1. IInv => HandlerHasCause
  BY SourcesAssumption DEF IInv, LinesInv, HandlerInv, TypeOK, HandlerHasCause, Visible, EnabledSources,
     VgcSources, TimerSources
<1> QED
  BY <1>1, Invariant, PTL

(* The reset vector is fetched after the devices have been reset.          *)
THEOREM ResetOrder == Spec => []ResetReachesDevices
<1>1. IInv => ResetReachesDevices
  BY DEF IInv, ResetInv, ResetDoneInv, ResetReachesDevices, Runs
<1> QED
  BY <1>1, Invariant, PTL

(* One vertical blank interrupt in each frame, when the blank begins.      *)
THEOREM VblOncePerFrame == Spec => VblAtTheBlank
<1>1. IInv /\ MmioSync /\ "INIT" \notin vgc_flags =>
          LET enters == v_counter < VblLowerBound /\ v_counter + Elapsed >= VblLowerBound
          IN /\ "BLANK" \in vgc_line' \ vgc_line => enters
             /\ enters /\ "ENABLE_VBL_IRQ" \in vgc_flags => irq_vbl' /\ "BLANK" \in vgc_line'
  <2> SUFFICES ASSUME IInv, MmioSync, "INIT" \notin vgc_flags
               PROVE  LET enters == v_counter < VblLowerBound /\ v_counter + Elapsed >= VblLowerBound
                      IN /\ "BLANK" \in vgc_line' \ vgc_line => enters
                         /\ enters /\ "ENABLE_VBL_IRQ" \in vgc_flags => irq_vbl' /\ "BLANK" \in vgc_line'
    OBVIOUS
  <2>1. PICK control \in BOOLEAN : VgcSync(control)
    BY DEF MmioSync
  <2>2. v_counter < VblLowerBound <=> ~vbl_started
    BY DEF IInv, BlankInv, TypeOK
  <2> QED
    BY <2>1, <2>2, BlankBit DEF VgcSync, BlankStarts
<1> QED
  BY <1>1, Invariant, PTL DEF Spec, VblAtTheBlank
=============================================================================
