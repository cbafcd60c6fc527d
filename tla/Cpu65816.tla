----------------------------- MODULE Cpu65816 -----------------------------
(* The registers, modes and stack of the 65816 (cpu_execute of emulator.c  *)
(* and the inline functions of clem_code.h it calls).  In emulation mode   *)
(* the stack stays in page 1 and the registers are bytes; in native mode   *)
(* the bits M and X of the status choose the width of A and of X and Y.    *)
(*                                                                         *)
(* A word is <<high byte, low byte>>, a byte is below Byte (256 in the     *)
(* code), and P is the set of the status bits that are set ("X" is the bit *)
(* that emulation mode calls B).  Memory, D, the banks and the PC belong   *)
(* to the guest: an instruction that reads them reads any of Operands, and *)
(* what arithmetic does to N, V, Z, C and the accumulator is Alu65816's.   *)
EXTENDS Integers

CONSTANTS Byte,
          Operands,     \* the words that instructions read
          Statuses      \* the status registers that they pull

Bytes == 0 .. Byte - 1
Words == Bytes \X Bytes
Flags == {"N", "V", "M", "X", "D", "I", "Z", "C"}

ASSUME CpuAssumption ==
    /\ Byte \in Nat /\ Byte > 3
    /\ Operands \subseteq Words
    /\ Statuses \subseteq SUBSET Flags

Zero == <<0, 0>>
Low(w) == <<0, w[2]>>
set16_lo(w, v) == <<w[1], v[2]>>

Inc(w) == IF w[2] < Byte - 1 THEN <<w[1], w[2] + 1>>
          ELSE <<(IF w[1] < Byte - 1 THEN w[1] + 1 ELSE 0), 0>>

Dec(w) == IF w[2] > 0 THEN <<w[1], w[2] - 1>>
          ELSE <<(IF w[1] > 0 THEN w[1] - 1 ELSE Byte - 1), Byte - 1>>
----------------------------------------------------------------------------
(* The stack operations, on a record of the mode e, the stack pointer s    *)
(* and the memory m of bank 0.                                             *)
sp_dec(e, s) == IF e THEN set16_lo(s, Dec(s)) ELSE Dec(s)
sp_inc(e, s) == IF e THEN set16_lo(s, Inc(s)) ELSE Inc(s)
sp_dec2(e, s) == sp_dec(e, sp_dec(e, s))
sp_inc2(e, s) == sp_inc(e, sp_inc(e, s))
sp_dec3(e, s) == sp_dec(e, sp_dec2(e, s))
sp_inc3(e, s) == sp_inc(e, sp_inc2(e, s))

opc_push_reg_8(st, b) ==
    [e |-> st.e, s |-> sp_dec(st.e, st.s), m |-> [st.m EXCEPT ![st.s] = b]]

opc_push_reg_16(st, w) == opc_push_reg_8(opc_push_reg_8(st, w[1]), w[2])

opc_push_reg_816(st, w, is8) ==
    IF is8 THEN opc_push_reg_8(st, w[2]) ELSE opc_push_reg_16(st, w)

opc_pull_reg_8(st) ==
    LET s == sp_inc(st.e, st.s) IN [s |-> s, val |-> st.m[s]]

opc_pull_reg_16(st) ==
    LET lo == sp_inc(st.e, st.s)
        hi == sp_inc(st.e, lo)
    IN [s |-> hi, val |-> <<st.m[hi], st.m[lo]>>]

(* The status on the stack is itself a byte: the memory holds sets of      *)
(* flags there.  In emulation mode B tells a BRK from an interrupt.        *)
opc_push_status(st, p, is_irq) ==
    opc_push_reg_8(st,
        IF ~st.e THEN p
        ELSE (IF is_irq THEN p \ {"X"} ELSE p \union {"X"}) \union {"M"})

(* Mutant of ForcedStatus: emulation mode takes the bits as they come. *)
UnforcedStatus(e, p) == p

ForcedStatus(e, p) == IF e THEN p \union {"M", "X"} ELSE p

opc_pull_status(st) ==
    LET got == opc_pull_reg_8(st) IN [s |-> got.s, val |-> ForcedStatus(st.e, got.val)]

(* JSR and RTS wrap in page 1 like the pushes; JSL, RTL, PHD and PLD, the  *)
(* instructions that the 65816 added, run over its edge, and only the      *)
(* pointer comes back.                                                     *)
opc_push_pc16(st, pc) ==
    [e |-> st.e, s |-> sp_dec2(st.e, st.s),
     m |-> [[st.m EXCEPT ![st.s] = pc[1]] EXCEPT ![sp_dec(st.e, st.s)] = pc[2]]]

rts(st) ==
    LET lo == sp_inc(st.e, st.s)
        hi == sp_inc(st.e, lo)
    IN [s |-> sp_inc2(st.e, st.s), val |-> <<st.m[hi], st.m[lo]>>]

jsl(st, pbr, pc) ==
    [e |-> st.e, s |-> sp_dec3(st.e, st.s),
     m |-> [[[st.m EXCEPT ![st.s] = pbr] EXCEPT ![Dec(st.s)] = pc[1]]
                   EXCEPT ![Dec(Dec(st.s))] = pc[2]]]

rtl(st) ==
    [s   |-> sp_inc3(st.e, st.s),
     pbr |-> st.m[Inc(Inc(Inc(st.s)))],
     val |-> <<st.m[Inc(Inc(st.s))], st.m[Inc(st.s)]>>]

phd(st, d) ==
    [e |-> st.e, s |-> sp_dec2(st.e, st.s),
     m |-> [[st.m EXCEPT ![st.s] = d[1]] EXCEPT ![Dec(st.s)] = d[2]]]

pld(st) ==
    [s |-> sp_inc2(st.e, st.s), val |-> <<st.m[Inc(Inc(st.s))], st.m[Inc(st.s)]>>]

(* PEA, PEI and PER push a word that is no register.                       *)
pea(st, w) ==
    LET s == sp_dec2(st.e, st.s)
    IN [e |-> st.e, s |-> s,
        m |-> [[st.m EXCEPT ![Inc(s)] = w[2]] EXCEPT ![Inc(Inc(s))] = w[1]]]

(* Entry to a handler (IRQ, NMI, BRK, COP) and RTI.                        *)
(* Mutant of irq_brk_setup: native mode, too, leaves the bank behind. *)
irq_brk_setup_no_bank(st, pbr, pc, p, is_irq) ==
    opc_push_status(opc_push_reg_16(st, pc), p, is_irq)

irq_brk_setup(st, pbr, pc, p, is_irq) ==
    LET banked == IF st.e THEN st ELSE opc_push_reg_8(st, pbr)
    IN opc_push_status(opc_push_reg_16(banked, pc), p, is_irq)

HandlerStatus(p) == (p \ {"D"}) \union {"I"}

irq_brk_return(st) ==
    LET status == opc_pull_status(st)
        pc     == opc_pull_reg_16([st EXCEPT !.s = status.s])
        bank   == opc_pull_reg_8([st EXCEPT !.s = pc.s])
    IN [s   |-> IF st.e THEN pc.s ELSE bank.s,
        P   |-> status.val,
        pc  |-> pc.val,
        pbr |-> bank.val]      \* of use in native mode only
----------------------------------------------------------------------------
VARIABLES
    emulation,      \* pins.emulation
    P, A, X, Y, S   \* regs
vars == <<emulation, P, A, X, Y, S>>

m8 == "M" \in P
x8 == "X" \in P

Blank == [a \in Words |-> 0]
Stack == [e |-> emulation, s |-> S, m |-> Blank]

(* Status bits that are the result of a computation: N stands for N, V and *)
(* Z, which move together here.                                            *)
Results(bits) == \E r \in SUBSET bits : P' = (P \ bits) \union r

apply_m_x(p, w) == IF "X" \in p THEN Low(w) ELSE w

SetStatus(p) ==
    /\ P' = p
    /\ X' = apply_m_x(p, X)
    /\ Y' = apply_m_x(p, Y)
----------------------------------------------------------------------------
(* Instructions on the registers, over all their addressing modes.         *)
ToA(v) == A' = IF m8 THEN set16_lo(A, v) ELSE v
ToX(v) == X' = IF x8 THEN set16_lo(X, v) ELSE v
ToY(v) == Y' = IF x8 THEN set16_lo(Y, v) ELSE v

(* LDA, AND, ORA, EOR, ADC, SBC and the shifts and steps of A. *)
Accumulate(v) == ToA(v) /\ Results({"N", "C"}) /\ UNCHANGED <<emulation, X, Y, S>>

(* CMP, CPX, CPY, BIT, TRB, TSB, TCD, CLV and the shifts and steps of      *)
(* memory.  Stores, branches, jumps, NOP and WDM change nothing modelled;  *)
(* WAI and STP are in Interrupts.                                          *)
Test == Results({"N", "C"}) /\ UNCHANGED <<emulation, A, X, Y, S>>

LDX(v) == ToX(v) /\ Results({"N"}) /\ UNCHANGED <<emulation, A, Y, S>>
LDY(v) == ToY(v) /\ Results({"N"}) /\ UNCHANGED <<emulation, A, X, S>>

INX == LDX(Inc(X))
DEX == LDX(Dec(X))
INY == LDY(Inc(Y))
DEY == LDY(Dec(Y))
TAX == LDX(A)
TYX == LDX(Y)
TAY == LDY(A)
TXY == LDY(X)
TSX == (emulation => x8) /\ LDX(S)

IndexToA(w) ==
    /\ A' = IF m8 THEN set16_lo(A, w) ELSE IF x8 THEN Low(w) ELSE w
    /\ Results({"N"})
    /\ UNCHANGED <<emulation, X, Y, S>>
TXA == IndexToA(X)
TYA == IndexToA(Y)

WordToA(w) == A' = w /\ Results({"N"}) /\ UNCHANGED <<emulation, X, Y, S>>
TSC == WordToA(S)
TDC(d) == WordToA(d)
XBA == WordToA(<<A[2], A[1]>>)

ToS(w) == S' = w /\ UNCHANGED <<emulation, P, A, X, Y>>
TCS == ToS(IF emulation THEN set16_lo(S, A) ELSE A)
TXS == ToS(IF emulation THEN set16_lo(S, X) ELSE IF x8 THEN Low(X) ELSE X)

(* One byte of a block move. *)
MVN == ToX(Inc(X)) /\ ToY(Inc(Y)) /\ A' = Dec(A) /\ UNCHANGED <<emulation, P, S>>
MVP == ToX(Dec(X)) /\ ToY(Dec(Y)) /\ A' = Dec(A) /\ UNCHANGED <<emulation, P, S>>

(* CLC, SEC, CLD, SED, CLI, SEI. *)
SetOrClear(bit) ==
    /\ P' \in {P \union {bit}, P \ {bit}}
    /\ UNCHANGED <<emulation, A, X, Y, S>>

REP(bits) == SetStatus(ForcedStatus(emulation, P \ bits)) /\ UNCHANGED <<emulation, A, S>>
SEP(bits) == SetStatus(ForcedStatus(emulation, P \union bits)) /\ UNCHANGED <<emulation, A, S>>

XCE ==
    LET carried == "C" \in P
        swapped(p) == IF emulation THEN p \union {"C"} ELSE p \ {"C"}
    IN /\ emulation' = carried
       /\ IF carried = emulation
          THEN P' = swapped(P) /\ UNCHANGED <<X, Y, S>>
          ELSE /\ SetStatus(swapped(P \union {"M", "X"}))
               /\ S' = IF emulation THEN S ELSE <<1, S[2]>>
       /\ UNCHANGED A
----------------------------------------------------------------------------
(* Instructions on the stack.  What they push the guest's memory keeps.    *)
Push(st) == S' = st.s /\ UNCHANGED <<emulation, P, A, X, Y>>

PHA == Push(opc_push_reg_816(Stack, A, m8))
PHX == Push(opc_push_reg_816(Stack, X, x8))
PHY == Push(opc_push_reg_816(Stack, Y, x8))
PHP == Push(opc_push_status(Stack, P, FALSE))
PHB == Push(opc_push_reg_8(Stack, 0))       \* PHK too
PHD == Push(phd(Stack, Zero))
PEA == Push(pea(Stack, Zero))               \* PEI and PER too
JSR == Push(opc_push_pc16(Stack, Zero))     \* both forms
JSL == Push(jsl(Stack, 0, Zero))

Pulled(is8) == S' = IF is8 THEN opc_pull_reg_8(Stack).s ELSE opc_pull_reg_16(Stack).s

PLA(v) == ToA(v) /\ Pulled(m8) /\ Results({"N"}) /\ UNCHANGED <<emulation, X, Y>>
PLX(v) == ToX(v) /\ Pulled(x8) /\ Results({"N"}) /\ UNCHANGED <<emulation, A, Y>>
PLY(v) == ToY(v) /\ Pulled(x8) /\ Results({"N"}) /\ UNCHANGED <<emulation, A, X>>
PLB == Pulled(TRUE) /\ Results({"N"}) /\ UNCHANGED <<emulation, A, X, Y>>
PLD == S' = pld(Stack).s /\ Results({"N"}) /\ UNCHANGED <<emulation, A, X, Y>>
RTS == S' = rts(Stack).s /\ UNCHANGED <<emulation, P, A, X, Y>>
RTL == S' = rtl(Stack).s /\ UNCHANGED <<emulation, P, A, X, Y>>

PLP(p) ==
    /\ SetStatus(ForcedStatus(emulation, p))
    /\ Pulled(TRUE)
    /\ UNCHANGED <<emulation, A>>

RTI(p) ==
    /\ SetStatus(ForcedStatus(emulation, p))
    /\ S' = irq_brk_return(Stack).s
    /\ UNCHANGED <<emulation, A>>

EnterHandler(is_irq) ==
    /\ S' = irq_brk_setup(Stack, 0, Zero, P, is_irq).s
    /\ P' = HandlerStatus(P)
    /\ UNCHANGED <<emulation, A, X, Y>>

BRK == EnterHandler(FALSE)      \* COP too
IRQ == "I" \notin P /\ EnterHandler(TRUE)

(* The reset line, and the reset sequence up to the vector, which moves    *)
(* the stack pointer as if it pushed.                                      *)
Reset ==
    /\ emulation' = TRUE
    /\ P' = (P \ {"D", "C"}) \union {"M", "X", "I"}
    /\ X' = Low(X)
    /\ Y' = Low(Y)
    /\ S' = sp_dec3(TRUE, <<1, S[2]>>)
    /\ UNCHANGED A
----------------------------------------------------------------------------
Init ==     \* after the reset of a machine whose registers are zero
    /\ emulation = TRUE
    /\ P = {"M", "X", "I"}
    /\ A = Zero /\ X = Zero /\ Y = Zero
    /\ S = sp_dec3(TRUE, <<1, 0>>)

Register(v) == Accumulate(v) \/ LDX(v) \/ LDY(v) \/ TDC(v) \/ PLA(v) \/ PLX(v) \/ PLY(v)

Transfer ==
    \/ INX \/ DEX \/ INY \/ DEY \/ TAX \/ TYX \/ TAY \/ TXY \/ TSX \/ TXA \/ TYA
    \/ TSC \/ XBA \/ TCS \/ TXS \/ MVN \/ MVP

Mode(p) == REP(p) \/ SEP(p) \/ PLP(p) \/ RTI(p)

StackOp ==
    \/ PHA \/ PHX \/ PHY \/ PHP \/ PHB \/ PHD \/ PEA \/ JSR \/ JSL
    \/ PLB \/ PLD \/ RTS \/ RTL \/ BRK \/ IRQ

Next ==
    \/ \E v \in Operands : Register(v)
    \/ \E p \in Statuses : Mode(p)
    \/ \E bit \in {"C", "D", "I"} : SetOrClear(bit)
    \/ Test \/ Transfer \/ StackOp \/ XCE \/ Reset

Spec == Init /\ [][Next]_vars
----------------------------------------------------------------------------
(* The registers are words and the status is a set of its bits.            *)
TypeOK ==
    /\ emulation \in BOOLEAN
    /\ P \subseteq Flags
    /\ A \in Words /\ X \in Words /\ Y \in Words /\ S \in Words

(* The modes agree.  Emulation mode means bytes and a stack in page 1, and *)
(* an index register that is a byte has no high byte: the code masks the   *)
(* index in some places and uses it whole in others (TAX, TXS, indexed     *)
(* addressing, MVN), and both must come to the same.                       *)
ModesAgree ==
    /\ emulation => {"M", "X"} \subseteq P /\ S[1] = 1
    /\ x8 => X[1] = 0 /\ Y[1] = 0

(* What a pull takes from the stack is what the push before it left, and   *)
(* the pointer is where it was.                                            *)
PairsUndo(w) ==
    /\ LET back == opc_pull_reg_8(opc_push_reg_8(Stack, w[2]))
       IN back.s = S /\ back.val = w[2]
    /\ LET back == opc_pull_reg_16(opc_push_reg_16(Stack, w))
       IN back.s = S /\ back.val = w
    /\ LET back == opc_pull_status(opc_push_status(Stack, P, FALSE))
       IN back.s = S /\ back.val = P
    /\ LET back == rts(opc_push_pc16(Stack, w))
       IN back.s = S /\ back.val = w
    /\ LET back == pld(pea(Stack, w))
       IN back.s = S /\ back.val = w

(* The instructions that run over the edge of page 1 undo each other away  *)
(* from it, and always in native mode.                                     *)
LongPairsUndo(w) ==
    /\ (emulation => S[2] >= 2) =>
          LET back == pld(phd(Stack, w))
          IN back.s = S /\ back.val = w
    /\ (emulation => S[2] >= 3) =>
          LET back == rtl(jsl(Stack, w[1], w))
          IN back.s = S /\ back.val = w /\ back.pbr = w[1]

(* An interrupt, or a BRK, can come between any two instructions: RTI      *)
(* brings back the status, the PC and the stack pointer, and in native     *)
(* mode the bank.  In emulation mode the handler can tell the two apart.   *)
InterruptUndoes(w, is_irq) ==
    LET entered == irq_brk_setup(Stack, w[1], w, P, is_irq)
        back    == irq_brk_return(entered)
    IN /\ back.s = S /\ back.P = P /\ back.pc = w
       /\ ~emulation => back.pbr = w[1]
       /\ emulation => (("X" \in opc_pull_reg_8(entered).val) <=> ~is_irq)

(* The stack is one, whatever pushed: for every instruction that pushes,   *)
(* the one that pulls undoes it, from every state.                         *)
PullsUndoPushes ==
    \A w \in Operands :
        /\ PairsUndo(w) /\ LongPairsUndo(w)
        /\ InterruptUndoes(w, TRUE) /\ InterruptUndoes(w, FALSE)
=============================================================================
