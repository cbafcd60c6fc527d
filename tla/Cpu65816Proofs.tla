-------------------------- MODULE Cpu65816Proofs --------------------------
(* The modes and the stack of Cpu65816, for bytes of every size above      *)
(* three, every set of operands and every set of pulled status registers;  *)
(* and the arithmetic of Alu65816, for digits of every even number of      *)
(* values and every radix below it.                                        *)
EXTENDS MCProcessor, TLAPS

Cells == Bytes \union SUBSET Flags
Stacks == [e : BOOLEAN, s : Words, m : [Words -> Cells]]
----------------------------------------------------------------------------
(* Words stay words, and the steps by one undo each other.                 *)
LEMMA Steps ==
    ASSUME NEW w \in Words, NEW v \in Words
    PROVE  /\ Inc(w) \in Words /\ Dec(w) \in Words
           /\ Inc(Dec(w)) = w /\ Dec(Inc(w)) = w
           /\ Low(w) \in Words /\ set16_lo(w, v) \in Words
           /\ Low(w)[1] = 0 /\ set16_lo(w, v)[1] = w[1]
           /\ <<w[2], w[1]>> \in Words
           /\ w = <<w[1], w[2]>> /\ w[1] \in Bytes /\ w[2] \in Bytes
  BY CpuAssumption DEF Inc, Dec, Low, set16_lo, Words, Bytes

(* The three words below a word differ from it and from one another.       *)
LEMMA Apart ==
    ASSUME NEW w \in Words
    PROVE  /\ Dec(w) # w /\ Dec(Dec(w)) # w /\ Dec(Dec(Dec(w))) # w
           /\ Inc(w) # w /\ Inc(Inc(w)) # w
  BY CpuAssumption DEF Inc, Dec, Words, Bytes

(* The pointer moves and comes back, stays in its page in emulation mode,  *)
(* and does not meet itself within three pushes.                           *)
LEMMA Pointer ==
    ASSUME NEW e \in BOOLEAN, NEW s \in Words
    PROVE  /\ sp_dec(e, s) \in Words /\ sp_inc(e, s) \in Words
           /\ sp_inc(e, sp_dec(e, s)) = s
           /\ e => sp_dec(e, s)[1] = s[1] /\ sp_inc(e, s)[1] = s[1]
           /\ sp_dec(e, s) # s
           /\ sp_dec(e, sp_dec(e, s)) # s
           /\ sp_dec(e, sp_dec(e, sp_dec(e, s))) # s
<1>1. CASE ~e
  BY <1>1, Steps, Apart DEF sp_dec, sp_inc
<1>2. CASE e
  <2>1. PICK hi \in Bytes, lo \in Bytes : s = <<hi, lo>>
    BY DEF Words
  <2> DEFINE down(n) == IF n > 0 THEN n - 1 ELSE Byte - 1
             up(n)   == IF n < Byte - 1 THEN n + 1 ELSE 0
  <2>2. \A n \in Bytes : sp_dec(e, <<hi, n>>) = <<hi, down(n)>>
    BY <1>2, <2>1, CpuAssumption DEF sp_dec, set16_lo, Dec, Bytes
  <2>3. \A n \in Bytes : sp_inc(e, <<hi, n>>) = <<hi, up(n)>>
    BY <1>2, <2>1, CpuAssumption DEF sp_inc, set16_lo, Inc, Bytes
  <2>4. \A n \in Bytes : /\ down(n) \in Bytes /\ up(n) \in Bytes
                         /\ up(down(n)) = n
                         /\ down(n) # n /\ down(down(n)) # n /\ down(down(down(n))) # n
    BY CpuAssumption DEF Bytes
  <2> HIDE DEF down, up
  <2>5. /\ sp_dec(e, s) = <<hi, down(lo)>>
        /\ sp_inc(e, s) = <<hi, up(lo)>>
        /\ sp_dec(e, sp_dec(e, s)) = <<hi, down(down(lo))>>
        /\ sp_dec(e, sp_dec(e, sp_dec(e, s))) = <<hi, down(down(down(lo)))>>
        /\ sp_inc(e, sp_dec(e, s)) = <<hi, up(down(lo))>>
    BY <2>1, <2>2, <2>3, <2>4
  <2>6. sp_dec(e, s) \in Words /\ sp_inc(e, s) \in Words
    BY <2>1, <2>4, <2>5 DEF Words
  <2>7. sp_inc(e, sp_dec(e, s)) = s
    BY <2>1, <2>4, <2>5
  <2>8. sp_dec(e, s)[1] = s[1] /\ sp_inc(e, s)[1] = s[1]
    BY <2>1, <2>5
  <2>9. sp_dec(e, s) # s /\ sp_dec(e, sp_dec(e, s)) # s
        /\ sp_dec(e, sp_dec(e, sp_dec(e, s))) # s
    BY <2>1, <2>4, <2>5
  <2> QED
    BY <2>6, <2>7, <2>8, <2>9
<1> QED
  BY <1>1, <1>2
----------------------------------------------------------------------------
(* A byte, or a status, that is pushed comes back, with the pointer, and   *)
(* no other cell changes.                                                  *)
LEMMA Byte8 ==
    ASSUME NEW st \in Stacks, NEW b \in Cells
    PROVE  LET to == opc_push_reg_8(st, b)
           IN /\ to \in Stacks
              /\ to.e = st.e /\ to.s = sp_dec(st.e, st.s)
              /\ to.m[st.s] = b
              /\ \A a \in Words : a # st.s => to.m[a] = st.m[a]
  BY Pointer DEF Stacks, opc_push_reg_8

(* A pull finds the byte at the base the pointer was pushed down from.     *)
LEMMA Pull8 ==
    ASSUME NEW st \in Stacks, NEW base \in Words, st.s = sp_dec(st.e, base)
    PROVE  opc_pull_reg_8(st) = [s |-> base, val |-> st.m[base]]
  BY Pointer DEF Stacks, opc_pull_reg_8

(* So does a word.                                                         *)
LEMMA Push16 ==
    ASSUME NEW st \in Stacks, NEW w \in Words
    PROVE  LET to == opc_push_reg_16(st, w)
           IN /\ to \in Stacks
              /\ to.e = st.e /\ to.s = sp_dec(st.e, sp_dec(st.e, st.s))
              /\ to.m[st.s] = w[1] /\ to.m[sp_dec(st.e, st.s)] = w[2]
              /\ \A a \in Words \ {st.s, sp_dec(st.e, st.s)} : to.m[a] = st.m[a]
<1> DEFINE one == opc_push_reg_8(st, w[1])
<1>1. w[1] \in Cells /\ w[2] \in Cells
  BY Steps DEF Cells
<1>2. one \in Stacks /\ one.e = st.e /\ one.s = sp_dec(st.e, st.s)
      /\ one.m[st.s] = w[1] /\ \A a \in Words : a # st.s => one.m[a] = st.m[a]
  BY <1>1, Byte8
<1>3. st.s \in Words /\ st.e \in BOOLEAN
  BY DEF Stacks
<1>4. sp_dec(st.e, st.s) # st.s
  BY <1>3, Pointer
<1> HIDE DEF one
<1>5. LET to == opc_push_reg_8(one, w[2])
      IN /\ to \in Stacks
         /\ to.e = one.e /\ to.s = sp_dec(one.e, one.s)
         /\ to.m[one.s] = w[2]
         /\ \A a \in Words : a # one.s => to.m[a] = one.m[a]
  BY <1>1, <1>2, Byte8
<1>6. opc_push_reg_16(st, w) = opc_push_reg_8(one, w[2])
  BY DEF opc_push_reg_16, one
<1> QED
  BY <1>2, <1>3, <1>4, <1>5, <1>6

(* A pull of a word finds the two bytes below its base.                    *)
LEMMA Pull16 ==
    ASSUME NEW st \in Stacks, NEW base \in Words,
           st.s = sp_dec(st.e, sp_dec(st.e, base))
    PROVE  opc_pull_reg_16(st)
             = [s |-> base, val |-> <<st.m[base], st.m[sp_dec(st.e, base)]>>]
<1> DEFINE d1 == sp_dec(st.e, base)
<1>1. st.e \in BOOLEAN /\ st.s \in Words
  BY DEF Stacks
<1>2. d1 \in Words /\ sp_inc(st.e, d1) = base
  BY <1>1, Pointer
<1>3. sp_inc(st.e, st.s) = d1
  BY <1>1, <1>2, Pointer
<1> HIDE DEF d1
<1>4. opc_pull_reg_16(st) = [s |-> base, val |-> <<st.m[base], st.m[d1]>>]
  BY <1>2, <1>3 DEF opc_pull_reg_16
<1> QED
  BY <1>4 DEF d1

(* The byte that opc_push_status leaves on the stack.                      *)
PushedStatus(e, p, is_irq) ==
    IF ~e THEN p ELSE (IF is_irq THEN p \ {"X"} ELSE p \union {"X"}) \union {"M"}

(* A status comes back as it was, from an interrupt as from PHP: emulation *)
(* mode sets the bits again that the push may have cleared.                *)
LEMMA StatusReturns ==
    ASSUME NEW e \in BOOLEAN, NEW p \in SUBSET Flags, NEW is_irq \in BOOLEAN,
           e => {"M", "X"} \subseteq p
    PROVE  /\ PushedStatus(e, p, is_irq) \in Cells
           /\ ForcedStatus(e, PushedStatus(e, p, is_irq)) = p
           /\ e => (("X" \in PushedStatus(e, p, is_irq)) <=> ~is_irq)
  BY DEF PushedStatus, ForcedStatus, Cells, Flags

(* opc_push_status is a push of that byte.                                 *)
LEMMA PushStatus ==
    ASSUME NEW st \in Stacks, NEW p, NEW is_irq
    PROVE  opc_push_status(st, p, is_irq)
             = opc_push_reg_8(st, PushedStatus(st.e, p, is_irq))
  BY DEF opc_push_status, PushedStatus
----------------------------------------------------------------------------
(* Interrupts.  The handler is entered with the bank (in native mode), the *)
(* PC and the status on the stack, in four cells that do not meet.         *)
LEMMA HandlerReturns ==
    ASSUME NEW st \in Stacks, NEW bank \in Bytes, NEW pc \in Words,
           NEW p \in SUBSET Flags, NEW is_irq \in BOOLEAN,
           st.e => {"M", "X"} \subseteq p
    PROVE  LET entered == irq_brk_setup(st, bank, pc, p, is_irq)
               back    == irq_brk_return(entered)
           IN /\ back.s = st.s /\ back.P = p /\ back.pc = pc
              /\ ~st.e => back.pbr = bank
              /\ st.e => (("X" \in opc_pull_reg_8(entered).val) <=> ~is_irq)
<1> DEFINE s1      == IF st.e THEN st ELSE opc_push_reg_8(st, bank)
           s3      == opc_push_reg_16(s1, pc)
           c       == PushedStatus(st.e, p, is_irq)
           s4      == opc_push_reg_8(s3, c)
           stacked == opc_pull_status(s4)
           pulled  == opc_pull_reg_16([s4 EXCEPT !.s = stacked.s])
           banked  == opc_pull_reg_8([s4 EXCEPT !.s = pulled.s])
           d1      == sp_dec(st.e, s1.s)
<1>0. st.e \in BOOLEAN /\ st.s \in Words
  BY DEF Stacks
<1>1. /\ s1 \in Stacks /\ s1.e = st.e
      /\ ~st.e => s1.s = sp_dec(st.e, st.s) /\ s1.m[st.s] = bank
      /\ st.e => s1 = st
  BY Byte8 DEF Cells
<1>2. s1.s \in Words
  BY <1>1 DEF Stacks
<1> HIDE DEF s1
<1>3. /\ s3 \in Stacks /\ s3.e = st.e /\ s3.s = sp_dec(st.e, d1)
      /\ s3.m[s1.s] = pc[1] /\ s3.m[d1] = pc[2]
      /\ \A a \in Words \ {s1.s, d1} : s3.m[a] = s1.m[a]
  BY <1>1, Push16
<1>4. c \in Cells /\ ForcedStatus(st.e, c) = p /\ (st.e => (("X" \in c) <=> ~is_irq))
  BY <1>0, StatusReturns
<1> HIDE DEF s3, c
<1>5. /\ s4 \in Stacks /\ s4.e = st.e /\ s4.s = sp_dec(st.e, s3.s)
      /\ s4.m[s3.s] = c
      /\ \A a \in Words : a # s3.s => s4.m[a] = s3.m[a]
  BY <1>3, <1>4, Byte8
<1>6. irq_brk_setup(st, bank, pc, p, is_irq) = s4
  BY <1>3, PushStatus DEF irq_brk_setup, s1, s3, c
<1> HIDE DEF s4
<1>7. s3.s \in Words /\ d1 \in Words
      /\ d1 # s1.s /\ s3.s # d1 /\ s3.s # s1.s
  BY <1>0, <1>2, <1>3, Pointer DEF Stacks
<1>8. opc_pull_reg_8(s4) = [s |-> s3.s, val |-> c]
  BY <1>5, <1>7, Pull8
<1>9. stacked.s = s3.s /\ stacked.val = p
  BY <1>4, <1>5, <1>8 DEF opc_pull_status
<1> HIDE DEF stacked
<1> DEFINE t == [s4 EXCEPT !.s = stacked.s]
           u == [s4 EXCEPT !.s = pulled.s]
<1>10. t \in Stacks /\ t.e = st.e /\ t.s = sp_dec(st.e, d1) /\ t.m = s4.m
  BY <1>3, <1>5, <1>7, <1>9 DEF Stacks
<1>11. pulled = [s |-> s1.s, val |-> <<s4.m[s1.s], s4.m[d1]>>]
  <2>1. opc_pull_reg_16(t) = [s |-> s1.s, val |-> <<t.m[s1.s], t.m[sp_dec(t.e, s1.s)]>>]
    BY <1>2, <1>10, Pull16
  <2> QED
    BY <2>1, <1>10
<1>12. pc = <<pc[1], pc[2]>>
  BY Steps
<1>13. pulled.s = s1.s /\ pulled.val = pc
  BY <1>2, <1>3, <1>5, <1>7, <1>11, <1>12
<1> HIDE DEF pulled
<1>14. ASSUME ~st.e PROVE banked.s = st.s /\ banked.val = bank
  <2>1. u \in Stacks /\ u.e = st.e /\ u.s = sp_dec(st.e, st.s) /\ u.m = s4.m
    BY <1>1, <1>2, <1>5, <1>13, <1>14 DEF Stacks
  <2>2. banked = [s |-> st.s, val |-> s4.m[st.s]]
    BY <1>0, <2>1, Pull8
  <2>3. st.s # s1.s /\ st.s # d1 /\ st.s # s3.s
    BY <1>0, <1>1, <1>3, <1>14, Pointer
  <2>4. s4.m[st.s] = bank
    BY <1>0, <1>1, <1>3, <1>5, <1>14, <2>3
  <2> QED
    BY <2>2, <2>4
<1>15. irq_brk_return(s4)
         = [s |-> IF st.e THEN pulled.s ELSE banked.s, P |-> stacked.val,
            pc |-> pulled.val, pbr |-> banked.val]
  BY <1>5 DEF irq_brk_return, pulled, stacked
<1> HIDE DEF banked
<1> QED
  BY <1>0, <1>1, <1>4, <1>6, <1>8, <1>9, <1>13, <1>14, <1>15
----------------------------------------------------------------------------
(* The pairs that stay in page 1.                                          *)
LEMMA PairsReturn ==
    ASSUME NEW st \in Stacks, NEW w \in Words, NEW p \in SUBSET Flags,
           st.e => {"M", "X"} \subseteq p
    PROVE  /\ LET back == opc_pull_reg_8(opc_push_reg_8(st, w[2]))
              IN back.s = st.s /\ back.val = w[2]
           /\ LET back == opc_pull_reg_16(opc_push_reg_16(st, w))
              IN back.s = st.s /\ back.val = w
           /\ LET back == opc_pull_status(opc_push_status(st, p, FALSE))
              IN back.s = st.s /\ back.val = p
           /\ LET back == rts(opc_push_pc16(st, w))
              IN back.s = st.s /\ back.val = w
           /\ LET back == pld(pea(st, w))
              IN back.s = st.s /\ back.val = w
<1>0. st.e \in BOOLEAN /\ st.s \in Words /\ DOMAIN st.m = Words
  BY DEF Stacks
<1>1. w = <<w[1], w[2]>> /\ w[1] \in Cells /\ w[2] \in Cells
  BY Steps DEF Cells
<1> DEFINE d1 == sp_dec(st.e, st.s)
           d2 == sp_dec(st.e, d1)
<1>2. d1 \in Words /\ d1 # st.s /\ sp_inc(st.e, d1) = st.s
  BY <1>0, Pointer
<1>3. d2 \in Words /\ d2 # st.s /\ sp_inc(st.e, d2) = d1
  BY <1>0, <1>2, Pointer
<1>4. LET back == opc_pull_reg_8(opc_push_reg_8(st, w[2]))
      IN back.s = st.s /\ back.val = w[2]
  <2> DEFINE to == opc_push_reg_8(st, w[2])
  <2>1. to \in Stacks /\ to.s = sp_dec(to.e, st.s) /\ to.m[st.s] = w[2]
    BY <1>1, Byte8
  <2> QED
    BY <1>0, <2>1, Pull8
<1>5. LET back == opc_pull_reg_16(opc_push_reg_16(st, w))
      IN back.s = st.s /\ back.val = w
  <2> DEFINE to == opc_push_reg_16(st, w)
  <2>1. to \in Stacks /\ to.e = st.e /\ to.s = sp_dec(to.e, sp_dec(to.e, st.s))
        /\ to.m[st.s] = w[1] /\ to.m[d1] = w[2]
    BY Push16
  <2>2. opc_pull_reg_16(to) = [s |-> st.s, val |-> <<to.m[st.s], to.m[d1]>>]
    BY <1>0, <2>1, Pull16
  <2> QED
    BY <1>1, <2>1, <2>2
<1>6. LET back == opc_pull_status(opc_push_status(st, p, FALSE))
      IN back.s = st.s /\ back.val = p
  <2> DEFINE c  == PushedStatus(st.e, p, FALSE)
             to == opc_push_reg_8(st, c)
  <2>1. c \in Cells /\ ForcedStatus(st.e, c) = p
    BY <1>0, StatusReturns
  <2>2. opc_push_status(st, p, FALSE) = to
    BY PushStatus
  <2> HIDE DEF c
  <2>3. to \in Stacks /\ to.e = st.e /\ to.s = sp_dec(to.e, st.s) /\ to.m[st.s] = c
    BY <2>1, Byte8
  <2>4. opc_pull_reg_8(to) = [s |-> st.s, val |-> c]
    BY <1>0, <2>3, Pull8
  <2> HIDE DEF to
  <2>5. opc_pull_status(to) = [s |-> st.s, val |-> ForcedStatus(to.e, c)]
    BY <2>4 DEF opc_pull_status
  <2>6. opc_pull_status(to) = [s |-> st.s, val |-> p]
    BY <2>1, <2>3, <2>5
  <2> DEFINE got == opc_pull_status(opc_push_status(st, p, FALSE))
  <2>7. got = [s |-> st.s, val |-> p]
    BY <2>2, <2>6
  <2> HIDE DEF got
  <2>8. got.s = st.s /\ got.val = p
    BY <2>7
  <2> QED
    BY <2>8 DEF got
<1>7. LET back == rts(opc_push_pc16(st, w))
      IN back.s = st.s /\ back.val = w
  <2> DEFINE to == opc_push_pc16(st, w)
  <2>1. to.e = st.e /\ to.s = d2 /\ to.m[st.s] = w[1] /\ to.m[d1] = w[2]
    BY <1>0, <1>2 DEF opc_push_pc16, sp_dec2
  <2> HIDE DEF to, d1, d2
  <2>2. rts(to) = [s |-> st.s, val |-> <<w[1], w[2]>>]
    BY <1>2, <1>3, <2>1 DEF rts, sp_inc2
  <2> QED
    BY <1>1, <2>2 DEF to
<1>8. LET back == pld(pea(st, w))
      IN back.s = st.s /\ back.val = w
  <2> DEFINE to == pea(st, w)
  <2>1. Inc(d2) \in Words /\ Inc(Inc(d2)) \in Words /\ Inc(Inc(d2)) # Inc(d2)
    BY <1>3, Steps, Apart
  <2>2. /\ to.e = st.e /\ to.s = d2
        /\ to.m[Inc(Inc(d2))] = w[1] /\ to.m[Inc(d2)] = w[2]
    BY <1>0, <2>1 DEF pea, sp_dec2
  <2> HIDE DEF to, d1, d2
  <2>3. pld(to) = [s |-> st.s, val |-> <<w[1], w[2]>>]
    BY <1>2, <1>3, <2>2 DEF pld, sp_inc2
  <2> QED
    BY <1>1, <2>3 DEF to
<1> QED
  BY <1>4, <1>5, <1>6, <1>7, <1>8

(* Away from the edge of page 1 the pointer of emulation mode steps as     *)
(* that of native mode does.                                               *)
LEMMA AwayFromEdge ==
    ASSUME NEW e \in BOOLEAN, NEW s \in Words
    PROVE  /\ (e => s[2] >= 2) => sp_dec2(e, s) = Dec(Dec(s))
           /\ (e => s[2] >= 3) => sp_dec3(e, s) = Dec(Dec(Dec(s)))
<1>1. CASE ~e
  BY <1>1 DEF sp_dec, sp_dec2, sp_dec3
<1>2. CASE e
  <2>1. PICK hi \in Bytes, lo \in Bytes : s = <<hi, lo>>
    BY DEF Words
  <2>2. \A n \in Bytes \ {0} : /\ sp_dec(e, <<hi, n>>) = <<hi, n - 1>>
                               /\ Dec(<<hi, n>>) = <<hi, n - 1>>
    BY <1>2, <2>1, CpuAssumption DEF sp_dec, set16_lo, Dec, Bytes
  <2>3. lo >= 2 => lo \in Bytes \ {0} /\ lo - 1 \in Bytes \ {0}
    BY <2>1, CpuAssumption DEF Bytes
  <2>4. lo >= 3 => (lo - 1) - 1 \in Bytes \ {0} /\ lo >= 2
    BY <2>1, CpuAssumption DEF Bytes
  <2>5. lo >= 2 => sp_dec2(e, s) = <<hi, (lo - 1) - 1>> /\ Dec(Dec(s)) = <<hi, (lo - 1) - 1>>
    BY <2>1, <2>2, <2>3 DEF sp_dec2
  <2>6. lo >= 3 => sp_dec3(e, s) = Dec(Dec(Dec(s)))
    BY <2>2, <2>4, <2>5 DEF sp_dec3
  <2> QED
    BY <1>2, <2>1, <2>5, <2>6
<1> QED
  BY <1>1, <1>2

(* The pairs that run over it.                                             *)
LEMMA LongPairsReturn ==
    ASSUME NEW st \in Stacks, NEW w \in Words, NEW bank \in Bytes
    PROVE  /\ (st.e => st.s[2] >= 2) =>
                 LET back == pld(phd(st, w))
                 IN back.s = st.s /\ back.val = w
           /\ (st.e => st.s[2] >= 3) =>
                 LET back == rtl(jsl(st, bank, w))
                 IN back.s = st.s /\ back.val = w /\ back.pbr = bank
<1>0. st.e \in BOOLEAN /\ st.s \in Words /\ DOMAIN st.m = Words
  BY DEF Stacks
<1>1. w = <<w[1], w[2]>>
  BY Steps
<1> DEFINE d1 == Dec(st.s)
           d2 == Dec(d1)
           d3 == Dec(d2)
<1>2. /\ d1 \in Words /\ d2 \in Words /\ d3 \in Words
      /\ Inc(d1) = st.s /\ Inc(d2) = d1 /\ Inc(d3) = d2
      /\ d1 # st.s /\ d2 # st.s /\ d2 # d1
  BY <1>0, Steps, Apart
<1>3. sp_inc2(st.e, sp_dec2(st.e, st.s)) = st.s
  BY <1>0, Pointer DEF sp_inc2, sp_dec2
<1>4. sp_inc3(st.e, sp_dec3(st.e, st.s)) = st.s
  <2>1. sp_dec2(st.e, st.s) \in Words
    BY <1>0, Pointer DEF sp_dec2
  <2>2. sp_inc(st.e, sp_dec3(st.e, st.s)) = sp_dec2(st.e, st.s)
    BY <1>0, <2>1, Pointer DEF sp_dec3
  <2>3. sp_inc3(st.e, sp_dec3(st.e, st.s))
          = sp_inc(st.e, sp_inc(st.e, sp_inc(st.e, sp_dec3(st.e, st.s))))
    BY DEF sp_inc3, sp_inc2
  <2>4. sp_inc(st.e, sp_inc(st.e, sp_dec2(st.e, st.s))) = st.s
    BY <1>3 DEF sp_inc2
  <2> QED
    BY <2>2, <2>3, <2>4
<1>5. ASSUME st.e => st.s[2] >= 2
      PROVE  LET back == pld(phd(st, w))
             IN back.s = st.s /\ back.val = w
  <2> DEFINE to == phd(st, w)
  <2>1. sp_dec2(st.e, st.s) = d2
    BY <1>0, <1>5, AwayFromEdge
  <2> HIDE DEF d2
  <2>2. /\ to.e = st.e /\ to.s = sp_dec2(st.e, st.s)
        /\ to.m[st.s] = w[1] /\ to.m[d1] = w[2]
    BY <1>0, <1>2 DEF phd
  <2> HIDE DEF to, d1
  <2>3. pld(to) = [s |-> st.s, val |-> <<w[1], w[2]>>]
    BY <1>2, <1>3, <2>1, <2>2 DEF pld
  <2> QED
    BY <1>1, <2>3 DEF to
<1>6. ASSUME st.e => st.s[2] >= 3
      PROVE  LET back == rtl(jsl(st, bank, w))
             IN back.s = st.s /\ back.val = w /\ back.pbr = bank
  <2> DEFINE to == jsl(st, bank, w)
  <2>1. sp_dec3(st.e, st.s) = d3
    BY <1>0, <1>6, AwayFromEdge
  <2> HIDE DEF d3
  <2>2. /\ to.e = st.e /\ to.s = sp_dec3(st.e, st.s)
        /\ to.m[st.s] = bank /\ to.m[d1] = w[1] /\ to.m[d2] = w[2]
    BY <1>0, <1>2 DEF jsl
  <2> HIDE DEF to, d1, d2
  <2>3. rtl(to) = [s |-> st.s, pbr |-> bank, val |-> <<w[1], w[2]>>]
    BY <1>2, <1>4, <2>1, <2>2 DEF rtl
  <2> QED
    BY <1>1, <2>3 DEF to
<1> QED
  BY <1>5, <1>6
----------------------------------------------------------------------------
(* The modes are inductive with the types.                                 *)
IInv == TypeOK /\ ModesAgree

InPage(s) == s \in Words /\ (emulation => s[1] = 1)

(* Both pushes and pulls keep the stack in page 1 in emulation mode.       *)
LEMMA PageSteps ==
    ASSUME emulation \in BOOLEAN, NEW s, InPage(s)
    PROVE  /\ InPage(sp_dec(emulation, s)) /\ InPage(sp_inc(emulation, s))
           /\ InPage(sp_dec2(emulation, s)) /\ InPage(sp_inc2(emulation, s))
           /\ InPage(sp_dec3(emulation, s)) /\ InPage(sp_inc3(emulation, s))
<1>1. \A t : InPage(t) => InPage(sp_dec(emulation, t)) /\ InPage(sp_inc(emulation, t))
  BY Pointer DEF InPage
<1> QED
  BY <1>1 DEF sp_dec2, sp_inc2, sp_dec3, sp_inc3

(* Results leave the bits of the modes alone.                              *)
LEMMA ResultsKeepModes ==
    ASSUME P \subseteq Flags, NEW bits \in SUBSET {"N", "C"}, Results(bits)
    PROVE  P' \subseteq Flags /\ ("M" \in P' <=> "M" \in P) /\ ("X" \in P' <=> "X" \in P)
  BY DEF Results, Flags

(* Loads keep registers words, and a byte of an index a byte.              *)
LEMMA Loads ==
    ASSUME TypeOK, NEW v \in Words
    PROVE  /\ ToA(v) => A' \in Words
           /\ ToX(v) => X' \in Words /\ (x8 => X'[1] = X[1])
           /\ ToY(v) => Y' \in Words /\ (x8 => Y'[1] = Y[1])
<1>1. \A w \in {A, X, Y} : set16_lo(w, v) \in Words /\ set16_lo(w, v)[1] = w[1]
  BY Steps DEF TypeOK
<1>2. ToA(v) => A' \in Words
  BY <1>1 DEF ToA
<1>3. ToX(v) => X' \in Words /\ (x8 => X'[1] = X[1])
  BY <1>1 DEF ToX
<1>4. ToY(v) => Y' \in Words /\ (x8 => Y'[1] = Y[1])
  BY <1>1 DEF ToY
<1> QED
  BY <1>2, <1>3, <1>4

(* An instruction that leaves the modes alone keeps the invariant when its *)
(* registers are right.                                                    *)
LEMMA SameModes ==
    ASSUME IInv, UNCHANGED emulation,
           P' \subseteq Flags, "M" \in P' <=> "M" \in P, "X" \in P' <=> "X" \in P,
           A' \in Words, X' \in Words, Y' \in Words, InPage(S'),
           x8 => X'[1] = 0 /\ Y'[1] = 0
    PROVE  IInv'
  BY DEF IInv, TypeOK, ModesAgree, InPage, x8

(* One that sets the whole status keeps it when emulation mode keeps M     *)
(* and X set: SetStatus cuts the index registers to the new width.         *)
LEMMA NewStatus ==
    ASSUME IInv, NEW p \in SUBSET Flags, SetStatus(ForcedStatus(emulation, p)),
           UNCHANGED <<emulation, A>>, InPage(S')
    PROVE  IInv'
<1>1. P' = ForcedStatus(emulation, p)
  BY DEF SetStatus
<1>2. P' \subseteq Flags /\ (emulation => {"M", "X"} \subseteq P')
  BY <1>1 DEF ForcedStatus, Flags
<1>3. X' \in Words /\ Y' \in Words /\ ("X" \in P' => X'[1] = 0 /\ Y'[1] = 0)
  BY <1>1, Steps DEF SetStatus, apply_m_x, IInv, TypeOK
<1> QED
  BY <1>2, <1>3 DEF IInv, TypeOK, ModesAgree, InPage, x8
----------------------------------------------------------------------------
(* The instructions that load a register.                                  *)
LEMMA RegisterKeeps ==
    ASSUME IInv, NEW v \in Words, LDX(v) \/ LDY(v) \/ Accumulate(v) \/ WordToA(v)
    PROVE  IInv'
<1>1. TypeOK /\ P \subseteq Flags /\ InPage(S)
  BY DEF IInv, TypeOK, ModesAgree, InPage
<1>2. x8 => X[1] = 0 /\ Y[1] = 0
  BY DEF IInv, ModesAgree
<1>3. CASE LDX(v)
  BY <1>1, <1>2, <1>3, Loads, ResultsKeepModes, SameModes DEF LDX, TypeOK, InPage
<1>4. CASE LDY(v)
  BY <1>1, <1>2, <1>4, Loads, ResultsKeepModes, SameModes DEF LDY, TypeOK, InPage
<1>5. CASE Accumulate(v)
  BY <1>1, <1>2, <1>5, Loads, ResultsKeepModes, SameModes DEF Accumulate, TypeOK, InPage
<1>6. CASE WordToA(v)
  BY <1>1, <1>2, <1>6, ResultsKeepModes, SameModes DEF WordToA, TypeOK, InPage
<1> QED
  BY <1>3, <1>4, <1>5, <1>6

(* The transfers between registers, and the block moves.                   *)
LEMMA TransferKeeps ==
    ASSUME IInv, Transfer
    PROVE  IInv'
<1>1. TypeOK /\ P \subseteq Flags /\ InPage(S) /\ A \in Words /\ X \in Words /\ Y \in Words
      /\ S \in Words
  BY DEF IInv, TypeOK, ModesAgree, InPage
<1>2. x8 => X[1] = 0 /\ Y[1] = 0
  BY DEF IInv, ModesAgree
<1>3. \A w \in Words : Inc(w) \in Words /\ Dec(w) \in Words /\ Low(w) \in Words
                        /\ <<w[2], w[1]>> \in Words
                        /\ \A v \in Words : /\ set16_lo(w, v) \in Words
                                            /\ set16_lo(w, v)[1] = w[1]
  BY Steps
<1>4. CASE INX \/ DEX \/ TAX \/ TYX \/ TSX
  BY <1>1, <1>3, <1>4, RegisterKeeps DEF INX, DEX, TAX, TYX, TSX
<1>5. CASE INY \/ DEY \/ TAY \/ TXY
  BY <1>1, <1>3, <1>5, RegisterKeeps DEF INY, DEY, TAY, TXY
<1>6. CASE TSC \/ XBA
  BY <1>1, <1>3, <1>6, RegisterKeeps DEF TSC, XBA
<1>7. CASE TXA \/ TYA
  <2>1. A' \in Words
    <3>1. PICK w \in {X, Y} : IndexToA(w)
      BY <1>7 DEF TXA, TYA
    <3>2. A' \in {set16_lo(A, w), Low(w), w}
      BY <3>1 DEF IndexToA
    <3>3. set16_lo(A, w) \in Words /\ Low(w) \in Words /\ w \in Words
      BY <1>1, Steps
    <3> QED
      BY <3>2, <3>3
  <2>2. Results({"N"}) /\ UNCHANGED <<emulation, X, Y, S>>
    BY <1>7 DEF TXA, TYA, IndexToA
  <2> QED
    BY <1>1, <1>2, <2>1, <2>2, ResultsKeepModes, SameModes DEF InPage
<1>8. CASE TCS \/ TXS
  <2>1. InPage(S')
    <3>1. PICK w \in {A, X} : /\ emulation => S' = set16_lo(S, w)
                              /\ ~emulation => S' \in {Low(w), w}
      BY <1>8 DEF TCS, TXS, ToS
    <3>2. w \in Words /\ S \in Words
      BY <1>1
    <3>3. set16_lo(S, w) \in Words /\ set16_lo(S, w)[1] = S[1] /\ Low(w) \in Words
      BY <3>2, Steps
    <3> QED
      BY <1>1, <3>1, <3>2, <3>3 DEF InPage
  <2>2. UNCHANGED <<emulation, P, A, X, Y>>
    BY <1>8 DEF TCS, TXS, ToS
  <2> QED
    BY <1>1, <1>2, <2>1, <2>2, SameModes
<1>9. CASE MVN \/ MVP
  <2>1. A' \in Words /\ UNCHANGED <<emulation, P, S>>
    BY <1>1, <1>3, <1>9 DEF MVN, MVP
  <2>2. /\ X' \in Words /\ (x8 => X'[1] = X[1])
        /\ Y' \in Words /\ (x8 => Y'[1] = Y[1])
    BY <1>1, <1>3, <1>9, Loads DEF MVN, MVP
  <2> QED
    BY <1>1, <1>2, <2>1, <2>2, SameModes DEF InPage
<1> QED
  BY <1>4, <1>5, <1>6, <1>7, <1>8, <1>9 DEF Transfer

(* The instructions on the stack.                                          *)
LEMMA StackOpKeeps ==
    ASSUME IInv, StackOp
    PROVE  IInv'
<1>1. TypeOK /\ P \subseteq Flags /\ InPage(S) /\ A \in Words /\ X \in Words /\ Y \in Words
      /\ emulation \in BOOLEAN
  BY DEF IInv, TypeOK, ModesAgree, InPage
<1>2. x8 => X[1] = 0 /\ Y[1] = 0
  BY DEF IInv, ModesAgree
<1>3. \A s : InPage(s) => InPage(sp_dec(emulation, s)) /\ InPage(sp_inc(emulation, s))
                          /\ InPage(sp_dec2(emulation, s)) /\ InPage(sp_inc2(emulation, s))
                          /\ InPage(sp_dec3(emulation, s)) /\ InPage(sp_inc3(emulation, s))
  BY <1>1, PageSteps
<1>4. \A st, b : opc_push_reg_8(st, b).e = st.e /\ opc_push_reg_8(st, b).s = sp_dec(st.e, st.s)
  BY DEF opc_push_reg_8
<1>5. \A st, w : /\ opc_push_reg_16(st, w).e = st.e
                 /\ opc_push_reg_16(st, w).s = sp_dec(st.e, sp_dec(st.e, st.s))
  BY <1>4 DEF opc_push_reg_16
<1>6. Stack.e = emulation /\ Stack.s = S
  BY DEF Stack
<1>7. CASE PHA \/ PHX \/ PHY \/ PHP \/ PHB \/ PHD \/ PEA \/ JSR \/ JSL
  <2>1. CASE PHA \/ PHX \/ PHY
    <3>1. InPage(S')
      BY <1>1, <1>3, <1>4, <1>5, <1>6, <2>1 DEF PHA, PHX, PHY, Push, opc_push_reg_816
    <3>2. UNCHANGED <<emulation, P, A, X, Y>>
      BY <2>1 DEF PHA, PHX, PHY, Push
    <3> QED
      BY <1>1, <1>2, <3>1, <3>2, SameModes
  <2>2. CASE PHP \/ PHB
    <3>1. opc_push_status(Stack, P, FALSE).s = sp_dec(emulation, S)
      BY <1>4, <1>6 DEF opc_push_status
    <3>2. InPage(S')
      BY <1>1, <1>3, <1>4, <1>6, <2>2, <3>1 DEF PHP, PHB, Push
    <3>3. UNCHANGED <<emulation, P, A, X, Y>>
      BY <2>2 DEF PHP, PHB, Push
    <3> QED
      BY <1>1, <1>2, <3>2, <3>3, SameModes
  <2>3. CASE PHD \/ PEA \/ JSR \/ JSL
    <3>1. InPage(S')
      BY <1>1, <1>3, <1>6, <2>3 DEF PHD, PEA, JSR, JSL, Push, phd, pea, opc_push_pc16, jsl
    <3>2. UNCHANGED <<emulation, P, A, X, Y>>
      BY <2>3 DEF PHD, PEA, JSR, JSL, Push
    <3> QED
      BY <1>1, <1>2, <3>1, <3>2, SameModes
  <2> QED
    BY <1>7, <2>1, <2>2, <2>3
<1>8. CASE PLB \/ PLD
  <2>1. InPage(S')
    BY <1>1, <1>3, <1>6, <1>8 DEF PLB, PLD, Pulled, opc_pull_reg_8, pld
  <2>2. Results({"N"}) /\ UNCHANGED <<emulation, A, X, Y>>
    BY <1>8 DEF PLB, PLD
  <2> QED
    BY <1>1, <1>2, <2>1, <2>2, ResultsKeepModes, SameModes
<1>9. CASE RTS \/ RTL
  <2>1. InPage(S')
    BY <1>1, <1>3, <1>6, <1>9 DEF RTS, RTL, rts, rtl
  <2>2. UNCHANGED <<emulation, P, A, X, Y>>
    BY <1>9 DEF RTS, RTL
  <2> QED
    BY <1>1, <1>2, <2>1, <2>2, SameModes
<1>10. CASE BRK \/ IRQ
  <2>1. PICK q \in BOOLEAN : EnterHandler(q)
    BY <1>10 DEF BRK, IRQ
  <2>2. \A st : opc_push_status(st, P, q).s = sp_dec(st.e, st.s)
    BY <1>4 DEF opc_push_status
  <2>3. InPage(irq_brk_setup(Stack, 0, Zero, P, q).s)
    BY <1>1, <1>3, <1>4, <1>5, <1>6, <2>2 DEF irq_brk_setup
  <2>4. /\ InPage(S') /\ UNCHANGED <<emulation, A, X, Y>>
        /\ P' = HandlerStatus(P)
    BY <2>1, <2>3 DEF EnterHandler
  <2>5. P' \subseteq Flags /\ ("M" \in P' <=> "M" \in P) /\ ("X" \in P' <=> "X" \in P)
    BY <1>1, <2>4 DEF HandlerStatus, Flags
  <2> QED
    BY <1>1, <1>2, <2>4, <2>5, SameModes
<1> QED
  BY <1>7, <1>8, <1>9, <1>10 DEF StackOp
(* The instructions that set the status or the mode, and the reset.        *)
LEMMA ModeKeeps ==
    ASSUME IInv, NEW p \in SUBSET Flags, Mode(p)
    PROVE  IInv'
<1>1. P \subseteq Flags /\ InPage(S) /\ emulation \in BOOLEAN
  BY DEF IInv, TypeOK, ModesAgree, InPage
<1>2. Stack.e = emulation /\ Stack.s = S
  BY DEF Stack
<1>3. \A s : InPage(s) => InPage(sp_inc(emulation, s))
  BY <1>1, PageSteps
<1>4. CASE REP(p) \/ SEP(p)
  <2>1. P \ p \in SUBSET Flags /\ P \union p \in SUBSET Flags
    BY <1>1
  <2>2. CASE REP(p)
    BY <1>1, <2>1, <2>2, NewStatus DEF REP, InPage
  <2>3. CASE SEP(p)
    BY <1>1, <2>1, <2>3, NewStatus DEF SEP, InPage
  <2> QED
    BY <1>4, <2>2, <2>3
<1>5. CASE PLP(p)
  <2>1. InPage(S')
    BY <1>1, <1>2, <1>3, <1>5 DEF PLP, Pulled, opc_pull_reg_8
  <2> QED
    BY <1>5, <2>1, NewStatus DEF PLP
<1>6. CASE RTI(p)
  <2> DEFINE one   == sp_inc(emulation, S)
             three == sp_inc(emulation, sp_inc(emulation, one))
  <2>1. opc_pull_status(Stack).s = one
    BY <1>2 DEF opc_pull_status, opc_pull_reg_8
  <2>2. \A st, s : [st EXCEPT !.s = s].e = st.e
    OBVIOUS
  <2>3. \A s : /\ [Stack EXCEPT !.s = s].e = emulation
               /\ [Stack EXCEPT !.s = s].s = s
    BY DEF Stack
  <2>4. irq_brk_return(Stack).s \in {three, sp_inc(emulation, three)}
    BY <1>2, <2>1, <2>3 DEF irq_brk_return, opc_pull_reg_16, opc_pull_reg_8
  <2>5. InPage(three) /\ InPage(sp_inc(emulation, three))
    BY <1>1, <1>3
  <2>6. InPage(S')
    BY <1>6, <2>4, <2>5 DEF RTI
  <2> QED
    BY <1>6, <2>6, NewStatus DEF RTI
<1> QED
  BY <1>4, <1>5, <1>6 DEF Mode

(* XCE enters emulation mode with bytes and a stack in page 1, and leaves  *)
(* it with bytes still.                                                    *)
LEMMA XCEKeeps ==
    ASSUME IInv, XCE
    PROVE  IInv'
<1> DEFINE carried == "C" \in P
           swapped(p) == IF emulation THEN p \union {"C"} ELSE p \ {"C"}
<1>0. TypeOK /\ ModesAgree /\ A' = A /\ emulation' = carried /\ carried \in BOOLEAN
  BY DEF IInv, XCE
<1>1. CASE carried = emulation
  <2>1. P' = swapped(P) /\ UNCHANGED <<emulation, X, Y, S>>
    BY <1>1 DEF XCE
  <2>2. P' \subseteq Flags /\ ("M" \in P' <=> "M" \in P) /\ ("X" \in P' <=> "X" \in P)
    BY <1>0, <2>1 DEF TypeOK, Flags
  <2> QED
    BY <1>0, <2>1, <2>2, SameModes DEF IInv, TypeOK, ModesAgree, InPage
<1>2. CASE carried # emulation
  <2>1. /\ SetStatus(swapped(P \union {"M", "X"}))
        /\ S' = IF emulation THEN S ELSE <<1, S[2]>>
    BY <1>2 DEF XCE
  <2>2. P' \subseteq Flags /\ {"M", "X"} \subseteq P'
    BY <1>0, <2>1 DEF SetStatus, TypeOK, Flags
  <2>3. X' \in Words /\ Y' \in Words /\ X'[1] = 0 /\ Y'[1] = 0
    <3>1. "X" \in swapped(P \union {"M", "X"})
      OBVIOUS
    <3>2. X' = Low(X) /\ Y' = Low(Y)
      BY <2>1, <3>1 DEF SetStatus, apply_m_x
    <3> QED
      BY <1>0, <3>2, Steps DEF TypeOK
  <2>4. emulation' => ~emulation
    BY <1>0, <1>2
  <2>5. S' \in Words /\ (emulation' => S'[1] = 1)
    <3>1. <<1, S[2]>> \in Words /\ S \in Words
      BY <1>0, CpuAssumption, Steps DEF TypeOK, Words, Bytes
    <3> QED
      BY <2>1, <2>4, <3>1
  <2> QED
    BY <1>0, <2>2, <2>3, <2>5 DEF IInv, TypeOK, ModesAgree, x8
<1> QED
  BY <1>1, <1>2

(* The reset leaves emulation mode with bytes and a stack in page 1.       *)
LEMMA ResetKeeps ==
    ASSUME IInv, Reset
    PROVE  IInv'
<1>1. TypeOK
  BY DEF IInv
<1>2. P' \subseteq Flags /\ {"M", "X"} \subseteq P' /\ emulation' = TRUE /\ A' = A
  BY <1>1 DEF Reset, TypeOK, Flags
<1>3. X' \in Words /\ Y' \in Words /\ X'[1] = 0 /\ Y'[1] = 0
  BY <1>1, Steps DEF Reset, TypeOK
<1>4. S' \in Words /\ S'[1] = 1
  <2>1. <<1, S[2]>> \in Words
    BY <1>1, CpuAssumption, Steps DEF TypeOK, Words, Bytes
  <2>2. \A s \in Words : sp_dec(TRUE, s) \in Words /\ sp_dec(TRUE, s)[1] = s[1]
    BY Pointer
  <2> QED
    BY <2>1, <2>2 DEF Reset, sp_dec3, sp_dec2
<1> QED
  BY <1>1, <1>2, <1>3, <1>4 DEF IInv, TypeOK, ModesAgree, x8
----------------------------------------------------------------------------
(* The modes agree, and the registers have their types, whatever the       *)
(* guest runs: cpu_execute of emulator.c, its interrupts and its reset.    *)
THEOREM Invariant == Spec => []IInv
<1>1. Init => IInv
  <2>1. <<1, 0>> \in Words /\ Zero \in Words
    BY CpuAssumption DEF Words, Bytes, Zero
  <2>2. \A s \in Words : sp_dec(TRUE, s) \in Words /\ sp_dec(TRUE, s)[1] = s[1]
    BY Pointer
  <2>3. sp_dec3(TRUE, <<1, 0>>) \in Words /\ sp_dec3(TRUE, <<1, 0>>)[1] = 1
    BY <2>1, <2>2 DEF sp_dec3, sp_dec2
  <2>4. Init => TypeOK
    BY <2>1, <2>3 DEF Init, TypeOK, Flags
  <2>5. Init => ModesAgree
    <3>1. Init => {"M", "X"} \subseteq P
      BY DEF Init
    <3>2. Init => S[1] = 1
      BY <2>3 DEF Init
    <3>3. Init => X[1] = 0 /\ Y[1] = 0
      BY DEF Init, Zero
    <3> QED
      BY <3>1, <3>2, <3>3 DEF ModesAgree
  <2> QED
    BY <2>4, <2>5 DEF IInv
<1>2. IInv /\ [Next]_vars => IInv'
  <2> SUFFICES ASSUME IInv, [Next]_vars PROVE IInv'
    OBVIOUS
  <2>0. TypeOK /\ P \subseteq Flags /\ InPage(S)
    BY DEF IInv, TypeOK, ModesAgree, InPage
  <2>1. ASSUME NEW v \in Operands, Register(v) PROVE IInv'
    <3>0. v \in Words
      BY CpuAssumption
    <3>1. CASE Accumulate(v) \/ LDX(v) \/ LDY(v) \/ TDC(v)
      BY <3>0, <3>1, RegisterKeeps DEF TDC
    <3>2. CASE PLA(v) \/ PLX(v) \/ PLY(v)
      <4>1. Stack.e = emulation /\ Stack.s = S /\ emulation \in BOOLEAN
        BY <2>0 DEF Stack, TypeOK
      <4>2. \A s : InPage(s) => InPage(sp_inc(emulation, s))
        BY <4>1, PageSteps
      <4>3. (Pulled(m8) => InPage(S')) /\ (Pulled(x8) => InPage(S'))
        BY <2>0, <4>1, <4>2 DEF Pulled, opc_pull_reg_8, opc_pull_reg_16
      <4>4. Results({"N"}) /\ UNCHANGED emulation /\ InPage(S')
        BY <3>2, <4>3 DEF PLA, PLX, PLY
      <4>5. /\ A' \in Words
            /\ X' \in Words /\ (x8 => X'[1] = X[1])
            /\ Y' \in Words /\ (x8 => Y'[1] = Y[1])
        BY <2>0, <3>0, <3>2, Loads DEF PLA, PLX, PLY, TypeOK
      <4> QED
        BY <2>0, <4>4, <4>5, ResultsKeepModes, SameModes DEF IInv, ModesAgree
    <3> QED
      BY <2>1, <3>1, <3>2 DEF Register
  <2>2. ASSUME NEW p \in Statuses, Mode(p) PROVE IInv'
    BY <2>2, CpuAssumption, ModeKeeps
  <2>3. ASSUME NEW bit \in {"C", "D", "I"}, SetOrClear(bit) PROVE IInv'
    <3>1. P' \subseteq Flags /\ ("M" \in P' <=> "M" \in P) /\ ("X" \in P' <=> "X" \in P)
      BY <2>0, <2>3 DEF SetOrClear, Flags
    <3> QED
      BY <2>0, <2>3, <3>1, SameModes DEF SetOrClear, IInv, TypeOK, ModesAgree, InPage
  <2>4. CASE Test
    BY <2>0, <2>4, ResultsKeepModes, SameModes DEF Test, IInv, TypeOK, ModesAgree, InPage
  <2>5. CASE Transfer
    BY <2>5, TransferKeeps
  <2>6. CASE StackOp
    BY <2>6, StackOpKeeps
  <2>7. CASE XCE
    BY <2>7, XCEKeeps
  <2>8. CASE Reset
    BY <2>8, ResetKeeps
  <2>9. CASE UNCHANGED vars
    BY <2>9 DEF vars, IInv, TypeOK, ModesAgree, x8
  <2> QED
    BY <2>1, <2>2, <2>3, <2>4, <2>5, <2>6, <2>7, <2>8, <2>9 DEF Next
<1> QED
  BY <1>1, <1>2, PTL DEF Spec

(* The registers are words, and the status a set of flags.                 *)
THEOREM TypeCorrect == Spec => []TypeOK
<1>1. IInv => TypeOK
  BY DEF IInv
<1> QED
  BY <1>1, Invariant, PTL

(* Emulation mode means bytes and a stack in page 1, and an index register *)
(* of a byte has no high byte, through every REP, SEP, PLP, RTI, XCE,      *)
(* interrupt and reset.                                                    *)
THEOREM ModesAlwaysAgree == Spec => []ModesAgree
<1>1. IInv => ModesAgree
  BY DEF IInv
<1> QED
  BY <1>1, Invariant, PTL

(* Whatever the guest has done before, a pull undoes the push it answers,  *)
(* and RTI the interrupt, BRK or COP: opc_push_... and opc_pull_... of     *)
(* clem_code.h, and irq_brk_setup and irq_brk_return.                      *)
THEOREM StackUndoes == Spec => []PullsUndoPushes
<1>1. IInv => PullsUndoPushes
  <2> SUFFICES ASSUME IInv, NEW w \in Operands
               PROVE  /\ PairsUndo(w) /\ LongPairsUndo(w)
                      /\ InterruptUndoes(w, TRUE) /\ InterruptUndoes(w, FALSE)
    BY DEF PullsUndoPushes
  <2>1. w \in Words /\ w[1] \in Bytes
    BY CpuAssumption, Steps
  <2>2. Stack \in Stacks /\ Stack.e = emulation /\ Stack.s = S
    <3>1. Blank \in [Words -> Cells]
      BY CpuAssumption DEF Blank, Cells, Bytes
    <3>2. emulation \in BOOLEAN /\ S \in Words
      BY DEF IInv, TypeOK
    <3> QED
      BY <3>1, <3>2 DEF Stack, Stacks
  <2>3. P \in SUBSET Flags /\ (Stack.e => {"M", "X"} \subseteq P)
    BY <2>2 DEF IInv, TypeOK, ModesAgree
  <2>4. PairsUndo(w)
    BY <2>1, <2>2, <2>3, PairsReturn DEF PairsUndo
  <2>5. LongPairsUndo(w)
    BY <2>1, <2>2, LongPairsReturn DEF LongPairsUndo
  <2>6. InterruptUndoes(w, TRUE)
    <3> DEFINE entered == irq_brk_setup(Stack, w[1], w, P, TRUE)
               back    == irq_brk_return(entered)
    <3>1. /\ back.s = Stack.s /\ back.P = P /\ back.pc = w
          /\ ~Stack.e => back.pbr = w[1]
          /\ Stack.e => (("X" \in opc_pull_reg_8(entered).val) <=> ~TRUE)
      BY <2>1, <2>2, <2>3, HandlerReturns
    <3> HIDE DEF entered, back
    <3>2. /\ back.s = S /\ back.P = P /\ back.pc = w
          /\ ~emulation => back.pbr = w[1]
          /\ emulation => (("X" \in opc_pull_reg_8(entered).val) <=> ~TRUE)
      BY <2>2, <3>1
    <3> QED
      BY <3>2 DEF InterruptUndoes, entered, back
  <2>7. InterruptUndoes(w, FALSE)
    <3> DEFINE entered == irq_brk_setup(Stack, w[1], w, P, FALSE)
               back    == irq_brk_return(entered)
    <3>1. /\ back.s = Stack.s /\ back.P = P /\ back.pc = w
          /\ ~Stack.e => back.pbr = w[1]
          /\ Stack.e => (("X" \in opc_pull_reg_8(entered).val) <=> ~FALSE)
      BY <2>1, <2>2, <2>3, HandlerReturns
    <3> HIDE DEF entered, back
    <3>2. /\ back.s = S /\ back.P = P /\ back.pc = w
          /\ ~emulation => back.pbr = w[1]
          /\ emulation => (("X" \in opc_pull_reg_8(entered).val) <=> ~FALSE)
      BY <2>2, <3>1
    <3> QED
      BY <3>2 DEF InterruptUndoes, entered, back
  <2> QED
    BY <2>4, <2>5, <2>6, <2>7
<1> QED
  BY <1>1, Invariant, PTL
-----------------------------------------------------------------------------
(* Arithmetic.  A size is twice its half, and what the adders wrap is less *)
(* than two sizes, so that each remainder is a subtraction.                *)
LEMMA Remainders ==
    \A n \in Int, s \in Nat \ {0} :
        /\ n \in 0 .. s - 1 => n % s = n
        /\ n \in s .. 2 * s - 1 => n % s = n - s
        /\ n \in -s .. -1 => n % s = n + s
OBVIOUS

LEMMA Quotients ==
    \A n \in Int, s \in Nat \ {0} :
        n = (n \div s) * s + (n % s) /\ n % s \in 0 .. s - 1 /\ n \div s \in Int
OBVIOUS

LEMMA OneQuotient ==
    \A n, q, r \in Int, s \in Nat \ {0} :
        n = q * s + r /\ r \in 0 .. s - 1 => n \div s = q /\ n % s = r
OBVIOUS

LEMMA Halved == \A h \in Nat : (2 * h) \div 2 = h
OBVIOUS

LEMMA FlagPut ==
    \A Q, f, g : \A set \in BOOLEAN :
        g \in Alu!Put(Q, f, set) <=> IF g = f THEN set ELSE g \in Q
BY DEF Alu!Put

LEMMA CarryIs == \A Q : Alu!Carry(Q) \in 0 .. 1 /\ (Alu!Carry(Q) = 1 <=> "C" \in Q)
BY DEF Alu!Carry

(* A size and its half, and a number below it.                             *)
Halves(s, h) == h \in Nat \ {0} /\ s = 2 * h

LEMMA SignIs ==
    ASSUME NEW s, NEW h, Halves(s, h), NEW n \in Int
    PROVE  Alu!Negative(n, s) <=> n % s >= h
BY Halved DEF Halves, Alu!Negative

LEMMA NZIs ==
    ASSUME NEW Q, NEW s, NEW h, Halves(s, h), NEW n \in Int
    PROVE  LET F == Alu!flags_n_z(Q, n, s) IN
           /\ "N" \in F <=> n % s >= h
           /\ "Z" \in F <=> n % s = 0
           /\ \A f : f \notin {"N", "Z"} => (f \in F <=> f \in Q)
<1> DEFINE neg == Alu!Negative(n, s)
           zero == n % s = 0
           G == Alu!Put(Q, "N", neg)
           F == Alu!Put(G, "Z", zero)
<1>1. neg \in BOOLEAN /\ zero \in BOOLEAN /\ (neg <=> n % s >= h)
  <2>1. neg \in BOOLEAN /\ zero \in BOOLEAN
    BY DEF Alu!Negative
  <2>2. neg <=> n % s >= h
    BY SignIs
  <2> QED
    BY <2>1, <2>2
<1>2. F = Alu!flags_n_z(Q, n, s)
  BY DEF Alu!flags_n_z
<1> HIDE DEF neg
<1>3. \A f : f \in G <=> IF f = "N" THEN neg ELSE f \in Q
  BY <1>1, FlagPut
<1> HIDE DEF zero, G
<1>4. \A f : f \in F <=> IF f = "Z" THEN zero ELSE f \in G
  BY <1>1, FlagPut
<1> HIDE DEF F
<1>5. /\ "N" \in F <=> neg
      /\ "Z" \in F <=> zero
      /\ \A f : f \notin {"N", "Z"} => (f \in F <=> f \in Q)
  BY <1>3, <1>4
<1> QED
  BY <1>1, <1>2, <1>5 DEF zero

(* The binary adder, without remainders.                                   *)
Wrap(n, s) == IF n >= s THEN n - s ELSE n

LEMMA WrapIs ==
    ASSUME NEW s \in Nat \ {0}, NEW n \in 0 .. 2 * s - 1
    PROVE  n % s = Wrap(n, s) /\ Wrap(n, s) \in 0 .. s - 1
<1>1. CASE n >= s
  <2>1. n \in s .. 2 * s - 1 /\ n \in Int
    BY <1>1
  <2>2. n % s = n - s
    BY <2>1, Remainders
  <2> QED
    BY <1>1, <2>1, <2>2 DEF Wrap
<1>2. CASE ~(n >= s)
  <2>1. n \in 0 .. s - 1 /\ n \in Int
    BY <1>2
  <2>2. n % s = n
    BY <2>1, Remainders
  <2> QED
    BY <1>2, <2>1, <2>2 DEF Wrap
<1> QED
  BY <1>1, <1>2

Added(a, v, Q, s, h) ==
    LET sum == a + v + Alu!Carry(Q)
        w   == Wrap(sum, s)
        r   == Alu!cpu_adc(a, v, Q, s)
    IN /\ r.val = w /\ w \in 0 .. s - 1
       /\ "C" \in r.P <=> sum >= s
       /\ "N" \in r.P <=> w >= h
       /\ "Z" \in r.P <=> w = 0
       /\ "V" \in r.P <=> ~(a >= h <=> w >= h) /\ ~(v >= h <=> w >= h)
       /\ \A f : f \notin {"N", "Z", "V", "C"} => (f \in r.P <=> f \in Q)

LEMMA AdcIs ==
    ASSUME NEW s, NEW h, Halves(s, h), NEW a \in 0 .. s - 1, NEW v \in 0 .. s - 1, NEW Q
    PROVE  Added(a, v, Q, s, h)
<1> DEFINE sum == a + v + Alu!Carry(Q)
           w == Wrap(sum, s)
           F == Alu!flags_n_z(Q, sum, s)
           overflow == /\ Alu!Negative(a, s) # Alu!Negative(sum, s)
                       /\ Alu!Negative(v, s) # Alu!Negative(sum, s)
           G == Alu!Put(F, "V", overflow)
           H == Alu!Put(G, "C", sum >= s)
           r == Alu!cpu_adc(a, v, Q, s)
<1>1. s \in Nat \ {0} /\ a \in Int /\ v \in Int /\ sum \in 0 .. 2 * s - 1
  BY CarryIs DEF Halves
<1>2. r.val = sum % s /\ r.P = H
  BY DEF Alu!cpu_adc
<1> HIDE DEF sum, r
<1>3. sum % s = w /\ w \in 0 .. s - 1 /\ sum \in Int
  BY <1>1, WrapIs
<1> HIDE DEF w
<1>4. a % s = a /\ v % s = v
  BY <1>1, Remainders
<1>5. overflow <=> ~(a >= h <=> w >= h) /\ ~(v >= h <=> w >= h)
  <2>1. /\ Alu!Negative(a, s) <=> a >= h
        /\ Alu!Negative(v, s) <=> v >= h
        /\ Alu!Negative(sum, s) <=> w >= h
    BY <1>1, <1>3, <1>4, SignIs
  <2>2. /\ Alu!Negative(a, s) \in BOOLEAN /\ Alu!Negative(v, s) \in BOOLEAN
        /\ Alu!Negative(sum, s) \in BOOLEAN
    BY DEF Alu!Negative
  <2> QED
    BY <2>1, <2>2
<1>6. /\ "N" \in F <=> w >= h
      /\ "Z" \in F <=> w = 0
      /\ \A f : f \notin {"N", "Z"} => (f \in F <=> f \in Q)
  BY <1>3, NZIs
<1> HIDE DEF F
<1>7. overflow \in BOOLEAN /\ (sum >= s) \in BOOLEAN
  BY <1>3
<1> HIDE DEF overflow
<1>8. \A f : f \in G <=> IF f = "V" THEN overflow ELSE f \in F
  BY <1>7, FlagPut
<1> HIDE DEF G
<1>9. \A f : f \in H <=> IF f = "C" THEN sum >= s ELSE f \in G
  BY <1>7, FlagPut
<1> HIDE DEF H
<1>10. /\ "C" \in H <=> sum >= s
       /\ "N" \in H <=> w >= h
       /\ "Z" \in H <=> w = 0
       /\ "V" \in H <=> overflow
       /\ \A f : f \notin {"N", "Z", "V", "C"} => (f \in H <=> f \in Q)
  BY <1>6, <1>8, <1>9
<1> QED
  BY <1>2, <1>3, <1>5, <1>10 DEF sum, w, r, Added

LEMMA CmpIs ==
    ASSUME NEW s, NEW h, Halves(s, h), NEW a \in 0 .. s - 1, NEW v \in 0 .. s - 1, NEW Q
    PROVE  LET d == IF a >= v THEN a - v ELSE a - v + s
               F == Alu!cpu_cmp(a, v, Q, s)
           IN /\ "C" \in F <=> a >= v
              /\ "N" \in F <=> d >= h
              /\ "Z" \in F <=> d = 0
              /\ \A f : f \notin {"N", "Z", "C"} => (f \in F <=> f \in Q)
<1> DEFINE d == IF a >= v THEN a - v ELSE a - v + s
           ge == a >= v
           G == Alu!Put(Q, "C", ge)
           F == Alu!flags_n_z(G, a - v, s)
<1>1. s \in Nat \ {0} /\ a - v \in Int /\ (a - v) % s = d /\ ge \in BOOLEAN
  <2>1. s \in Nat \ {0} /\ a - v \in Int /\ ge \in BOOLEAN
    BY DEF Halves
  <2>2. IF a >= v THEN a - v \in 0 .. s - 1 ELSE a - v \in -s .. -1
    BY <2>1
  <2> QED
    BY <2>1, <2>2, Remainders
<1> HIDE DEF ge
<1>2. \A f : f \in G <=> IF f = "C" THEN ge ELSE f \in Q
  BY <1>1, FlagPut
<1> HIDE DEF G
<1>3. /\ "N" \in F <=> (a - v) % s >= h
      /\ "Z" \in F <=> (a - v) % s = 0
      /\ \A f : f \notin {"N", "Z"} => (f \in F <=> f \in G)
  BY <1>1, NZIs
<1>4. F = Alu!cpu_cmp(a, v, Q, s)
  BY DEF Alu!cpu_cmp, G, ge
<1> HIDE DEF F
<1>5. /\ "C" \in F <=> ge
      /\ \A f : f \notin {"N", "Z", "C"} => (f \in F <=> f \in Q)
  BY <1>2, <1>3
<1> QED
  BY <1>1, <1>3, <1>4, <1>5 DEF ge

(* Shifts, rotates and steps by one, without remainders.                   *)
LEMMA ShiftedIs ==
    ASSUME NEW s, NEW h, Halves(s, h), NEW n \in 0 .. 2 * s - 1, NEW out \in BOOLEAN, NEW Q
    PROVE  LET r == Alu!Shifted(Q, n, out, s) IN
           /\ r.val = Wrap(n, s) /\ r.val \in 0 .. s - 1
           /\ "C" \in r.P <=> out
           /\ Alu!Carry(r.P) = IF out THEN 1 ELSE 0
<1> DEFINE G == Alu!Put(Q, "C", out)
           F == Alu!flags_n_z(G, n, s)
           r == Alu!Shifted(Q, n, out, s)
<1>1. r.val = n % s /\ r.P = F
  BY DEF Alu!Shifted
<1> HIDE DEF r
<1>2. s \in Nat \ {0} /\ n \in Int
  BY DEF Halves
<1>3. n % s = Wrap(n, s) /\ Wrap(n, s) \in 0 .. s - 1
  BY <1>2, WrapIs
<1>4. \A f : f \in G <=> IF f = "C" THEN out ELSE f \in Q
  BY FlagPut
<1> HIDE DEF G
<1>5. \A f : f \notin {"N", "Z"} => (f \in F <=> f \in G)
  BY <1>2, NZIs
<1> HIDE DEF F
<1>6. "C" \in F <=> out
  BY <1>4, <1>5
<1> QED
  BY <1>1, <1>3, <1>6 DEF r, Alu!Carry

LEMMA AslIs ==
    ASSUME NEW s, NEW h, Halves(s, h), NEW v \in 0 .. s - 1, NEW Q
    PROVE  LET r == Alu!cpu_asl(v, Q, s) IN
           /\ r.val = Wrap(2 * v, s) /\ r.val \in 0 .. s - 1
           /\ Alu!Carry(r.P) = IF v >= h THEN 1 ELSE 0
<1>1. s \in Nat \ {0} /\ v \in Int /\ 2 * v \in 0 .. 2 * s - 1 /\ v % s = v
  BY Remainders DEF Halves
<1>2. Alu!Negative(v, s) \in BOOLEAN /\ (Alu!Negative(v, s) <=> v >= h)
  <2>1. Alu!Negative(v, s) <=> v >= h
    BY <1>1, SignIs
  <2> QED
    BY <2>1 DEF Alu!Negative
<1> QED
  BY <1>1, <1>2, ShiftedIs DEF Alu!cpu_asl

LEMMA RolIs ==
    ASSUME NEW s, NEW h, Halves(s, h), NEW v \in 0 .. s - 1, NEW Q
    PROVE  LET r == Alu!cpu_rol(v, Q, s) IN
           /\ r.val = Wrap(2 * v + Alu!Carry(Q), s) /\ r.val \in 0 .. s - 1
           /\ Alu!Carry(r.P) = IF v >= h THEN 1 ELSE 0
<1>1. /\ s \in Nat \ {0} /\ v \in Int /\ 2 * v + Alu!Carry(Q) \in 0 .. 2 * s - 1
      /\ v % s = v
  <2>1. s \in Nat \ {0} /\ v \in Int
    BY DEF Halves
  <2>2. v % s = v
    BY <2>1, Remainders
  <2>3. Alu!Carry(Q) \in 0 .. 1
    BY CarryIs
  <2> QED
    BY <2>1, <2>2, <2>3
<1>2. Alu!Negative(v, s) \in BOOLEAN /\ (Alu!Negative(v, s) <=> v >= h)
  <2>1. Alu!Negative(v, s) <=> v >= h
    BY <1>1, SignIs
  <2> QED
    BY <2>1 DEF Alu!Negative
<1> QED
  BY <1>1, <1>2, ShiftedIs DEF Alu!cpu_rol

LEMMA LsrIs ==
    ASSUME NEW s, NEW h, Halves(s, h), NEW v \in 0 .. s - 1, NEW Q
    PROVE  LET r == Alu!cpu_lsr(v, Q, s) IN
           /\ r.val = v \div 2 /\ r.val \in 0 .. h - 1
           /\ Alu!Carry(r.P) = v % 2
<1>1. /\ s \in Nat \ {0} /\ v \div 2 \in 0 .. h - 1 /\ v \div 2 \in 0 .. 2 * s - 1
      /\ v % 2 \in {0, 1}
  BY DEF Halves
<1>2. Wrap(v \div 2, s) = v \div 2
  BY <1>1 DEF Wrap, Halves
<1>3. (v % 2 = 1) \in BOOLEAN
  OBVIOUS
<1> DEFINE n == v \div 2
           out == v % 2 = 1
<1>4. n \in 0 .. 2 * s - 1 /\ out \in BOOLEAN /\ Alu!cpu_lsr(v, Q, s) = Alu!Shifted(Q, n, out, s)
  BY <1>1, <1>3 DEF Alu!cpu_lsr
<1> HIDE DEF n, out
<1>5. LET r == Alu!Shifted(Q, n, out, s) IN
      r.val = Wrap(n, s) /\ Alu!Carry(r.P) = IF out THEN 1 ELSE 0
  BY <1>4, ShiftedIs
<1> QED
  BY <1>1, <1>2, <1>4, <1>5 DEF n, out

Rotated(v, c, h) == IF c = 1 THEN v \div 2 + h ELSE v \div 2

RotatedRight(v, Q, s, h) ==
    LET r == Alu!cpu_ror(v, Q, s)
        n == Rotated(v, Alu!Carry(Q), h)
    IN /\ r.val = n /\ n \in 0 .. s - 1
       /\ Alu!Carry(r.P) = v % 2

LEMMA RorIs ==
    ASSUME NEW s, NEW h, Halves(s, h), NEW v \in 0 .. s - 1, NEW Q
    PROVE  RotatedRight(v, Q, s, h)
<1> DEFINE c == Alu!Carry(Q)
           n == Rotated(v, c, h)
<1>1. /\ s \in Nat \ {0} /\ v \div 2 \in 0 .. h - 1 /\ h \in Nat
      /\ v % 2 \in {0, 1} /\ s \div 2 = h
  BY Halved DEF Halves
<1>2. c \in 0 .. 1
  BY CarryIs
<1>3. v \div 2 + c * (s \div 2) = n /\ n \in 0 .. s - 1 /\ n \in 0 .. 2 * s - 1
  BY <1>1, <1>2 DEF Halves, Rotated
<1>4. Wrap(n, s) = n
  BY <1>1, <1>3 DEF Wrap
<1> DEFINE out == v % 2 = 1
<1>5. out \in BOOLEAN /\ Alu!cpu_ror(v, Q, s) = Alu!Shifted(Q, n, out, s)
  BY <1>3 DEF Alu!cpu_ror
<1> HIDE DEF n, out
<1>6. LET r == Alu!Shifted(Q, n, out, s) IN
      r.val = Wrap(n, s) /\ Alu!Carry(r.P) = IF out THEN 1 ELSE 0
  BY <1>3, <1>5, ShiftedIs
<1>7. Alu!cpu_ror(v, Q, s).val = n /\ Alu!Carry(Alu!cpu_ror(v, Q, s).P) = v % 2
  BY <1>1, <1>4, <1>5, <1>6 DEF out
<1> QED
  BY <1>3, <1>7 DEF n, RotatedRight

LEMMA IncIs ==
    ASSUME NEW s, NEW h, Halves(s, h), NEW v \in 0 .. s - 1, NEW Q
    PROVE  LET w == Wrap(v + 1, s)
               r == Alu!cpu_inc(v, Q, s)
           IN /\ r.val = w /\ w \in 0 .. s - 1
              /\ "N" \in r.P <=> w >= h
              /\ "Z" \in r.P <=> w = 0
              /\ \A f : f \notin {"N", "Z"} => (f \in r.P <=> f \in Q)
<1>1. s \in Nat \ {0} /\ v + 1 \in Int /\ v + 1 \in 0 .. 2 * s - 1
  BY DEF Halves
<1>2. (v + 1) % s = Wrap(v + 1, s) /\ Wrap(v + 1, s) \in 0 .. s - 1
  BY <1>1, WrapIs
<1> DEFINE w == Wrap(v + 1, s)
           r == Alu!cpu_inc(v, Q, s)
<1> DEFINE n == v + 1
<1>3. r.val = n % s /\ r.P = Alu!flags_n_z(Q, n, s)
  BY DEF Alu!cpu_inc
<1>4. n \in Int /\ n % s = w /\ w \in 0 .. s - 1
  BY <1>1, <1>2
<1> HIDE DEF r, n, w
<1>5. LET F == Alu!flags_n_z(Q, n, s) IN
      /\ "N" \in F <=> n % s >= h
      /\ "Z" \in F <=> n % s = 0
      /\ \A f : f \notin {"N", "Z"} => (f \in F <=> f \in Q)
  BY <1>4, NZIs
<1>6. /\ r.val = w /\ w \in 0 .. s - 1
      /\ "N" \in r.P <=> w >= h
      /\ "Z" \in r.P <=> w = 0
      /\ \A f : f \notin {"N", "Z"} => (f \in r.P <=> f \in Q)
  BY <1>3, <1>4, <1>5
<1> QED
  BY <1>6 DEF r, w

LEMMA DecIs ==
    ASSUME NEW s, NEW h, Halves(s, h), NEW v \in 0 .. s - 1, NEW Q
    PROVE  LET w == IF v = 0 THEN s - 1 ELSE v - 1
               r == Alu!cpu_dec(v, Q, s)
           IN /\ r.val = w /\ w \in 0 .. s - 1
              /\ "N" \in r.P <=> w >= h
              /\ "Z" \in r.P <=> w = 0
              /\ \A f : f \notin {"N", "Z"} => (f \in r.P <=> f \in Q)
<1> DEFINE w == IF v = 0 THEN s - 1 ELSE v - 1
           r == Alu!cpu_dec(v, Q, s)
<1>1. s \in Nat \ {0} /\ v - 1 \in Int
  BY DEF Halves
<1>2. (v - 1) % s = w /\ w \in 0 .. s - 1
  <2>1. IF v = 0 THEN v - 1 \in -s .. -1 ELSE v - 1 \in 0 .. s - 1
    BY <1>1
  <2> QED
    BY <1>1, <2>1, Remainders
<1> DEFINE n == v - 1
<1>3. r.val = n % s /\ r.P = Alu!flags_n_z(Q, n, s)
  BY DEF Alu!cpu_dec
<1>4. n \in Int /\ n % s = w /\ w \in 0 .. s - 1
  BY <1>1, <1>2
<1> HIDE DEF r, n, w
<1>5. LET F == Alu!flags_n_z(Q, n, s) IN
      /\ "N" \in F <=> n % s >= h
      /\ "Z" \in F <=> n % s = 0
      /\ \A f : f \notin {"N", "Z"} => (f \in F <=> f \in Q)
  BY <1>4, NZIs
<1>6. /\ r.val = w /\ w \in 0 .. s - 1
      /\ "N" \in r.P <=> w >= h
      /\ "Z" \in r.P <=> w = 0
      /\ \A f : f \notin {"N", "Z"} => (f \in r.P <=> f \in Q)
  BY <1>3, <1>4, <1>5
<1> QED
  BY <1>6 DEF r, w
-----------------------------------------------------------------------------
(* The parts of BinaryIsArithmetic, of which all but PiecesMakeWholes and  *)
(* the second half of RotatesUndo hold at any size.                        *)
RotatesReturn(a, Q, s) ==
    LET left  == Alu!cpu_rol(a, Q, s)
        right == Alu!cpu_ror(a, Q, s)
        back  == Alu!cpu_ror(left.val, left.P, s)
        forth == Alu!cpu_rol(right.val, right.P, s)
    IN /\ back.val = a /\ Alu!Carry(back.P) = Alu!Carry(Q)
       /\ forth.val = a /\ Alu!Carry(forth.P) = Alu!Carry(Q)

LEMMA RotatesBack ==
    ASSUME NEW s, NEW h, Halves(s, h), NEW a \in 0 .. s - 1, NEW Q
    PROVE  RotatesReturn(a, Q, s)
<1> DEFINE left == Alu!cpu_rol(a, Q, s)
           right == Alu!cpu_ror(a, Q, s)
           back == Alu!cpu_ror(left.val, left.P, s)
           forth == Alu!cpu_rol(right.val, right.P, s)
           c == Alu!Carry(Q)
<1>1. c \in 0 .. 1 /\ h \in Nat \ {0} /\ s = 2 * h /\ a \in Nat
  BY CarryIs DEF Halves
<1>2. /\ left.val = Wrap(2 * a + c, s) /\ left.val \in 0 .. s - 1
      /\ Alu!Carry(left.P) = IF a >= h THEN 1 ELSE 0
  BY RolIs
<1>3. /\ right.val = Rotated(a, c, h)
      /\ right.val \in 0 .. s - 1 /\ Alu!Carry(right.P) = a % 2
  <2>0. RotatedRight(a, Q, s, h)
    BY RorIs
  <2> QED
    BY <2>0 DEF RotatedRight
<1> HIDE DEF left, right, c
<1>4. /\ back.val = Rotated(left.val, Alu!Carry(left.P), h)
      /\ Alu!Carry(back.P) = left.val % 2
  <2> DEFINE x == left.val
             R == left.P
  <2>1. x \in 0 .. s - 1 /\ back = Alu!cpu_ror(x, R, s)
    BY <1>2
  <2> HIDE DEF x, R
  <2>2. LET r == Alu!cpu_ror(x, R, s) IN
        r.val = Rotated(x, Alu!Carry(R), h) /\ Alu!Carry(r.P) = x % 2
    <3>0. RotatedRight(x, R, s, h)
      BY <2>1, RorIs
    <3> QED
      BY <3>0 DEF RotatedRight
  <2> QED
    BY <2>1, <2>2 DEF x, R
<1>5. /\ forth.val = Wrap(2 * right.val + Alu!Carry(right.P), s)
      /\ Alu!Carry(forth.P) = IF right.val >= h THEN 1 ELSE 0
  BY <1>3, RolIs
<1> HIDE DEF back, forth
<1>6. back.val = a /\ Alu!Carry(back.P) = c
  <2>1. CASE a >= h
    <3>1. left.val = 2 * (a - h) + c
      BY <1>1, <1>2, <2>1 DEF Wrap
    <3>2. left.val \div 2 = a - h /\ left.val % 2 = c
      BY <1>1, <2>1, <3>1
    <3> QED
      BY <1>1, <1>2, <1>4, <2>1, <3>2 DEF Rotated
  <2>2. CASE a < h
    <3>1. left.val = 2 * a + c
      BY <1>1, <1>2, <2>2 DEF Wrap
    <3>2. left.val \div 2 = a /\ left.val % 2 = c
      BY <1>1, <3>1
    <3> QED
      BY <1>1, <1>2, <1>4, <2>2, <3>2 DEF Rotated
  <2> QED
    BY <1>1, <2>1, <2>2
<1>7. forth.val = a /\ Alu!Carry(forth.P) = c
  <2>1. /\ a = 2 * (a \div 2) + (a % 2) /\ a % 2 \in 0 .. 1
        /\ a \div 2 \in 0 .. h - 1
    BY <1>1
  <2>2. CASE c = 1
    BY <1>1, <1>3, <1>5, <2>1, <2>2 DEF Wrap, Rotated
  <2>3. CASE c = 0
    BY <1>1, <1>3, <1>5, <2>1, <2>3 DEF Wrap, Rotated
  <2> QED
    BY <1>1, <2>2, <2>3
<1> QED
  BY <1>6, <1>7 DEF RotatesReturn, left, right, back, forth, c

Undoes(a, v, Q, s) ==
    LET add  == Alu!cpu_adc(a, v, Q, s)
        sub  == Alu!cpu_sbc(add.val, v, Alu!Put(add.P, "C", "C" \notin Q), s)
        with == Q \union {"C"}
    IN /\ sub.val = a
       /\ ("C" \in sub.P) <=> ("C" \notin add.P)
       /\ Alu!Only(Alu!cpu_cmp(a, v, with, s), {"C", "Z", "N"})
            = Alu!Only(Alu!cpu_sbc(a, v, with, s).P, {"C", "Z", "N"})

LEMMA Undone ==
    ASSUME NEW s, NEW h, Halves(s, h), NEW a \in 0 .. s - 1, NEW v \in 0 .. s - 1, NEW Q
    PROVE  Undoes(a, v, Q, s)
<1> DEFINE c == Alu!Carry(Q)
           add == Alu!cpu_adc(a, v, Q, s)
           R == Alu!Put(add.P, "C", "C" \notin Q)
           u == s - 1 - v
           sub == Alu!cpu_adc(add.val, u, R, s)
           with == Q \union {"C"}
           cmp == Alu!cpu_cmp(a, v, with, s)
           same == Alu!cpu_adc(a, u, with, s)
<1>1. c \in 0 .. 1 /\ h \in Nat \ {0} /\ s = 2 * h /\ a \in Nat /\ v \in Nat /\ u \in 0 .. s - 1
  BY CarryIs DEF Halves
<1>2. /\ add.val = Wrap(a + v + c, s) /\ add.val \in 0 .. s - 1
      /\ "C" \in add.P <=> a + v + c >= s
  <2>0. Added(a, v, Q, s, h)
    BY AdcIs
  <2> QED
    BY <2>0 DEF Added
<1>3. Alu!Carry(R) = 1 - c
  <2>1. "C" \in R <=> "C" \notin Q
    <3> HIDE DEF add
    <3> DEFINE clear == "C" \notin Q
    <3>1. clear \in BOOLEAN
      OBVIOUS
    <3> QED
      BY <3>1, FlagPut
  <2> HIDE DEF R
  <2> QED
    BY <2>1 DEF Alu!Carry
<1>4. Alu!Carry(with) = 1
  BY CarryIs
<1> HIDE DEF c, add, R, u
<1>5. /\ sub.val = Wrap(add.val + u + Alu!Carry(R), s)
      /\ "C" \in sub.P <=> add.val + u + Alu!Carry(R) >= s
  <2>0. Added(add.val, u, R, s, h)
    BY <1>1, <1>2, AdcIs
  <2> QED
    BY <2>0 DEF Added
<1> HIDE DEF sub
<1>6. sub.val = a /\ ("C" \in sub.P <=> "C" \notin add.P)
  <2>1. u = s - 1 - v
    BY DEF u
  <2>2. CASE a + v + c >= s
    BY <1>1, <1>2, <1>3, <1>5, <2>1, <2>2 DEF Wrap
  <2>3. CASE ~(a + v + c >= s)
    BY <1>1, <1>2, <1>3, <1>5, <2>1, <2>3 DEF Wrap
  <2> QED
    BY <2>2, <2>3
<1> HIDE DEF with
<1>7. LET d == IF a >= v THEN a - v ELSE a - v + s
      IN /\ "C" \in cmp <=> a >= v
         /\ "N" \in cmp <=> d >= h
         /\ "Z" \in cmp <=> d = 0
  BY CmpIs
<1>8. LET sum == a + u + 1
      IN /\ "C" \in same.P <=> sum >= s
         /\ "N" \in same.P <=> Wrap(sum, s) >= h
         /\ "Z" \in same.P <=> Wrap(sum, s) = 0
  <2> DEFINE sum == a + u + Alu!Carry(with)
  <2>1. /\ "C" \in same.P <=> sum >= s
        /\ "N" \in same.P <=> Wrap(sum, s) >= h
        /\ "Z" \in same.P <=> Wrap(sum, s) = 0
    <3>0. Added(a, u, with, s, h)
      BY <1>1, AdcIs
    <3> QED
      BY <3>0 DEF Added
  <2>2. sum = a + u + 1
    BY <1>4
  <2> HIDE DEF sum, same
  <2> QED
    BY <2>1, <2>2
<1> HIDE DEF cmp, same
<1>9. /\ "C" \in cmp <=> "C" \in same.P
      /\ "N" \in cmp <=> "N" \in same.P
      /\ "Z" \in cmp <=> "Z" \in same.P
  <2>1. a + u + 1 = a - v + s
    BY <1>1 DEF u
  <2>2. CASE a >= v
    <3>1. a + u + 1 >= s /\ Wrap(a + u + 1, s) = a - v
      BY <1>1, <2>1, <2>2 DEF Wrap
    <3> QED
      BY <1>7, <1>8, <2>2, <3>1
  <2>3. CASE ~(a >= v)
    <3>1. ~(a + u + 1 >= s) /\ Wrap(a + u + 1, s) = a - v + s
      BY <1>1, <2>1, <2>3 DEF Wrap
    <3> QED
      BY <1>7, <1>8, <2>3, <3>1
  <2> QED
    BY <2>2, <2>3
<1>10. Alu!Only(cmp, {"C", "Z", "N"}) = Alu!Only(same.P, {"C", "Z", "N"})
  BY <1>9 DEF Alu!Only
<1> QED
  BY <1>6, <1>10 DEF Undoes, Alu!cpu_sbc, add, R, u, sub, with, cmp, same

LEMMA TooBig ==
    ASSUME NEW s, NEW h, Halves(s, h), NEW a \in 0 .. s - 1, NEW v \in 0 .. s - 1, NEW Q
    PROVE  LET signed(n) == IF n >= h THEN n - s ELSE n
               fits(n) == n \in -h .. h - 1
           IN /\ ("V" \in Alu!cpu_adc(a, v, Q, s).P)
                    <=> ~fits(signed(a) + signed(v) + Alu!Carry(Q))
              /\ ("V" \in Alu!cpu_sbc(a, v, Q, s).P)
                    <=> ~fits(signed(a) - signed(v) - (1 - Alu!Carry(Q)))
<1> DEFINE c == Alu!Carry(Q)
           u == s - 1 - v
           signed(n) == IF n >= h THEN n - s ELSE n
           fits(n) == n \in -h .. h - 1
<1>1. c \in 0 .. 1 /\ h \in Nat \ {0} /\ s = 2 * h /\ a \in Nat /\ v \in Nat /\ u \in 0 .. s - 1
  BY CarryIs DEF Halves
<1>2. ASSUME NEW x \in 0 .. s - 1
      PROVE  ("V" \in Alu!cpu_adc(a, x, Q, s).P) <=> ~fits(signed(a) + signed(x) + c)
  <2> DEFINE w == Wrap(a + x + c, s)
  <2>1. ("V" \in Alu!cpu_adc(a, x, Q, s).P)
           <=> ~(a >= h <=> w >= h) /\ ~(x >= h <=> w >= h)
    <3>0. Added(a, x, Q, s, h)
      BY AdcIs
    <3> QED
      BY <3>0 DEF Added
  <2> HIDE DEF c
  <2>2. ~(a >= h <=> w >= h) /\ ~(x >= h <=> w >= h) <=> ~fits(signed(a) + signed(x) + c)
    BY <1>1 DEF Wrap
  <2> QED
    BY <2>1, <2>2
<1>3. signed(u) = -1 - signed(v)
  BY <1>1
<1> HIDE DEF c, u
<1>4. signed(a) + signed(u) + c = signed(a) - signed(v) - (1 - c)
  BY <1>1, <1>3
<1> QED
  BY <1>1, <1>2, <1>4 DEF Alu!cpu_sbc, c, u

Counts(n, Q, s) ==
    LET inc == Alu!cpu_inc(n, Q, s)
        dec == Alu!cpu_dec(n, Q, s)
        add == Alu!cpu_adc(n, 1, Q \ {"C"}, s)
        sub == Alu!cpu_sbc(n, 1, Q \union {"C"}, s)
    IN /\ inc.val = add.val /\ dec.val = sub.val
       /\ Alu!Only(inc.P, {"N", "Z"}) = Alu!Only(add.P, {"N", "Z"})
       /\ Alu!Only(dec.P, {"N", "Z"}) = Alu!Only(sub.P, {"N", "Z"})
       /\ \A r \in {inc, dec} : Alu!Only(r.P, {"C", "V"}) = Alu!Only(Q, {"C", "V"})

LEMMA ByOne ==
    ASSUME NEW s, NEW h, Halves(s, h), NEW n \in 0 .. s - 1, NEW Q
    PROVE  Counts(n, Q, s)
<1> DEFINE up == Q \ {"C"}
           down == Q \union {"C"}
           inc == Alu!cpu_inc(n, Q, s)
           dec == Alu!cpu_dec(n, Q, s)
           add == Alu!cpu_adc(n, 1, up, s)
           x == s - 1 - 1
           sub == Alu!cpu_adc(n, x, down, s)
<1>1. /\ h \in Nat \ {0} /\ s = 2 * h /\ n \in Nat /\ 1 \in 0 .. s - 1
      /\ x \in 0 .. s - 1 /\ x = s - 2
  BY DEF Halves
<1>2. Alu!Carry(up) = 0 /\ Alu!Carry(down) = 1
  BY DEF Alu!Carry
<1> HIDE DEF up, down, x
<1>3. /\ inc.val = Wrap(n + 1, s)
      /\ "N" \in inc.P <=> Wrap(n + 1, s) >= h
      /\ "Z" \in inc.P <=> Wrap(n + 1, s) = 0
      /\ \A f : f \notin {"N", "Z"} => (f \in inc.P <=> f \in Q)
  BY IncIs
<1> DEFINE w == IF n = 0 THEN s - 1 ELSE n - 1
<1>4. /\ dec.val = w
      /\ "N" \in dec.P <=> w >= h
      /\ "Z" \in dec.P <=> w = 0
      /\ \A f : f \notin {"N", "Z"} => (f \in dec.P <=> f \in Q)
  BY DecIs
<1>5. /\ add.val = Wrap(n + 1, s)
      /\ "N" \in add.P <=> Wrap(n + 1, s) >= h
      /\ "Z" \in add.P <=> Wrap(n + 1, s) = 0
  <2>1. n + 1 + Alu!Carry(up) = n + 1
    BY <1>1, <1>2
  <2> DEFINE sum == n + 1 + Alu!Carry(up)
  <2>2. /\ add.val = Wrap(sum, s)
        /\ "N" \in add.P <=> Wrap(sum, s) >= h
        /\ "Z" \in add.P <=> Wrap(sum, s) = 0
    <3>0. Added(n, 1, up, s, h)
      BY <1>1, AdcIs
    <3> QED
      BY <3>0 DEF Added
  <2> HIDE DEF add
  <2> QED
    BY <2>1, <2>2
<1>6. /\ sub.val = w
      /\ "N" \in sub.P <=> w >= h
      /\ "Z" \in sub.P <=> w = 0
  <2> DEFINE sum == n + x + Alu!Carry(down)
  <2>1. Wrap(sum, s) = w
    BY <1>1, <1>2 DEF Wrap
  <2>x. x \in 0 .. s - 1
    BY <1>1
  <2>2. /\ sub.val = Wrap(sum, s)
        /\ "N" \in sub.P <=> Wrap(sum, s) >= h
        /\ "Z" \in sub.P <=> Wrap(sum, s) = 0
    <3>0. Added(n, x, down, s, h)
      BY <2>x, AdcIs
    <3> QED
      BY <3>0 DEF Added
  <2> HIDE DEF sub
  <2> QED
    BY <2>1, <2>2
<1>7. sub = Alu!cpu_sbc(n, 1, down, s)
  BY DEF Alu!cpu_sbc, x
<1> HIDE DEF inc, dec, add, sub, w
<1>8. inc.val = add.val /\ dec.val = sub.val
  BY <1>3, <1>4, <1>5, <1>6
<1>9. /\ Alu!Only(inc.P, {"N", "Z"}) = Alu!Only(add.P, {"N", "Z"})
      /\ Alu!Only(dec.P, {"N", "Z"}) = Alu!Only(sub.P, {"N", "Z"})
  BY <1>3, <1>4, <1>5, <1>6 DEF Alu!Only
<1>10. /\ Alu!Only(inc.P, {"C", "V"}) = Alu!Only(Q, {"C", "V"})
       /\ Alu!Only(dec.P, {"C", "V"}) = Alu!Only(Q, {"C", "V"})
  BY <1>3, <1>4 DEF Alu!Only
<1> QED
  BY <1>7, <1>8, <1>9, <1>10 DEF Counts, inc, dec, add, up, down
-----------------------------------------------------------------------------
(* Words of two bytes.                                                     *)
LEMMA Product == \A x, y, s \in Nat : x <= y => x * s <= y * s
OBVIOUS

LEMMA WordHalves ==
    ASSUME NEW B, NEW h, Halves(B, h) PROVE Halves(B * B, h * B) /\ B * B \in Nat \ {0}
<1>1. B \in Nat \ {0} /\ h \in Nat \ {0} /\ B = 2 * h
  BY DEF Halves
<1>2. B * B = 2 * (h * B)
  BY <1>1
<1>3. h * B \in Nat \ {0}
  BY <1>1
<1> QED
  BY <1>2, <1>3 DEF Halves

LEMMA TwoPieces ==
    ASSUME NEW B \in Nat \ {0}, NEW n \in 0 .. B * B - 1
    PROVE  n \div B \in 0 .. B - 1 /\ n % B \in 0 .. B - 1 /\ n = (n \div B) * B + (n % B)
<1> DEFINE q == n \div B
           r == n % B
<1>1. n \in Int /\ n >= 0 /\ n <= B * B - 1 /\ B \in Nat \ {0}
  BY Product
<1>2. n = q * B + r /\ r \in 0 .. B - 1 /\ q \in Int
  BY <1>1, Quotients
<1> HIDE DEF q, r
<1>3. q >= 0
  <2>1. SUFFICES ASSUME q <= -1 PROVE FALSE
    BY <1>2
  <2>2. q * B <= -B
    BY <1>1, <1>2, <2>1
  <2> QED
    BY <1>1, <1>2, <2>2
<1>4. q <= B - 1
  <2>1. SUFFICES ASSUME B <= q PROVE FALSE
    BY <1>1, <1>2
  <2>2. B * B <= q * B
    BY <1>1, <1>2, <1>3, <2>1, Product
  <2> QED
    BY <1>1, <1>2, <2>2
<1> QED
  BY <1>2, <1>3, <1>4 DEF q, r

LEMMA Joined ==
    ASSUME NEW B, NEW h, Halves(B, h), NEW i \in 0 .. B - 1, NEW l \in 0 .. B - 1
    PROVE  /\ i * B + l \in 0 .. B * B - 1
           /\ i * B + l >= h * B <=> i >= h
<1>1. B \in Nat \ {0} /\ h \in Nat \ {0} /\ i \in Nat /\ l \in Nat /\ i <= B - 1
  BY DEF Halves
<1>2. i * B <= (B - 1) * B /\ (B - 1) * B = B * B - B /\ 0 <= i * B
  BY <1>1
<1>3. i * B + l \in 0 .. B * B - 1
  BY <1>1, <1>2
<1>4. CASE i >= h
  <2>1. h * B <= i * B
    BY <1>1, <1>4, Product
  <2> QED
    BY <1>1, <1>3, <1>4, <2>1
<1>5. CASE i <= h - 1
  <2>1. i * B <= (h - 1) * B /\ (h - 1) * B = h * B - B
    BY <1>1, <1>5
  <2> QED
    BY <1>1, <1>3, <1>5, <2>1
<1> QED
  BY <1>1, <1>4, <1>5

(* The sum of two words from the sums of their bytes.                      *)
SumsOfBytes(B, ai, al, vi, vl, c, o) ==
    LET l == al + vl + c
        i == ai + vi + o
        n == (ai * B + al) + (vi * B + vl) + c
    IN /\ n >= B * B <=> i >= B
       /\ Wrap(n, B * B) = Wrap(i, B) * B + Wrap(l, B)

LEMMA SumOfPieces ==
    ASSUME NEW B \in Nat \ {0}, NEW ai \in 0 .. B - 1, NEW al \in 0 .. B - 1,
           NEW vi \in 0 .. B - 1, NEW vl \in 0 .. B - 1, NEW c \in 0 .. 1,
           NEW o \in 0 .. 1, o = 1 <=> al + vl + c >= B
    PROVE  SumsOfBytes(B, ai, al, vi, vl, c, o)
<1> DEFINE l == al + vl + c
           i == ai + vi + o
           n == (ai * B + al) + (vi * B + vl) + c
           w == Wrap(l, B)
<1>1. w = l - o * B /\ w \in 0 .. B - 1 /\ i \in 0 .. 2 * B - 1
  BY DEF Wrap
<1>2. n = i * B + w
  <2>1. (ai + vi + o) * B = ai * B + vi * B + o * B
    OBVIOUS
  <2> QED
    BY <1>1, <2>1
<1> HIDE DEF n, l, i, w
<1>3. CASE i >= B
  <2>1. B * B <= i * B
    BY <1>1, <1>3, Product
  <2>2. n >= B * B
    BY <1>1, <1>2, <2>1
  <2>3. (i - B) * B = i * B - B * B
    BY <1>1
  <2>4. Wrap(n, B * B) = (i - B) * B + w
    BY <1>1, <1>2, <2>2, <2>3 DEF Wrap
  <2>5. Wrap(i, B) = i - B
    BY <1>3 DEF Wrap
  <2> QED
    BY <1>3, <2>2, <2>4, <2>5 DEF SumsOfBytes, n, l, i, w
<1>4. CASE ~(i >= B)
  <2>1. i <= B - 1 /\ i * B <= (B - 1) * B /\ (B - 1) * B = B * B - B
    BY <1>1, <1>4
  <2>2. ~(n >= B * B)
    BY <1>1, <1>2, <2>1
  <2>3. Wrap(n, B * B) = n /\ Wrap(i, B) = i
    BY <1>4, <2>2 DEF Wrap
  <2> QED
    BY <1>2, <1>4, <2>2, <2>3 DEF SumsOfBytes, n, l, i, w
<1> QED
  BY <1>3, <1>4

LEMMA AdcPieces ==
    ASSUME NEW B, NEW h, Halves(B, h), NEW a \in 0 .. B * B - 1, NEW v \in 0 .. B * B - 1, NEW Q
    PROVE  LET lo  == Alu!cpu_adc(a % B, v % B, Q, B)
               hi  == Alu!cpu_adc(a \div B, v \div B, lo.P, B)
               add == Alu!cpu_adc(a, v, Q, B * B)
           IN /\ add.val = hi.val * B + lo.val
              /\ Alu!Only(add.P, {"C", "V", "N"}) = Alu!Only(hi.P, {"C", "V", "N"})
<1> DEFINE T == B * B
           k == h * B
           al == a % B
           ai == a \div B
           vl == v % B
           vi == v \div B
           lo == Alu!cpu_adc(al, vl, Q, B)
           hi == Alu!cpu_adc(ai, vi, lo.P, B)
           add == Alu!cpu_adc(a, v, Q, T)
           c == Alu!Carry(Q)
           o == Alu!Carry(lo.P)
<1>1. B \in Nat \ {0} /\ Halves(T, k)
  BY WordHalves DEF Halves
<1>2. /\ ai \in 0 .. B - 1 /\ al \in 0 .. B - 1 /\ a = ai * B + al
      /\ vi \in 0 .. B - 1 /\ vl \in 0 .. B - 1 /\ v = vi * B + vl
  BY <1>1, TwoPieces
<1>3. a \in 0 .. T - 1 /\ v \in 0 .. T - 1
  OBVIOUS
<1> HIDE DEF al, ai, vl, vi, T, k
<1>4. /\ lo.val = Wrap(al + vl + c, B)
      /\ lo.val \in 0 .. B - 1
      /\ "C" \in lo.P <=> al + vl + c >= B
  <2>0. Added(al, vl, Q, B, h)
    BY <1>2, AdcIs
  <2> QED
    BY <2>0 DEF Added
<1>5. c \in 0 .. 1 /\ o \in 0 .. 1 /\ (o = 1 <=> al + vl + c >= B)
  BY <1>4, CarryIs
<1> HIDE DEF lo
<1> DEFINE Q2 == lo.P
<1>6. LET w == Wrap(ai + vi + o, B)
      IN /\ hi.val = w /\ w \in 0 .. B - 1
         /\ "C" \in hi.P <=> ai + vi + o >= B
         /\ "N" \in hi.P <=> w >= h
         /\ "V" \in hi.P <=> ~(ai >= h <=> w >= h) /\ ~(vi >= h <=> w >= h)
  <2> HIDE DEF Q2
  <2>1. LET w == Wrap(ai + vi + Alu!Carry(Q2), B)
            r == Alu!cpu_adc(ai, vi, Q2, B)
        IN /\ r.val = w /\ w \in 0 .. B - 1
           /\ "C" \in r.P <=> ai + vi + Alu!Carry(Q2) >= B
           /\ "N" \in r.P <=> w >= h
           /\ "V" \in r.P <=> ~(ai >= h <=> w >= h) /\ ~(vi >= h <=> w >= h)
    <3>0. Added(ai, vi, Q2, B, h)
      BY <1>2, AdcIs
    <3> QED
      BY <3>0 DEF Added
  <2> QED
    BY <2>1 DEF Q2
<1>7. LET w == Wrap(a + v + c, T)
      IN /\ add.val = w
         /\ "C" \in add.P <=> a + v + c >= T
         /\ "N" \in add.P <=> w >= k
         /\ "V" \in add.P <=> ~(a >= k <=> w >= k) /\ ~(v >= k <=> w >= k)
  <2>0. Added(a, v, Q, T, k)
    BY <1>1, <1>3, AdcIs
  <2> QED
    BY <2>0 DEF Added
<1> HIDE DEF hi, add, c, o
<1>8. /\ a + v + c >= T <=> ai + vi + o >= B
      /\ Wrap(a + v + c, T) = Wrap(ai + vi + o, B) * B + Wrap(al + vl + c, B)
  <2>1. /\ (ai * B + al) + (vi * B + vl) + c >= B * B <=> ai + vi + o >= B
        /\ Wrap((ai * B + al) + (vi * B + vl) + c, B * B)
              = Wrap(ai + vi + o, B) * B + Wrap(al + vl + c, B)
    <3>1. /\ B \in Nat \ {0} /\ ai \in 0 .. B - 1 /\ al \in 0 .. B - 1
          /\ vi \in 0 .. B - 1 /\ vl \in 0 .. B - 1 /\ c \in 0 .. 1 /\ o \in 0 .. 1
          /\ o = 1 <=> al + vl + c >= B
      BY <1>1, <1>2, <1>5
    <3>2. SumsOfBytes(B, ai, al, vi, vl, c, o)
      BY <3>1, SumOfPieces
    <3> QED
      BY <3>2 DEF SumsOfBytes
  <2>2. (ai * B + al) + (vi * B + vl) + c = a + v + c
    BY <1>2
  <2>3. T = B * B
    BY DEF T
  <2> QED
    BY <2>1, <2>2, <2>3
<1> DEFINE w == Wrap(a + v + c, T)
           x == Wrap(ai + vi + o, B)
<1>9. w = x * B + lo.val /\ x \in 0 .. B - 1
  BY <1>4, <1>6, <1>8
<1> HIDE DEF w, x
<1>10. (a >= k <=> ai >= h) /\ (v >= k <=> vi >= h) /\ (w >= k <=> x >= h)
  BY <1>2, <1>4, <1>9, Joined DEF k
<1>11. /\ add.val = hi.val * B + lo.val
       /\ "C" \in add.P <=> "C" \in hi.P
       /\ "N" \in add.P <=> "N" \in hi.P
       /\ "V" \in add.P <=> "V" \in hi.P
  BY <1>6, <1>7, <1>8, <1>9, <1>10 DEF w, x
<1>12. Alu!Only(add.P, {"C", "V", "N"}) = Alu!Only(hi.P, {"C", "V", "N"})
  BY <1>11 DEF Alu!Only
<1> QED
  BY <1>11, <1>12 DEF al, ai, vl, vi, T, lo, hi, add

LEMMA ComplementPieces ==
    ASSUME NEW B \in Nat \ {0}, NEW v \in 0 .. B * B - 1
    PROVE  LET u == B * B - 1 - v IN
           /\ u \in 0 .. B * B - 1
           /\ u % B = B - 1 - (v % B) /\ u \div B = B - 1 - (v \div B)
<1> DEFINE u == B * B - 1 - v
           vi == v \div B
           vl == v % B
<1>1. vi \in 0 .. B - 1 /\ vl \in 0 .. B - 1 /\ v = vi * B + vl
  BY TwoPieces
<1>2. B * B \in Nat /\ u \in Int /\ u \in 0 .. B * B - 1
  OBVIOUS
<1> HIDE DEF vi, vl
<1>3. (B - 1 - vi) * B = B * B - B - vi * B
  BY <1>1
<1>4. u = (B - 1 - vi) * B + (B - 1 - vl)
  BY <1>1, <1>2, <1>3
<1> DEFINE q == B - 1 - vi
           r == B - 1 - vl
<1>5. q \in Int /\ r \in Int /\ r \in 0 .. B - 1 /\ u = q * B + r
  BY <1>1, <1>4
<1> HIDE DEF u, q, r
<1>6. u \div B = q /\ u % B = r
  BY <1>2, <1>5, OneQuotient
<1> QED
  BY <1>2, <1>6 DEF u, q, r, vi, vl

LEMMA SbcPieces ==
    ASSUME NEW B, NEW h, Halves(B, h), NEW a \in 0 .. B * B - 1, NEW v \in 0 .. B * B - 1, NEW Q
    PROVE  LET lo  == Alu!cpu_sbc(a % B, v % B, Q, B)
               hi  == Alu!cpu_sbc(a \div B, v \div B, lo.P, B)
               sub == Alu!cpu_sbc(a, v, Q, B * B)
           IN /\ sub.val = hi.val * B + lo.val
              /\ Alu!Only(sub.P, {"C", "V", "N"}) = Alu!Only(hi.P, {"C", "V", "N"})
<1> DEFINE u == B * B - 1 - v
           ul == B - 1 - (v % B)
           ui == B - 1 - (v \div B)
<1>1. B \in Nat \ {0}
  BY DEF Halves
<1>2. u \in 0 .. B * B - 1 /\ u % B = ul /\ u \div B = ui
  BY <1>1, ComplementPieces
<1> HIDE DEF u, ul, ui
<1>3. LET lo  == Alu!cpu_adc(a % B, u % B, Q, B)
          hi  == Alu!cpu_adc(a \div B, u \div B, lo.P, B)
          add == Alu!cpu_adc(a, u, Q, B * B)
      IN /\ add.val = hi.val * B + lo.val
         /\ Alu!Only(add.P, {"C", "V", "N"}) = Alu!Only(hi.P, {"C", "V", "N"})
  BY <1>2, AdcPieces
<1>4. LET lo  == Alu!cpu_adc(a % B, ul, Q, B)
          hi  == Alu!cpu_adc(a \div B, ui, lo.P, B)
          add == Alu!cpu_adc(a, u, Q, B * B)
      IN /\ add.val = hi.val * B + lo.val
         /\ Alu!Only(add.P, {"C", "V", "N"}) = Alu!Only(hi.P, {"C", "V", "N"})
  BY <1>2, <1>3, Zenon
<1> QED
  BY <1>4, Zenon DEF Alu!cpu_sbc, u, ul, ui

LEMMA AslPieces ==
    ASSUME NEW B, NEW h, Halves(B, h), NEW a \in 0 .. B * B - 1, NEW Q
    PROVE  LET low == Alu!cpu_asl(a % B, Q, B) IN
           Alu!cpu_asl(a, Q, B * B).val
             = Alu!cpu_rol(a \div B, low.P, B).val * B + low.val
<1> DEFINE T == B * B
           k == h * B
           al == a % B
           ai == a \div B
           low == Alu!cpu_asl(al, Q, B)
           R == low.P
           o == Alu!Carry(R)
<1>1. B \in Nat \ {0} /\ Halves(T, k) /\ B = 2 * h /\ h \in Nat
  BY WordHalves DEF Halves
<1>2. ai \in 0 .. B - 1 /\ al \in 0 .. B - 1 /\ a = ai * B + al /\ a \in 0 .. T - 1
  BY <1>1, TwoPieces
<1> HIDE DEF al, ai, T, k
<1>3. low.val = Wrap(2 * al, B) /\ (o = IF al >= h THEN 1 ELSE 0)
  BY <1>2, AslIs
<1> HIDE DEF low, R
<1>4. Alu!cpu_rol(ai, R, B).val = Wrap(2 * ai + o, B)
  BY <1>2, RolIs
<1>5. Alu!cpu_asl(a, Q, T).val = Wrap(2 * a, T)
  BY <1>1, <1>2, AslIs
<1> HIDE DEF o
<1>6. o \in 0 .. 1 /\ 0 \in 0 .. 1 /\ (o = 1 <=> al + al + 0 >= B)
  BY <1>1, <1>2, <1>3
<1>7. SumsOfBytes(B, ai, al, ai, al, 0, o)
  BY <1>1, <1>2, <1>6, SumOfPieces
<1>8. /\ (ai * B + al) + (ai * B + al) + 0 = 2 * a
      /\ ai + ai + o = 2 * ai + o /\ al + al + 0 = 2 * al
  <2>1. ai * B \in Int
    BY <1>1, <1>2
  <2> QED
    BY <1>2, <1>6, <2>1
<1>9. Wrap(2 * a, T) = Wrap(2 * ai + o, B) * B + Wrap(2 * al, B)
  BY <1>7, <1>8, Zenon DEF SumsOfBytes, T
<1> QED
  BY <1>3, <1>4, <1>5, <1>9, Zenon DEF low, R, al, ai, T

LEMMA LsrPieces ==
    ASSUME NEW B, NEW h, Halves(B, h), NEW a \in 0 .. B * B - 1, NEW Q
    PROVE  LET high == Alu!cpu_lsr(a \div B, Q, B) IN
           Alu!cpu_lsr(a, Q, B * B).val
             = high.val * B + Alu!cpu_ror(a % B, high.P, B).val
<1> DEFINE T == B * B
           k == h * B
           al == a % B
           ai == a \div B
           high == Alu!cpu_lsr(ai, Q, B)
           R == high.P
<1>1. B \in Nat \ {0} /\ Halves(T, k) /\ B = 2 * h /\ h \in Nat
  BY WordHalves DEF Halves
<1>2. ai \in 0 .. B - 1 /\ al \in 0 .. B - 1 /\ a = ai * B + al /\ a \in 0 .. T - 1
  BY <1>1, TwoPieces
<1> HIDE DEF al, ai, T, k
<1>3. high.val = ai \div 2 /\ Alu!Carry(R) = ai % 2
  BY <1>2, LsrIs
<1> HIDE DEF high, R
<1>4. Alu!cpu_ror(al, R, B).val = Rotated(al, ai % 2, h)
  <2>0. RotatedRight(al, R, B, h)
    BY <1>2, RorIs
  <2> QED
    BY <1>3, <2>0 DEF RotatedRight
<1>5. Alu!cpu_lsr(a, Q, T).val = a \div 2
  BY <1>1, <1>2, LsrIs
<1> DEFINE p == ai \div 2
           q == ai % 2
           r == al \div 2
           t == al % 2
<1>6. /\ ai = p * 2 + q /\ q \in 0 .. 1 /\ p \in Int
      /\ al = r * 2 + t /\ t \in 0 .. 1 /\ r \in Int
  BY <1>2
<1> HIDE DEF p, q, r, t
<1> DEFINE n == p * B + Rotated(al, q, h)
<1>7. a = n * 2 + t /\ n \in Int
  <2>1. ai * B = 2 * (p * B) + q * B
    BY <1>1, <1>6
  <2>2. Rotated(al, q, h) = IF q = 1 THEN r + h ELSE r
    BY DEF Rotated, r
  <2>3. q * B = IF q = 1 THEN 2 * h ELSE 0
    BY <1>1, <1>6
  <2>4. p * B \in Int
    BY <1>1, <1>6
  <2>5. CASE q = 1
    BY <1>1, <1>2, <1>6, <2>1, <2>2, <2>3, <2>4, <2>5
  <2>6. CASE q = 0
    BY <1>1, <1>2, <1>6, <2>1, <2>2, <2>3, <2>4, <2>6
  <2> QED
    BY <1>6, <2>5, <2>6
<1> HIDE DEF n
<1>8. a \div 2 = n
  <2>1. a \in Int /\ t \in Int /\ 2 \in Nat \ {0} /\ t \in 0 .. 2 - 1
    BY <1>6, <1>7
  <2> QED
    BY <1>7, <2>1, OneQuotient
<1> QED
  BY <1>3, <1>4, <1>5, <1>8 DEF high, R, al, ai, T, n, p, q
-----------------------------------------------------------------------------
(* The sizes of the adders: a byte of two digits, a word of two bytes.     *)
HalfNib == Nib \div 2
Half8 == HalfNib * Nib
Half16 == Half8 * Alu!Size8

LEMMA Sizes ==
    /\ Nib \in Nat \ {0} /\ Halves(Nib, HalfNib)
    /\ Halves(Alu!Size8, Half8)
    /\ Halves(Alu!Size16, Half16)
    /\ Alu!Size8 \in Nat \ {0} /\ Alu!Size16 \in Nat \ {0}
    /\ Alu!Size16 = Alu!Size8 * Alu!Size8
    /\ Alu!Size8 # Alu!Size16
<1>1. Nib \in Nat \ {0} /\ Nib > 2 /\ Halves(Nib, HalfNib)
  BY ArithmeticAssumption DEF Alu!AluAssumption, Halves, HalfNib
<1>2. Halves(Alu!Size8, Half8) /\ Alu!Size8 \in Nat \ {0}
  BY <1>1, WordHalves DEF Alu!Size8, Half8
<1>3. Halves(Alu!Size16, Half16) /\ Alu!Size16 \in Nat \ {0}
  BY <1>2, WordHalves DEF Alu!Size16, Half16
<1>4. Alu!Size8 > 1
  BY <1>1 DEF Alu!Size8
<1>5. Alu!Size8 # Alu!Size16
  <2>1. \A x \in Nat : x > 1 => x * x # x
    OBVIOUS
  <2> QED
    BY <1>2, <1>4, <2>1 DEF Alu!Size16
<1> QED
  BY <1>1, <1>2, <1>3, <1>5 DEF Alu!Size16

WordsOnly == accumulator \in 0 .. Alu!Size16 - 1

LEMMA BinaryHolds == WordsOnly => Alu!BinaryIsArithmetic
<1> SUFFICES ASSUME WordsOnly PROVE Alu!BinaryIsArithmetic
  OBVIOUS
<1> DEFINE W == Alu!Size16
           B == Alu!Size8
<1>1. /\ Halves(W, Half16) /\ Halves(B, Half8) /\ W = B * B
      /\ B \in Nat \ {0} /\ W \in Nat \ {0} /\ accumulator \in 0 .. W - 1
  BY Sizes DEF WordsOnly
<1>2. Alu!RotatesUndo
  <2> HIDE DEF W, B
  <2>1. RotatesReturn(accumulator, status, W)
    BY <1>1, RotatesBack
  <2>2. LET low == Alu!cpu_asl(accumulator % B, status, B) IN
        Alu!cpu_asl(accumulator, status, W).val
          = Alu!cpu_rol(accumulator \div B, low.P, B).val * B + low.val
    BY <1>1, AslPieces
  <2>3. LET high == Alu!cpu_lsr(accumulator \div B, status, B) IN
        Alu!cpu_lsr(accumulator, status, W).val
          = high.val * B + Alu!cpu_ror(accumulator % B, high.P, B).val
    BY <1>1, LsrPieces
  <2> QED
    BY <2>1, <2>2, <2>3, Zenon DEF Alu!RotatesUndo, RotatesReturn, W, B
<1>3. Alu!CountsByOne
  <2> SUFFICES ASSUME NEW s \in {B, W}, NEW h, Halves(s, h)
               PROVE  Counts(accumulator % s, status, s)
    BY <1>1, Zenon DEF Alu!CountsByOne, Counts
  <2> DEFINE n == accumulator % s
  <2>1. n \in 0 .. s - 1
    <3>1. accumulator \in Int /\ s \in Nat \ {0}
      BY <1>1
    <3> QED
      BY <3>1, Quotients
  <2> HIDE DEF n
  <2> QED
    BY <2>1, ByOne DEF n
<1>4. ASSUME NEW v \in 0 .. W - 1
      PROVE  Alu!PiecesMakeWholes(v) /\ Alu!OverflowMeansTooBig(v) /\ Alu!SubtractionUndoes(v)
  <2> HIDE DEF W, B
  <2>1. LET lo  == Alu!cpu_adc(accumulator % B, v % B, status, B)
            hi  == Alu!cpu_adc(accumulator \div B, v \div B, lo.P, B)
            add == Alu!cpu_adc(accumulator, v, status, W)
        IN /\ add.val = hi.val * B + lo.val
           /\ Alu!Only(add.P, {"C", "V", "N"}) = Alu!Only(hi.P, {"C", "V", "N"})
    BY <1>1, AdcPieces
  <2>2. LET lo  == Alu!cpu_sbc(accumulator % B, v % B, status, B)
            hi  == Alu!cpu_sbc(accumulator \div B, v \div B, lo.P, B)
            sub == Alu!cpu_sbc(accumulator, v, status, W)
        IN /\ sub.val = hi.val * B + lo.val
           /\ Alu!Only(sub.P, {"C", "V", "N"}) = Alu!Only(hi.P, {"C", "V", "N"})
    BY <1>1, SbcPieces
  <2>3. Alu!PiecesMakeWholes(v)
    BY <2>1, <2>2, Zenon DEF Alu!PiecesMakeWholes, W, B
  <2>4. Undoes(accumulator, v, status, W)
    BY <1>1, Undone
  <2>5. Alu!SubtractionUndoes(v)
    BY <2>4, Zenon DEF Alu!SubtractionUndoes, Undoes, W
  <2>6. LET signed(n) == IF n >= Half16 THEN n - W ELSE n
            fits(n) == n \in -Half16 .. Half16 - 1
        IN /\ ("V" \in Alu!cpu_adc(accumulator, v, status, W).P)
                 <=> ~fits(signed(accumulator) + signed(v) + Alu!Carry(status))
           /\ ("V" \in Alu!cpu_sbc(accumulator, v, status, W).P)
                 <=> ~fits(signed(accumulator) - signed(v) - (1 - Alu!Carry(status)))
    BY <1>1, TooBig
  <2>7. Alu!Signed(accumulator) = (IF accumulator >= Half16 THEN accumulator - W ELSE accumulator)
        /\ Alu!Signed(v) = (IF v >= Half16 THEN v - W ELSE v)
        /\ W \div 2 = Half16
    <3>1. \A n \in 0 .. W - 1 : Alu!Negative(n, W) <=> n >= Half16
      <4> TAKE n \in 0 .. W - 1
      <4>1. n \in Int /\ n % W = n
        BY <1>1, Remainders
      <4> QED
        BY <1>1, <4>1, SignIs
    <3>2. W \div 2 = Half16
      BY <1>1, Halved DEF Halves
    <3> QED
      BY <1>1, <3>1, <3>2 DEF Alu!Signed, W
  <2>8. Alu!OverflowMeansTooBig(v)
    BY <2>6, <2>7, Zenon DEF Alu!OverflowMeansTooBig, W
  <2> QED
    BY <2>3, <2>5, <2>8
<1> QED
  BY <1>2, <1>3, <1>4, Zenon DEF Alu!BinaryIsArithmetic
-----------------------------------------------------------------------------
LEMMA RadixIs == Nib \in Nat \ {0} /\ Radix \in Nat \ {0} /\ Radix < Nib
BY ArithmeticAssumption DEF Alu!AluAssumption

(* A number of two digits gives them back.                                 *)
LEMMA Coded ==
    ASSUME NEW i \in Nat, NEW l \in Nat, NEW m \in Nat \ {0}, l < m
    PROVE  (i * m + l) \div m = i /\ (i * m + l) % m = l /\ i * m + l \in Nat
<1> DEFINE n == i * m + l
<1>1. n \in Int /\ n \in Nat
  <2>1. i * m \in Nat
    OBVIOUS
  <2> QED
    BY <2>1
<1>2. l \in 0 .. m - 1 /\ i \in Int /\ l \in Int /\ n = i * m + l
  OBVIOUS
<1> HIDE DEF n
<1>3. n \div m = i /\ n % m = l
  BY <1>1, <1>2, OneQuotient
<1> QED
  BY <1>1, <1>3 DEF n

(* Decimal addition, digit by digit: a digit sum past the radix is past    *)
(* the digit's codes as well.                                              *)
LEMMA DigitAdds ==
    ASSUME NEW x \in 0 .. Radix - 1, NEW y \in 0 .. Radix - 1, NEW c \in 0 .. 1
    PROVE  LET d == x + y + c
               t == Alu!AddDigit(x, y, c)
           IN /\ t % Nib = Wrap(d, Radix) /\ Wrap(d, Radix) \in 0 .. Radix - 1
              /\ Alu!Over(t) \in 0 .. 1 /\ (Alu!Over(t) = 1 <=> d >= Radix)
              /\ ((t \div Nib) % 2 = 1) <=> d >= Radix
<1> DEFINE d == x + y + c
           t == Alu!AddDigit(x, y, c)
<1>1. d \in 0 .. 2 * Radix - 1 /\ Wrap(d, Radix) \in 0 .. Radix - 1
  BY RadixIs, WrapIs
<1> HIDE DEF d
<1>2. t = IF d >= Radix THEN d + (Nib - Radix) ELSE d
  BY DEF Alu!AddDigit, d
<1> HIDE DEF t
<1>3. CASE d >= Radix
  <2> DEFINE e == d - Radix
  <2>1. t \in Int /\ e \in Nat /\ e < Nib /\ t = 1 * Nib + e
    BY <1>1, <1>2, <1>3, RadixIs
  <2>2. t \div Nib = 1 /\ t % Nib = d - Radix
    <3> HIDE DEF e
    <3>1. (1 * Nib + e) \div Nib = 1 /\ (1 * Nib + e) % Nib = e
      BY <2>1, RadixIs, Coded
    <3> QED
      BY <2>1, <3>1 DEF e
  <2>3. t >= Nib
    BY <2>1, RadixIs
  <2> QED
    BY <1>1, <1>3, <2>2, <2>3 DEF Wrap, Alu!Over, d, t
<1>4. CASE ~(d >= Radix)
  <2>1. t \in Int /\ 0 \in Int /\ t \in 0 .. Nib - 1 /\ t = 0 * Nib + t /\ t = d
    BY <1>1, <1>2, <1>4, RadixIs
  <2>2. t \div Nib = 0 /\ t % Nib = t
    BY <2>1, RadixIs, OneQuotient
  <2>3. ~(t >= Nib)
    BY <2>1, RadixIs
  <2> QED
    BY <1>1, <1>4, <2>1, <2>2, <2>3 DEF Wrap, Alu!Over, d, t
<1> QED
  BY <1>3, <1>4

(* How bytes and words encode decimal numbers.                             *)
LEMMA ByteCode ==
    ASSUME NEW x \in 0 .. Alu!Radix2 - 1
    PROVE  /\ x \div Radix \in 0 .. Radix - 1 /\ x % Radix \in 0 .. Radix - 1
           /\ x = (x \div Radix) * Radix + (x % Radix)
           /\ Alu!BcdByte(x) \in 0 .. Alu!Size8 - 1
           /\ Alu!BcdByte(x) \div Nib = x \div Radix
           /\ Alu!BcdByte(x) % Nib = x % Radix
<1> DEFINE i == x \div Radix
           l == x % Radix
<1>1. i \in 0 .. Radix - 1 /\ l \in 0 .. Radix - 1 /\ x = i * Radix + l
  BY RadixIs, TwoPieces DEF Alu!Radix2
<1>2. Alu!BcdByte(x) = i * Nib + l
  BY DEF Alu!BcdByte
<1> HIDE DEF i, l
<1>3. i \in Nat /\ l \in Nat /\ l < Nib /\ i \in 0 .. Nib - 1 /\ l \in 0 .. Nib - 1
  BY <1>1, RadixIs
<1>4. (i * Nib + l) \div Nib = i /\ (i * Nib + l) % Nib = l
  BY <1>3, RadixIs, Coded
<1>5. i * Nib + l \in 0 .. Nib * Nib - 1
  BY <1>3, Sizes, Joined
<1> QED
  BY <1>1, <1>2, <1>4, <1>5 DEF i, l, Alu!Size8

LEMMA ByteCodeOf ==
    ASSUME NEW i \in 0 .. Radix - 1, NEW l \in 0 .. Radix - 1
    PROVE  Alu!BcdByte(i * Radix + l) = i * Nib + l
<1>1. i \in Nat /\ l \in Nat /\ l < Radix
  BY RadixIs
<1>2. (i * Radix + l) \div Radix = i /\ (i * Radix + l) % Radix = l
  BY <1>1, RadixIs, Coded
<1> QED
  BY <1>2 DEF Alu!BcdByte

LEMMA Radix2Is == Alu!Radix2 \in Nat \ {0} /\ Alu!Radix4 \in Nat \ {0}
<1>1. Alu!Radix2 \in Nat \ {0}
  BY RadixIs, Product DEF Alu!Radix2
<1> QED
  BY <1>1, Product DEF Alu!Radix4

BytesAdd(x, y, c) ==
    LET n == x + y + c
        r == Alu!BcdByteSum(Alu!BcdByte(x), Alu!BcdByte(y), c)
    IN /\ r.val = Alu!BcdByte(Wrap(n, Alu!Radix2))
       /\ Wrap(n, Alu!Radix2) \in 0 .. Alu!Radix2 - 1
       /\ Alu!Over(r.top) \in 0 .. 1 /\ (Alu!Over(r.top) = 1 <=> n >= Alu!Radix2)
       /\ ((r.top \div Nib) % 2 = 1) <=> n >= Alu!Radix2

LEMMA BcdBytesAdd ==
    ASSUME NEW x \in 0 .. Alu!Radix2 - 1, NEW y \in 0 .. Alu!Radix2 - 1, NEW c \in 0 .. 1
    PROVE  BytesAdd(x, y, c)
<1> DEFINE R2 == Alu!Radix2
           n == x + y + c
           xi == x \div Radix
           xl == x % Radix
           yi == y \div Radix
           yl == y % Radix
           r == Alu!BcdByteSum(Alu!BcdByte(x), Alu!BcdByte(y), c)
           low == Alu!AddDigit(xl, yl, c)
           o == Alu!Over(low)
           high == Alu!AddDigit(xi, yi, o)
<1>1. /\ xi \in 0 .. Radix - 1 /\ xl \in 0 .. Radix - 1 /\ x = xi * Radix + xl
      /\ yi \in 0 .. Radix - 1 /\ yl \in 0 .. Radix - 1 /\ y = yi * Radix + yl
      /\ Alu!BcdByte(x) \div Nib = xi /\ Alu!BcdByte(x) % Nib = xl
      /\ Alu!BcdByte(y) \div Nib = yi /\ Alu!BcdByte(y) % Nib = yl
  BY ByteCode
<1> HIDE DEF xi, xl, yi, yl
<1>2. r = [val |-> (high % Nib) * Nib + (low % Nib), top |-> high]
  BY <1>1, Zenon DEF Alu!BcdByteSum
<1> HIDE DEF r
<1>3. /\ low % Nib = Wrap(xl + yl + c, Radix) /\ Wrap(xl + yl + c, Radix) \in 0 .. Radix - 1
      /\ o \in 0 .. 1 /\ (o = 1 <=> xl + yl + c >= Radix)
  BY <1>1, DigitAdds
<1> HIDE DEF o, low
<1>4. /\ high % Nib = Wrap(xi + yi + o, Radix) /\ Wrap(xi + yi + o, Radix) \in 0 .. Radix - 1
      /\ Alu!Over(high) \in 0 .. 1 /\ (Alu!Over(high) = 1 <=> xi + yi + o >= Radix)
      /\ ((high \div Nib) % 2 = 1) <=> xi + yi + o >= Radix
  BY <1>1, <1>3, DigitAdds
<1> HIDE DEF high
<1>5. SumsOfBytes(Radix, xi, xl, yi, yl, c, o)
  BY <1>1, <1>3, RadixIs, SumOfPieces
<1>6. (xi * Radix + xl) + (yi * Radix + yl) + c = n
  BY <1>1, Zenon
<1>7. /\ n >= R2 <=> xi + yi + o >= Radix
      /\ Wrap(n, R2) = Wrap(xi + yi + o, Radix) * Radix + Wrap(xl + yl + c, Radix)
  BY <1>5, <1>6, Zenon DEF SumsOfBytes, Alu!Radix2
<1>8. Wrap(n, R2) \in 0 .. R2 - 1
  <2>1. R2 \in Nat \ {0} /\ n \in 0 .. 2 * R2 - 1
    BY Radix2Is
  <2> QED
    BY <2>1, WrapIs
<1> HIDE DEF n, R2
<1> DEFINE i == Wrap(xi + yi + o, Radix)
           l == Wrap(xl + yl + c, Radix)
<1>9. Alu!BcdByte(Wrap(n, R2)) = i * Nib + l
  <2>1. i \in 0 .. Radix - 1 /\ l \in 0 .. Radix - 1 /\ Wrap(n, R2) = i * Radix + l
    BY <1>3, <1>4, <1>7
  <2> HIDE DEF i, l
  <2> QED
    BY <2>1, ByteCodeOf
<1>10. r.val = Alu!BcdByte(Wrap(n, R2)) /\ r.top = high
  BY <1>2, <1>3, <1>4, <1>9
<1> QED
  BY <1>4, <1>7, <1>8, <1>10, Zenon DEF BytesAdd, n, R2, r

LEMMA WordCode ==
    ASSUME NEW x \in 0 .. Alu!Radix4 - 1
    PROVE  LET i == x \div Alu!Radix2
               l == x % Alu!Radix2
           IN /\ i \in 0 .. Alu!Radix2 - 1 /\ l \in 0 .. Alu!Radix2 - 1
              /\ x = i * Alu!Radix2 + l
              /\ Alu!BcdWord(x) \in 0 .. Alu!Size16 - 1
              /\ Alu!BcdWord(x) \div Alu!Size8 = Alu!BcdByte(i)
              /\ Alu!BcdWord(x) % Alu!Size8 = Alu!BcdByte(l)
<1> DEFINE R2 == Alu!Radix2
           i == x \div R2
           l == x % R2
           W == Alu!Size8
           bi == Alu!BcdByte(i)
           bl == Alu!BcdByte(l)
<1>1. i \in 0 .. R2 - 1 /\ l \in 0 .. R2 - 1 /\ x = i * R2 + l
  BY Radix2Is, TwoPieces DEF Alu!Radix4
<1>2. Alu!BcdWord(x) = bi * W + bl
  BY DEF Alu!BcdWord
<1> HIDE DEF i, l
<1>3. bi \in 0 .. W - 1 /\ bl \in 0 .. W - 1
  BY <1>1, ByteCode
<1> HIDE DEF bi, bl
<1>4. W \in Nat \ {0} /\ Halves(W, Half8) /\ Alu!Size16 = W * W
  BY Sizes
<1> HIDE DEF W
<1>5. bi \in Nat /\ bl \in Nat /\ bl < W
  BY <1>3, <1>4
<1>6. (bi * W + bl) \div W = bi /\ (bi * W + bl) % W = bl
  BY <1>4, <1>5, Coded
<1>7. bi * W + bl \in 0 .. W * W - 1
  BY <1>3, <1>4, Joined
<1> QED
  BY <1>1, <1>2, <1>4, <1>6, <1>7, Zenon DEF i, l, bi, bl, W

LEMMA WordCodeOf ==
    ASSUME NEW i \in 0 .. Alu!Radix2 - 1, NEW l \in 0 .. Alu!Radix2 - 1
    PROVE  Alu!BcdWord(i * Alu!Radix2 + l) = Alu!BcdByte(i) * Alu!Size8 + Alu!BcdByte(l)
<1> DEFINE R2 == Alu!Radix2
<1>1. i \in Nat /\ l \in Nat /\ l < R2 /\ R2 \in Nat \ {0}
  BY Radix2Is
<1> HIDE DEF R2
<1>2. (i * R2 + l) \div R2 = i /\ (i * R2 + l) % R2 = l
  BY <1>1, Coded
<1> QED
  BY <1>2, Zenon DEF Alu!BcdWord, R2

WordsAdd(x, y, c) ==
    LET n == x + y + c
        r == Alu!BcdWordSum(Alu!BcdWord(x), Alu!BcdWord(y), c)
    IN /\ r.val = Alu!BcdWord(Wrap(n, Alu!Radix4))
       /\ Wrap(n, Alu!Radix4) \in 0 .. Alu!Radix4 - 1
       /\ ((r.top \div Nib) % 2 = 1) <=> n >= Alu!Radix4

LEMMA BcdWordsAdd ==
    ASSUME NEW x \in 0 .. Alu!Radix4 - 1, NEW y \in 0 .. Alu!Radix4 - 1, NEW c \in 0 .. 1
    PROVE  WordsAdd(x, y, c)
<1> DEFINE R2 == Alu!Radix2
           R4 == Alu!Radix4
           n == x + y + c
           xi == x \div R2
           xl == x % R2
           yi == y \div R2
           yl == y % R2
           r == Alu!BcdWordSum(Alu!BcdWord(x), Alu!BcdWord(y), c)
           low == Alu!BcdByteSum(Alu!BcdByte(xl), Alu!BcdByte(yl), c)
           o == Alu!Over(low.top)
           high == Alu!BcdByteSum(Alu!BcdByte(xi), Alu!BcdByte(yi), o)
<1>1. /\ xi \in 0 .. R2 - 1 /\ xl \in 0 .. R2 - 1 /\ x = xi * R2 + xl
      /\ yi \in 0 .. R2 - 1 /\ yl \in 0 .. R2 - 1 /\ y = yi * R2 + yl
      /\ Alu!BcdWord(x) \div Alu!Size8 = Alu!BcdByte(xi)
      /\ Alu!BcdWord(x) % Alu!Size8 = Alu!BcdByte(xl)
      /\ Alu!BcdWord(y) \div Alu!Size8 = Alu!BcdByte(yi)
      /\ Alu!BcdWord(y) % Alu!Size8 = Alu!BcdByte(yl)
  BY WordCode
<1> HIDE DEF xi, xl, yi, yl
<1>2. r = [val |-> high.val * Alu!Size8 + low.val, top |-> high.top]
  BY <1>1, Zenon DEF Alu!BcdWordSum
<1> HIDE DEF r
<1>3. /\ low.val = Alu!BcdByte(Wrap(xl + yl + c, R2)) /\ Wrap(xl + yl + c, R2) \in 0 .. R2 - 1
      /\ o \in 0 .. 1 /\ (o = 1 <=> xl + yl + c >= R2)
  <2>1. BytesAdd(xl, yl, c)
    BY <1>1, BcdBytesAdd
  <2> QED
    BY <2>1, Zenon DEF BytesAdd
<1> HIDE DEF o, low
<1>4. /\ high.val = Alu!BcdByte(Wrap(xi + yi + o, R2)) /\ Wrap(xi + yi + o, R2) \in 0 .. R2 - 1
      /\ ((high.top \div Nib) % 2 = 1) <=> xi + yi + o >= R2
  <2>1. BytesAdd(xi, yi, o)
    BY <1>1, <1>3, BcdBytesAdd
  <2> QED
    BY <2>1, Zenon DEF BytesAdd
<1> HIDE DEF high
<1>5. SumsOfBytes(R2, xi, xl, yi, yl, c, o)
  <2> HIDE DEF R2
  <2>1. R2 \in Nat \ {0}
    BY Radix2Is DEF R2
  <2> QED
    BY <1>1, <1>3, <2>1, SumOfPieces
<1>6. (xi * R2 + xl) + (yi * R2 + yl) + c = n
  BY <1>1, Zenon
<1>7. /\ n >= R4 <=> xi + yi + o >= R2
      /\ Wrap(n, R4) = Wrap(xi + yi + o, R2) * R2 + Wrap(xl + yl + c, R2)
  BY <1>5, <1>6, Zenon DEF SumsOfBytes, Alu!Radix4
<1>8. Wrap(n, R4) \in 0 .. R4 - 1
  <2>1. R4 \in Nat \ {0} /\ n \in 0 .. 2 * R4 - 1
    BY Radix2Is
  <2> QED
    BY <2>1, WrapIs
<1> HIDE DEF n, R4
<1> DEFINE i == Wrap(xi + yi + o, R2)
           l == Wrap(xl + yl + c, R2)
<1>9. Alu!BcdWord(Wrap(n, R4)) = Alu!BcdByte(i) * Alu!Size8 + Alu!BcdByte(l)
  <2>1. i \in 0 .. R2 - 1 /\ l \in 0 .. R2 - 1 /\ Wrap(n, R4) = i * R2 + l
    BY <1>3, <1>4, <1>7
  <2> HIDE DEF i, l
  <2> QED
    BY <2>1, WordCodeOf
<1>10. r.val = Alu!BcdWord(Wrap(n, R4)) /\ r.top = high.top
  BY <1>2, <1>3, <1>4, <1>9
<1> QED
  BY <1>4, <1>7, <1>8, <1>10, Zenon DEF WordsAdd, n, R4, r

LEMMA CodeBelow ==
    /\ \A x \in 0 .. Alu!Radix2 - 1 : Alu!BcdByte(x) \in 0 .. Alu!Size8 - 1
    /\ \A x \in 0 .. Alu!Radix4 - 1 : Alu!BcdWord(x) \in 0 .. Alu!Size16 - 1
BY ByteCode, WordCode

(* What the adder stores and the flags that decimal mode keeps.            *)
LEMMA AdcBcdIs ==
    ASSUME NEW a, NEW v, NEW Q, NEW s, NEW h, Halves(s, h)
    PROVE  LET sum == IF s = Alu!Size8 THEN Alu!BcdByteSum(a, v, Alu!Carry(Q))
                                       ELSE Alu!BcdWordSum(a, v, Alu!Carry(Q))
               add == Alu!cpu_adc_bcd(a, v, Q, s)
           IN /\ add.val = sum.val
              /\ "C" \in add.P <=> (sum.top \div Nib) % 2 = 1
              /\ sum.val \in 0 .. s - 1 => ("Z" \in add.P <=> sum.val = 0)
<1> DEFINE sum == IF s = Alu!Size8 THEN Alu!BcdByteSum(a, v, Alu!Carry(Q))
                                   ELSE Alu!BcdWordSum(a, v, Alu!Carry(Q))
           add == Alu!cpu_adc_bcd(a, v, Q, s)
           out == (sum.top \div Nib) % 2 = 1
           n == sum.val
           F == Alu!flags_n_z(Q, n, s)
           G == Alu!Put(F, "C", out)
<1>1. add = [val |-> n, P |-> G]
  BY Zenon DEF Alu!cpu_adc_bcd
<1>2. out \in BOOLEAN
  OBVIOUS
<1> HIDE DEF out, n, add
<1>3. "C" \in G <=> out
  BY <1>2, FlagPut
<1>4. "Z" \in G <=> "Z" \in F
  BY <1>2, FlagPut
<1>5. ASSUME n \in 0 .. s - 1 PROVE "Z" \in F <=> n = 0
  <2>1. n \in Int /\ s \in Nat \ {0} /\ n % s = n
    BY <1>5, Remainders DEF Halves
  <2>2. "Z" \in F <=> n % s = 0
    BY <2>1, NZIs
  <2> QED
    BY <2>1, <2>2
<1> HIDE DEF G
<1> QED
  BY <1>1, <1>3, <1>4, <1>5 DEF out, n, add, G

(* Subtraction: a digit difference below zero borrows.                     *)
Unwrap(n, s) == IF n < 0 THEN n + s ELSE n

LEMMA UnwrapIs ==
    ASSUME NEW s \in Nat \ {0}, NEW n \in -s .. s - 1
    PROVE  n % s = Unwrap(n, s) /\ Unwrap(n, s) \in 0 .. s - 1
<1>1. n \in Int /\ IF n < 0 THEN n \in -s .. -1 ELSE n \in 0 .. s - 1
  OBVIOUS
<1>2. n % s = Unwrap(n, s)
  BY <1>1, Remainders DEF Unwrap
<1> QED
  BY <1>1, <1>2 DEF Unwrap

LEMMA DigitSubtracts ==
    ASSUME NEW x \in 0 .. Radix - 1, NEW y \in 0 .. Radix - 1, NEW b \in 0 .. 1
    PROVE  LET d == x - y - b
               t == Alu!SubtractDigit(x, y, b)
           IN /\ t.val = Unwrap(d, Radix) /\ Unwrap(d, Radix) \in 0 .. Radix - 1
              /\ t.borrow \in 0 .. 1 /\ (t.borrow = 1 <=> d < 0)
<1> DEFINE d == x - y - b
           e == IF d < 0 THEN d - (Nib - Radix) ELSE d
<1>1. d \in -Radix .. Radix - 1 /\ Unwrap(d, Radix) \in 0 .. Radix - 1
  <2>1. d \in -Radix .. Radix - 1
    BY RadixIs
  <2> QED
    BY <2>1, RadixIs, UnwrapIs
<1>2. Alu!SubtractDigit(x, y, b) = [val |-> e % Nib, borrow |-> IF d < 0 THEN 1 ELSE 0]
  BY DEF Alu!SubtractDigit
<1> HIDE DEF d
<1>3. e \in -Nib .. Nib - 1 /\ Unwrap(e, Nib) = Unwrap(d, Radix)
  BY <1>1, RadixIs DEF Unwrap
<1> HIDE DEF e
<1>4. e % Nib = Unwrap(d, Radix)
  BY <1>3, RadixIs, UnwrapIs
<1> QED
  BY <1>1, <1>2, <1>4 DEF d

(* The difference of two numbers of two digits, and its sign, in a base    *)
(* and in any code that is no smaller.                                     *)
LEMMA SignOfDifference ==
    ASSUME NEW m \in Nat \ {0}, NEW i \in Int, NEW d \in -m .. m - 1
    PROVE  i * m + d >= 0 <=> (IF d < 0 THEN i >= 1 ELSE i >= 0)
<1>1. CASE i >= 1
  <2>1. i * m >= m
    BY <1>1
  <2> QED
    BY <1>1, <2>1
<1>2. CASE i = 0
  BY <1>2
<1>3. CASE i <= -1
  <2>1. i * m <= -m
    BY <1>3
  <2> QED
    BY <1>3, <2>1
<1> QED
  BY <1>1, <1>2, <1>3

LEMMA DifferenceOfPieces ==
    ASSUME NEW m \in Nat \ {0}, NEW i \in -m .. m - 1, NEW w \in 0 .. m - 1
    PROVE  LET n == i * m + w IN
           /\ n >= 0 <=> i >= 0
           /\ n \in -(m * m) .. m * m - 1
           /\ Unwrap(n, m * m) = Unwrap(i, m) * m + w
<1> DEFINE n == i * m + w
<1>1. n >= 0 <=> i >= 0
  BY SignOfDifference
<1>2. (i + m) * m = i * m + m * m
  OBVIOUS
<1>3. n \in -(m * m) .. m * m - 1
  <2>1. i * m <= (m - 1) * m /\ (m - 1) * m = m * m - m
    OBVIOUS
  <2>2. 0 * m <= (i + m) * m
    BY Product
  <2> QED
    BY <1>2, <2>1, <2>2
<1>4. Unwrap(n, m * m) = Unwrap(i, m) * m + w
  <2> HIDE DEF n
  <2>1. CASE i >= 0
    BY <1>1, <2>1 DEF Unwrap, n
  <2>2. CASE ~(i >= 0)
    <3>1. n < 0 /\ i < 0
      BY <1>1, <1>3, <2>2
    <3>2. n + m * m = (i + m) * m + w
      BY <1>2 DEF n
    <3> QED
      BY <3>1, <3>2 DEF Unwrap
  <2> QED
    BY <2>1, <2>2
<1> QED
  BY <1>1, <1>3, <1>4

BytesSubtract(x, y, b) ==
    LET n == x - y - b
        code == Alu!BcdByte(x) - Alu!BcdByte(y) - b
    IN /\ Alu!BcdDifference(Alu!BcdByte(x), Alu!BcdByte(y), b).val
             = Alu!BcdByte(n % Alu!Radix2)
       /\ code >= 0 <=> n >= 0

LEMMA BcdBytesSubtract ==
    ASSUME NEW x \in 0 .. Alu!Radix2 - 1, NEW y \in 0 .. Alu!Radix2 - 1, NEW b \in 0 .. 1
    PROVE  BytesSubtract(x, y, b)
<1> DEFINE R2 == Alu!Radix2
           n == x - y - b
           xi == x \div Radix
           xl == x % Radix
           yi == y \div Radix
           yl == y % Radix
           r == Alu!BcdDifference(Alu!BcdByte(x), Alu!BcdByte(y), b)
           low == Alu!SubtractDigit(xl, yl, b)
           o == low.borrow
           high == Alu!SubtractDigit(xi, yi, o)
           d == xl - yl - b
           w == Unwrap(d, Radix)
           i == xi - yi - o
           g == Unwrap(i, Radix)
<1>1. /\ xi \in 0 .. Radix - 1 /\ xl \in 0 .. Radix - 1 /\ x = xi * Radix + xl
      /\ yi \in 0 .. Radix - 1 /\ yl \in 0 .. Radix - 1 /\ y = yi * Radix + yl
      /\ Alu!BcdByte(x) \div Nib = xi /\ Alu!BcdByte(x) % Nib = xl
      /\ Alu!BcdByte(y) \div Nib = yi /\ Alu!BcdByte(y) % Nib = yl
      /\ Alu!BcdByte(x) = xi * Nib + xl /\ Alu!BcdByte(y) = yi * Nib + yl
  BY ByteCode DEF Alu!BcdByte
<1> HIDE DEF xi, xl, yi, yl
<1>2. r = [val |-> high.val * Nib + low.val, borrow |-> high.borrow]
  BY <1>1, Zenon DEF Alu!BcdDifference
<1> HIDE DEF r
<1>3. low.val = w /\ w \in 0 .. Radix - 1 /\ o \in 0 .. 1 /\ (o = 1 <=> d < 0)
  BY <1>1, DigitSubtracts
<1> HIDE DEF o, low
<1>4. high.val = g /\ g \in 0 .. Radix - 1
  BY <1>1, <1>3, DigitSubtracts
<1> HIDE DEF high
<1>5. r.val = g * Nib + w
  BY <1>2, <1>3, <1>4
<1>6. /\ w = d + o * Radix
      /\ d \in -Radix .. Radix - 1 /\ i \in -Radix .. Radix - 1 /\ xi - yi \in Int
  BY <1>1, <1>3, RadixIs DEF Unwrap
<1>7. n = i * Radix + w
  <2>1. (xi - yi - o) * Radix = xi * Radix - yi * Radix - o * Radix
    BY <1>1, <1>3, RadixIs
  <2>2. /\ xi * Radix \in Int /\ yi * Radix \in Int /\ o * Radix \in Int
    BY <1>1, <1>3, RadixIs
  <2> QED
    BY <1>1, <1>3, <1>6, <2>1, <2>2
<1> HIDE DEF r, g, w, i
<1>8. /\ n >= 0 <=> i >= 0
      /\ n \in -(Radix * Radix) .. Radix * Radix - 1
      /\ Unwrap(n, Radix * Radix) = g * Radix + w
  <2> HIDE DEF n
  <2>1. LET k == i * Radix + w IN
        /\ k >= 0 <=> i >= 0
        /\ k \in -(Radix * Radix) .. Radix * Radix - 1
        /\ Unwrap(k, Radix * Radix) = Unwrap(i, Radix) * Radix + w
    BY <1>3, <1>6, RadixIs, DifferenceOfPieces
  <2> QED
    BY <1>7, <2>1 DEF g
<1>9. n % R2 = g * Radix + w
  <2> HIDE DEF n
  <2>1. R2 = Radix * Radix /\ R2 \in Nat \ {0}
    BY Radix2Is DEF Alu!Radix2
  <2> HIDE DEF R2
  <2>2. n \in -R2 .. R2 - 1
    BY <1>8, <2>1
  <2>3. n % R2 = Unwrap(n, R2)
    BY <2>1, <2>2, UnwrapIs
  <2> QED
    BY <1>8, <2>1, <2>3
<1>10. r.val = Alu!BcdByte(n % R2)
  <2> HIDE DEF n, R2
  <2>1. Alu!BcdByte(g * Radix + w) = g * Nib + w
    BY <1>3, <1>4, ByteCodeOf
  <2> QED
    BY <1>5, <1>9, <2>1
<1> DEFINE code == Alu!BcdByte(x) - Alu!BcdByte(y) - b
<1>11. code >= 0 <=> n >= 0
  <2>1. code = (xi - yi) * Nib + d
    <3>1. (xi - yi) * Nib = xi * Nib - yi * Nib /\ xi * Nib \in Int /\ yi * Nib \in Int
      BY <1>1, RadixIs
    <3> QED
      BY <1>1, <3>1
  <2>2. n = (xi - yi) * Radix + d
    <3>1. /\ (xi - yi) * Radix = xi * Radix - yi * Radix
          /\ xi * Radix \in Int /\ yi * Radix \in Int
      BY <1>1, RadixIs
    <3> QED
      BY <1>1, <3>1
  <2>3. d \in -Nib .. Nib - 1
    BY <1>6, RadixIs
  <2> HIDE DEF d, n, code
  <2>4. (xi - yi) * Nib + d >= 0 <=> (IF d < 0 THEN xi - yi >= 1 ELSE xi - yi >= 0)
    BY <1>6, <2>3, RadixIs, SignOfDifference
  <2>5. (xi - yi) * Radix + d >= 0 <=> (IF d < 0 THEN xi - yi >= 1 ELSE xi - yi >= 0)
    BY <1>6, RadixIs, SignOfDifference
  <2> QED
    BY <2>1, <2>2, <2>4, <2>5
<1> QED
  BY <1>10, <1>11 DEF BytesSubtract, r

LEMMA SbcBcdIs ==
    ASSUME NEW a, NEW v, NEW Q
    PROVE  LET b   == 1 - Alu!Carry(Q)
               sub == Alu!cpu_sbc_bcd(a, v, Q, Alu!Size8)
           IN /\ sub.val = Alu!BcdDifference(a, v, b).val
              /\ "C" \in sub.P <=> a - v - b >= 0
<1> DEFINE b == 1 - Alu!Carry(Q)
           sub == Alu!cpu_sbc_bcd(a, v, Q, Alu!Size8)
           ok == a - v - b >= 0
<1>1. PICK G : sub = [val |-> Alu!BcdDifference(a, v, b).val, P |-> Alu!Put(G, "C", ok)]
  BY Zenon DEF Alu!cpu_sbc_bcd
<1>2. ok \in BOOLEAN
  OBVIOUS
<1> HIDE DEF ok, sub
<1>3. "C" \in Alu!Put(G, "C", ok) <=> ok
  BY <1>2, FlagPut
<1> QED
  BY <1>1, <1>3 DEF ok, sub
-----------------------------------------------------------------------------
LEMMA DecimalHolds == Alu!DecimalIsArithmetic
<1> DEFINE c == Alu!Carry(status)
           b == 1 - c
<1>1. c \in 0 .. 1 /\ b \in 0 .. 1
  BY CarryIs
<1> HIDE DEF c, b
<1>2. ASSUME NEW x \in 0 .. Alu!Radix2 - 1, NEW y \in 0 .. Alu!Radix2 - 1
      PROVE  Alu!DecimalAdds(x, y, Alu!Radix2, Alu!Size8)
  <2> DEFINE n == x + y + c
             r == Alu!BcdByteSum(Alu!BcdByte(x), Alu!BcdByte(y), c)
             add == Alu!cpu_adc_bcd(Alu!BcdByte(x), Alu!BcdByte(y), status, Alu!Size8)
  <2>1. BytesAdd(x, y, c)
    BY <1>1, BcdBytesAdd
  <2>2. n % Alu!Radix2 = Wrap(n, Alu!Radix2)
    <3>1. n \in 0 .. 2 * Alu!Radix2 - 1 /\ Alu!Radix2 \in Nat \ {0}
      BY <1>1, Radix2Is
    <3> QED
      BY <3>1, WrapIs
  <2>3. /\ add.val = r.val
        /\ "C" \in add.P <=> (r.top \div Nib) % 2 = 1
        /\ r.val \in 0 .. Alu!Size8 - 1 => ("Z" \in add.P <=> r.val = 0)
    BY Sizes, AdcBcdIs DEF c
  <2>4. /\ r.val = Alu!BcdByte(n % Alu!Radix2) /\ n % Alu!Radix2 \in 0 .. Alu!Radix2 - 1
        /\ ((r.top \div Nib) % 2 = 1) <=> n >= Alu!Radix2
    BY <2>1, <2>2, Zenon DEF BytesAdd
  <2>5. r.val \in 0 .. Alu!Size8 - 1
    BY <2>4, CodeBelow
  <2>6. Alu!Bcd(x, Alu!Size8) = Alu!BcdByte(x) /\ Alu!Bcd(y, Alu!Size8) = Alu!BcdByte(y)
        /\ Alu!Bcd(n % Alu!Radix2, Alu!Size8) = Alu!BcdByte(n % Alu!Radix2)
    BY Zenon DEF Alu!Bcd
  <2> HIDE DEF n, r, add
  <2>7. /\ add.val = Alu!BcdByte(n % Alu!Radix2)
        /\ "C" \in add.P <=> n >= Alu!Radix2
        /\ "Z" \in add.P <=> add.val = 0
    BY <2>3, <2>4, <2>5, Zenon
  <2> QED
    BY <2>6, <2>7, Zenon DEF Alu!DecimalAdds, n, add, c
<1>3. ASSUME NEW x \in 0 .. Alu!Radix4 - 1, NEW y \in 0 .. Alu!Radix4 - 1
      PROVE  Alu!DecimalAdds(x, y, Alu!Radix4, Alu!Size16)
  <2> DEFINE n == x + y + c
             r == Alu!BcdWordSum(Alu!BcdWord(x), Alu!BcdWord(y), c)
             add == Alu!cpu_adc_bcd(Alu!BcdWord(x), Alu!BcdWord(y), status, Alu!Size16)
  <2>1. WordsAdd(x, y, c)
    BY <1>1, BcdWordsAdd
  <2>2. n % Alu!Radix4 = Wrap(n, Alu!Radix4)
    <3>1. n \in 0 .. 2 * Alu!Radix4 - 1 /\ Alu!Radix4 \in Nat \ {0}
      BY <1>1, Radix2Is
    <3> QED
      BY <3>1, WrapIs
  <2>3. /\ add.val = r.val
        /\ "C" \in add.P <=> (r.top \div Nib) % 2 = 1
        /\ r.val \in 0 .. Alu!Size16 - 1 => ("Z" \in add.P <=> r.val = 0)
    BY Sizes, AdcBcdIs DEF c
  <2>4. /\ r.val = Alu!BcdWord(n % Alu!Radix4) /\ n % Alu!Radix4 \in 0 .. Alu!Radix4 - 1
        /\ ((r.top \div Nib) % 2 = 1) <=> n >= Alu!Radix4
    BY <2>1, <2>2, Zenon DEF WordsAdd
  <2>5. r.val \in 0 .. Alu!Size16 - 1
    BY <2>4, CodeBelow
  <2>6. Alu!Bcd(x, Alu!Size16) = Alu!BcdWord(x) /\ Alu!Bcd(y, Alu!Size16) = Alu!BcdWord(y)
        /\ Alu!Bcd(n % Alu!Radix4, Alu!Size16) = Alu!BcdWord(n % Alu!Radix4)
    BY Sizes, Zenon DEF Alu!Bcd
  <2> HIDE DEF n, r, add
  <2>7. /\ add.val = Alu!BcdWord(n % Alu!Radix4)
        /\ "C" \in add.P <=> n >= Alu!Radix4
        /\ "Z" \in add.P <=> add.val = 0
    BY <2>3, <2>4, <2>5, Zenon
  <2> QED
    BY <2>6, <2>7, Zenon DEF Alu!DecimalAdds, n, add, c
<1>4. ASSUME NEW x \in 0 .. Alu!Radix2 - 1, NEW y \in 0 .. Alu!Radix2 - 1
      PROVE  Alu!DecimalSubtracts(x, y)
  <2>1. BytesSubtract(x, y, b)
    BY <1>1, BcdBytesSubtract
  <2> DEFINE sub == Alu!cpu_sbc_bcd(Alu!BcdByte(x), Alu!BcdByte(y), status, Alu!Size8)
  <2>2. /\ sub.val = Alu!BcdDifference(Alu!BcdByte(x), Alu!BcdByte(y), b).val
        /\ "C" \in sub.P <=> Alu!BcdByte(x) - Alu!BcdByte(y) - b >= 0
    BY SbcBcdIs DEF b, c
  <2> HIDE DEF sub
  <2>3. /\ sub.val = Alu!BcdByte((x - y - b) % Alu!Radix2)
        /\ "C" \in sub.P <=> x - y - b >= 0
    BY <2>1, <2>2, Zenon DEF BytesSubtract
  <2> QED
    BY <2>3, Zenon DEF Alu!DecimalSubtracts, sub, b, c
<1> QED
  BY <1>2, <1>3, <1>4, Zenon DEF Alu!DecimalIsArithmetic
-----------------------------------------------------------------------------
(* Every result is below the size, and so the accumulator stays a word.    *)
LEMMA BinaryFits ==
    ASSUME NEW s \in Nat \ {0}, NEW a \in Nat, NEW v \in Nat, NEW Q
    PROVE  /\ Alu!cpu_adc(a, v, Q, s).val \in 0 .. s - 1
           /\ v < s => Alu!cpu_sbc(a, v, Q, s).val \in 0 .. s - 1
           /\ Alu!cpu_asl(a, Q, s).val \in 0 .. s - 1
           /\ Alu!cpu_rol(a, Q, s).val \in 0 .. s - 1
           /\ Alu!cpu_lsr(a, Q, s).val \in 0 .. s - 1
           /\ Alu!cpu_ror(a, Q, s).val \in 0 .. s - 1
           /\ Alu!cpu_inc(a, Q, s).val \in 0 .. s - 1
           /\ Alu!cpu_dec(a, Q, s).val \in 0 .. s - 1
<1> DEFINE c == Alu!Carry(Q)
<1>1. c \in Int
  BY CarryIs
<1> HIDE DEF c
<1>2. \A n \in Int : n % s \in 0 .. s - 1
  BY Quotients
<1>3. /\ a + v + c \in Int /\ a + (s - 1 - v) + c \in Int /\ 2 * a \in Int /\ 2 * a + c \in Int
      /\ a \div 2 \in Int /\ a + 1 \in Int /\ a - 1 \in Int
  BY <1>1
<1>4. a \div 2 + c * (s \div 2) \in Int
  <2>1. s \div 2 \in Int
    OBVIOUS
  <2> QED
    BY <1>1, <1>3, <2>1
<1>5. /\ Alu!cpu_adc(a, v, Q, s).val = (a + v + c) % s
      /\ Alu!cpu_sbc(a, v, Q, s).val = (a + (s - 1 - v) + c) % s
  BY Zenon DEF Alu!cpu_adc, Alu!cpu_sbc, c
<1>6. /\ Alu!cpu_asl(a, Q, s).val = (2 * a) % s
      /\ Alu!cpu_rol(a, Q, s).val = (2 * a + c) % s
      /\ Alu!cpu_lsr(a, Q, s).val = (a \div 2) % s
      /\ Alu!cpu_ror(a, Q, s).val = (a \div 2 + c * (s \div 2)) % s
  BY Zenon DEF Alu!cpu_asl, Alu!cpu_rol, Alu!cpu_lsr, Alu!cpu_ror, Alu!Shifted, c
<1>7. /\ Alu!cpu_inc(a, Q, s).val = (a + 1) % s
      /\ Alu!cpu_dec(a, Q, s).val = (a - 1) % s
  BY Zenon DEF Alu!cpu_inc, Alu!cpu_dec
<1> QED
  BY <1>2, <1>3, <1>4, <1>5, <1>6, <1>7

LEMMA TwoDigits ==
    ASSUME NEW B, NEW h, Halves(B, h), NEW i \in Int, NEW l \in Int
    PROVE  (i % B) * B + (l % B) \in 0 .. B * B - 1
<1> DEFINE x == i % B
           y == l % B
<1>1. x \in 0 .. B - 1 /\ y \in 0 .. B - 1
  BY Quotients DEF Halves
<1> HIDE DEF x, y
<1>2. x * B + y \in 0 .. B * B - 1
  BY <1>1, Joined
<1> QED
  BY <1>2 DEF x, y

SubtractDigitFits(r) == r.val \in 0 .. Nib - 1 /\ r.borrow \in 0 .. 1

LEMMA DecimalFits ==
    ASSUME NEW a \in Nat, NEW v \in Nat, NEW Q, NEW s \in {Alu!Size8, Alu!Size16}
    PROVE  /\ Alu!cpu_adc_bcd(a, v, Q, s).val \in 0 .. s - 1
           /\ Alu!cpu_sbc_bcd(a, v, Q, s).val \in 0 .. s - 1
<1>1. /\ Nib \in Nat \ {0} /\ Radix \in Nat /\ Halves(Nib, HalfNib) /\ Alu!Size8 = Nib * Nib
      /\ Halves(Alu!Size8, Half8) /\ Alu!Size8 \in Nat \ {0}
      /\ Alu!Size16 = Alu!Size8 * Alu!Size8 /\ Alu!Size16 \in Nat \ {0}
      /\ Alu!Size8 # Alu!Size16
  BY RadixIs, Sizes DEF Alu!Size8
<1>2. ASSUME NEW x \in Int, NEW y \in Int, NEW c \in 0 .. 1
      PROVE  /\ Alu!BcdByteSum(x, y, c).val \in 0 .. Alu!Size8 - 1
             /\ Alu!Over(Alu!BcdByteSum(x, y, c).top) \in 0 .. 1
  <2> DEFINE low == Alu!AddDigit(x % Nib, y % Nib, c)
             o == Alu!Over(low)
             high == Alu!AddDigit(x \div Nib, y \div Nib, o)
  <2>1. low \in Int
    <3>1. x % Nib \in Int /\ y % Nib \in Int
      BY <1>1, Quotients
    <3> QED
      BY <1>1, <3>1 DEF Alu!AddDigit
  <2>2. \A n : Alu!Over(n) \in 0 .. 1
    BY DEF Alu!Over
  <2> HIDE DEF low
  <2>3. high \in Int
    <3>1. x \div Nib \in Int /\ y \div Nib \in Int /\ o \in 0 .. 1
      BY <1>1, <2>2, Quotients
    <3> QED
      BY <1>1, <3>1 DEF Alu!AddDigit
  <2>4. Alu!BcdByteSum(x, y, c) = [val |-> (high % Nib) * Nib + (low % Nib), top |-> high]
    BY Zenon DEF Alu!BcdByteSum, low
  <2> HIDE DEF high
  <2>5. (high % Nib) * Nib + (low % Nib) \in 0 .. Nib * Nib - 1
    BY <1>1, <2>1, <2>3, TwoDigits
  <2> QED
    BY <1>1, <2>2, <2>4, <2>5
<1> DEFINE W == Alu!Size8
<1>3. ASSUME NEW c \in 0 .. 1
      PROVE  Alu!BcdWordSum(a, v, c).val \in 0 .. W * W - 1
  <2> DEFINE low == Alu!BcdByteSum(a % W, v % W, c)
             o == Alu!Over(low.top)
             high == Alu!BcdByteSum(a \div W, v \div W, o)
  <2>1. a % W \in Int /\ v % W \in Int /\ a \div W \in Int /\ v \div W \in Int
    BY <1>1, Quotients
  <2>2. low.val \in 0 .. W - 1 /\ o \in 0 .. 1
    BY <1>2, <2>1
  <2> HIDE DEF low, o
  <2>3. high.val \in 0 .. W - 1
    BY <1>2, <2>1, <2>2
  <2>4. Alu!BcdWordSum(a, v, c).val = high.val * W + low.val
    BY Zenon DEF Alu!BcdWordSum, low, o
  <2> HIDE DEF high, W
  <2>5. high.val * W + low.val \in 0 .. W * W - 1
    BY <1>1, <2>2, <2>3, Joined DEF W
  <2> QED
    BY <2>4, <2>5
<1>4. Alu!cpu_adc_bcd(a, v, Q, s).val \in 0 .. s - 1
  <2> DEFINE c == Alu!Carry(Q)
  <2>1. c \in 0 .. 1
    BY CarryIs
  <2>2. Alu!cpu_adc_bcd(a, v, Q, s).val
          = IF s = W THEN Alu!BcdByteSum(a, v, c).val ELSE Alu!BcdWordSum(a, v, c).val
    BY DEF Alu!cpu_adc_bcd
  <2> HIDE DEF c
  <2>3. a \in Int /\ v \in Int
    OBVIOUS
  <2> QED
    BY <1>1, <1>2, <1>3, <2>1, <2>2, <2>3
<1>5. ASSUME NEW x \in Int, NEW y \in Int, NEW b \in 0 .. 1
      PROVE  SubtractDigitFits(Alu!SubtractDigit(x, y, b))
  <2> DEFINE d == x - y - b
             e == IF d < 0 THEN d - (Nib - Radix) ELSE d
  <2>1. e \in Int
    BY <1>1
  <2>2. Alu!SubtractDigit(x, y, b) = [val |-> e % Nib, borrow |-> IF d < 0 THEN 1 ELSE 0]
    BY DEF Alu!SubtractDigit
  <2> HIDE DEF d, e
  <2>3. e % Nib \in 0 .. Nib - 1
    BY <1>1, <2>1, Quotients
  <2> QED
    BY <2>2, <2>3 DEF SubtractDigitFits
<1>6. ASSUME NEW x \in Int, NEW y \in Int, NEW b \in 0 .. 1
      PROVE  LET r == Alu!BcdDifference(x, y, b) IN r.val \in 0 .. W - 1 /\ r.borrow \in 0 .. 1
  <2> DEFINE low == Alu!SubtractDigit(x % Nib, y % Nib, b)
             high == Alu!SubtractDigit(x \div Nib, y \div Nib, low.borrow)
  <2>1. x % Nib \in Int /\ y % Nib \in Int /\ x \div Nib \in Int /\ y \div Nib \in Int
    BY <1>1, Quotients
  <2>2. SubtractDigitFits(low)
    BY <1>5, <2>1
  <2>3. Alu!BcdDifference(x, y, b) = [val |-> high.val * Nib + low.val, borrow |-> high.borrow]
    BY Zenon DEF Alu!BcdDifference
  <2> HIDE DEF low
  <2>4. low.val \in 0 .. Nib - 1 /\ low.borrow \in 0 .. 1
    BY <2>2 DEF SubtractDigitFits
  <2>5. SubtractDigitFits(high)
    BY <1>5, <2>1, <2>4
  <2> HIDE DEF high
  <2>6. high.val \in 0 .. Nib - 1 /\ high.borrow \in 0 .. 1
    BY <2>5 DEF SubtractDigitFits
  <2>7. high.val * Nib + low.val \in 0 .. Nib * Nib - 1
    BY <1>1, <2>4, <2>6, Joined
  <2> QED
    BY <1>1, <2>3, <2>6, <2>7
<1>7. ASSUME NEW b \in 0 .. 1
      PROVE  Alu!BcdWordDifference(a, v, b) \in 0 .. Alu!Size16 - 1
  <2> DEFINE low == Alu!BcdDifference(a % W, v % W, b)
             d == ((a \div W) % Nib) - ((v \div W) % Nib) - low.borrow
             e == IF d < 0 THEN d - (Nib - Radix) ELSE d
             n == low.val + e * W
  <2>1. a % W \in Int /\ v % W \in Int /\ a \div W \in Int /\ v \div W \in Int
    BY <1>1, Quotients
  <2>2. low.val \in Int /\ low.borrow \in Int
    <3>1. low.val \in 0 .. W - 1 /\ low.borrow \in 0 .. 1
      BY <1>6, <2>1
    <3> HIDE DEF low, W
    <3> QED
      BY <3>1
  <2>3. (a \div W) % Nib \in Int /\ (v \div W) % Nib \in Int
    BY <1>1, <2>1, Quotients
  <2> HIDE DEF low
  <2>4. d \in Int
    BY <2>2, <2>3
  <2> HIDE DEF d
  <2>5. e \in Int
    BY <1>1, <2>4
  <2>6. W \in Int
    BY <1>1
  <2> HIDE DEF e, W
  <2>7. n \in Int
    BY <2>2, <2>5, <2>6
  <2>8. Alu!BcdWordDifference(a, v, b) = n % Alu!Size16
    BY Zenon DEF Alu!BcdWordDifference, low, d, e, W
  <2> HIDE DEF n
  <2> QED
    BY <1>1, <2>7, <2>8, Quotients
<1>8. Alu!cpu_sbc_bcd(a, v, Q, s).val \in 0 .. s - 1
  <2> DEFINE b == 1 - Alu!Carry(Q)
  <2>1. b \in 0 .. 1
    BY CarryIs
  <2>2. Alu!cpu_sbc_bcd(a, v, Q, s).val
          = IF s = W THEN Alu!BcdDifference(a, v, b).val ELSE Alu!BcdWordDifference(a, v, b)
    BY Zenon DEF Alu!cpu_sbc_bcd
  <2> HIDE DEF b
  <2>3. a \in Int /\ v \in Int
    OBVIOUS
  <2> QED
    BY <1>1, <1>6, <1>7, <2>1, <2>2, <2>3
<1> QED
  BY <1>4, <1>8

StoresBelow(n) == n \in 0 .. Alu!size - 1

LEMMA StoreKeeps ==
    ASSUME WordsOnly, NEW n, StoresBelow(n), Alu!Store(n)
    PROVE  WordsOnly'
<1> DEFINE s == Alu!size
           q == accumulator \div s
<1>1. /\ s \in {Alu!Size8, Alu!Size16} /\ n \in 0 .. s - 1 /\ accumulator' = q * s + n
  BY DEF Alu!size, Alu!Size, StoresBelow, Alu!Store
<1>2. /\ Halves(Alu!Size8, Half8) /\ Alu!Size8 \in Nat \ {0} /\ Alu!Size16 \in Nat \ {0}
      /\ Alu!Size16 = Alu!Size8 * Alu!Size8 /\ accumulator \in 0 .. Alu!Size16 - 1
  BY Sizes DEF WordsOnly
<1>3. CASE s = Alu!Size8
  <2>1. q \in 0 .. Alu!Size8 - 1
    BY <1>2, <1>3, TwoPieces
  <2> HIDE DEF q, s
  <2>2. q * Alu!Size8 + n \in 0 .. Alu!Size8 * Alu!Size8 - 1
    BY <1>1, <1>2, <1>3, <2>1, Joined
  <2> QED
    BY <1>1, <1>2, <1>3, <2>2 DEF WordsOnly
<1>4. CASE s = Alu!Size16
  <2>1. q = 0
    <3>1. accumulator \in Int /\ 0 \in Int /\ accumulator = 0 * Alu!Size16 + accumulator
      BY <1>2
    <3> QED
      BY <1>2, <1>4, <3>1, OneQuotient
  <2> HIDE DEF q, s
  <2> QED
    BY <1>1, <1>2, <1>4, <2>1 DEF WordsOnly
<1> QED
  BY <1>1, <1>3, <1>4

LEMMA WordsStay == Alu!Spec => []WordsOnly
<1>1. Alu!Init => WordsOnly
  BY Sizes DEF Alu!Init, WordsOnly
<1>2. WordsOnly /\ [Alu!Next]_(Alu!vars) => WordsOnly'
  <2> SUFFICES ASSUME WordsOnly, [Alu!Next]_(Alu!vars) PROVE WordsOnly'
    OBVIOUS
  <2> DEFINE s == Alu!size
             a == accumulator % s
  <2>1. s \in {Alu!Size8, Alu!Size16} /\ s \in Nat \ {0}
    BY Sizes DEF Alu!size, Alu!Size
  <2> HIDE DEF s
  <2>2. a \in Nat
    BY <2>1, Sizes, Quotients DEF WordsOnly
  <2> HIDE DEF a
  <2>3. ASSUME UNCHANGED accumulator PROVE WordsOnly'
    BY <2>3 DEF WordsOnly
  <2>4. ASSUME NEW v \in Numbers, NEW w, w = v % s,
               Alu!LDA(w) \/ Alu!ADC(w) \/ Alu!SBC(w) \/ Alu!CMP(w)
        PROVE  WordsOnly'
    <3>1. w \in 0 .. s - 1 /\ w \in Nat /\ w < s
      <4>1. v \in Int
        BY Sizes, ArithmeticAssumption DEF Alu!AluAssumption
      <4> QED
        BY <2>1, <2>4, <4>1, Quotients
    <3>2. CASE Alu!LDA(w)
      BY <3>1, <3>2, StoreKeeps DEF Alu!LDA, StoresBelow, s
    <3>3. CASE Alu!ADC(w)
      <4> DEFINE n == IF "D" \in status THEN Alu!cpu_adc_bcd(a, w, status, s).val
                                        ELSE Alu!cpu_adc(a, w, status, s).val
      <4>1. n \in 0 .. s - 1
        BY <2>1, <2>2, <3>1, BinaryFits, DecimalFits
      <4>2. Alu!Store(n)
        BY <3>3 DEF Alu!ADC, Alu!Result, a, s
      <4> HIDE DEF n
      <4> QED
        BY <4>1, <4>2, StoreKeeps DEF StoresBelow, s
    <3>4. CASE Alu!SBC(w)
      <4> DEFINE n == IF "D" \in status THEN Alu!cpu_sbc_bcd(a, w, status, s).val
                                        ELSE Alu!cpu_sbc(a, w, status, s).val
      <4>1. n \in 0 .. s - 1
        BY <2>1, <2>2, <3>1, BinaryFits, DecimalFits
      <4>2. Alu!Store(n)
        BY <3>4 DEF Alu!SBC, Alu!Result, a, s
      <4> HIDE DEF n
      <4> QED
        BY <4>1, <4>2, StoreKeeps DEF StoresBelow, s
    <3>5. CASE Alu!CMP(w)
      BY <2>3, <3>5 DEF Alu!CMP
    <3> QED
      BY <2>4, <3>2, <3>3, <3>4, <3>5
  <2>5. ASSUME Alu!ASL_A \/ Alu!ROL_A \/ Alu!LSR_A \/ Alu!ROR_A \/ Alu!INC_A \/ Alu!DEC_A
        PROVE  WordsOnly'
    <3>1. PICK n : Alu!Store(n) /\ n \in 0 .. s - 1
      <4>1. /\ Alu!cpu_asl(a, status, s).val \in 0 .. s - 1
            /\ Alu!cpu_rol(a, status, s).val \in 0 .. s - 1
            /\ Alu!cpu_lsr(a, status, s).val \in 0 .. s - 1
            /\ Alu!cpu_ror(a, status, s).val \in 0 .. s - 1
            /\ Alu!cpu_inc(a, status, s).val \in 0 .. s - 1
            /\ Alu!cpu_dec(a, status, s).val \in 0 .. s - 1
        BY <2>1, <2>2, BinaryFits
      <4> QED
        BY <2>5, <4>1 DEF Alu!ASL_A, Alu!ROL_A, Alu!LSR_A, Alu!ROR_A, Alu!INC_A, Alu!DEC_A,
                          Alu!Result, a, s
    <3> QED
      BY <3>1, StoreKeeps DEF StoresBelow, s
  <2>6. ASSUME Alu!SEC \/ Alu!CLC \/ Alu!SED \/ Alu!CLD \/ Alu!SEP \/ Alu!REP
        PROVE  WordsOnly'
    BY <2>3, <2>6 DEF Alu!SEC, Alu!CLC, Alu!SED, Alu!CLD, Alu!SEP, Alu!REP
  <2>7. CASE UNCHANGED Alu!vars
    BY <2>3, <2>7 DEF Alu!vars
  <2> QED
    BY <2>4, <2>5, <2>6, <2>7 DEF Alu!Next, s
<1> QED
  BY <1>1, <1>2, PTL DEF Alu!Spec

(* In every state of the arithmetic, for digits of every even number of    *)
(* values, every radix below it and every set of operands, binary mode     *)
(* adds, subtracts, compares, shifts and rotates words and their bytes as  *)
(* numbers, with the carries, the signed overflow and the inverses, and    *)
(* decimal mode adds and subtracts decimal numbers (cpu_adc, cpu_sbc and   *)
(* the other inline functions of clem_code.h).                             *)
THEOREM AdditionIsArithmetic == Alu!Spec => []AddersAreArithmetic
<1>1. WordsOnly => AddersAreArithmetic
  BY BinaryHolds, DecimalHolds DEF AddersAreArithmetic
<1> QED
  BY <1>1, WordsStay, PTL
=============================================================================
