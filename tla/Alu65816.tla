----------------------------- MODULE Alu65816 -----------------------------
(* The arithmetic of the 65816: the inline functions of clem_code.h that   *)
(* cpu_execute calls with an operand, and the instructions that use them   *)
(* on the accumulator.  A byte is two digits of Nib values (16 in the      *)
(* code), and decimal mode counts to Radix (10) in each of them.  An       *)
(* operand is a number below size, which is Size8 or Size16 as the M bit *)
(* tells.  P is the set of the status bits that are set; X and I, which no *)
(* arithmetic touches, are left to Cpu65816.  An operator returns what the *)
(* code stores and the new P.                                              *)
(*                                                                         *)
(* AND, ORA and EOR are loads here: which bits their result has is data of *)
(* the guest.                                                              *)
EXTENDS Integers

CONSTANTS Nib, Radix,
          Operands      \* the words that instructions read

Size8 == Nib * Nib
Size16 == Size8 * Size8
Size(is8) == IF is8 THEN Size8 ELSE Size16

Flags == {"N", "V", "M", "D", "Z", "C"}

AluAssumption ==
    /\ Nib \in Nat /\ Radix \in Nat /\ Nib % 2 = 0
    /\ 1 < Radix /\ Radix < Nib
    /\ Operands \subseteq 0 .. Size16 - 1

Put(P, flag, set) == IF set THEN P \union {flag} ELSE P \ {flag}
Carry(P) == IF "C" \in P THEN 1 ELSE 0
Negative(n, size) == n % size >= size \div 2

flags_n_z(P, n, size) ==
    Put(Put(P, "N", Negative(n, size)), "Z", n % size = 0)
----------------------------------------------------------------------------
(* Binary addition and subtraction.  The subtraction adds the complement.  *)
(* Mutant of cpu_adc: the overflow looks at one operand only. *)
cpu_adc_one_sign(a, v, P, size) ==
    LET sum == a + v + Carry(P)
        overflow == Negative(a, size) # Negative(sum, size)
    IN [val |-> sum % size,
        P   |-> Put(Put(flags_n_z(P, sum, size), "V", overflow), "C", sum >= size)]

cpu_adc(a, v, P, size) ==
    LET sum == a + v + Carry(P)
        overflow == /\ Negative(a, size) # Negative(sum, size)
                    /\ Negative(v, size) # Negative(sum, size)
    IN [val |-> sum % size,
        P   |-> Put(Put(flags_n_z(P, sum, size), "V", overflow), "C", sum >= size)]

cpu_sbc(a, v, P, size) == cpu_adc(a, size - 1 - v, P, size)

cpu_cmp(r, v, P, size) == flags_n_z(Put(P, "C", r >= v), r - v, size)
----------------------------------------------------------------------------
(* Decimal addition, digit by digit.  A digit sum that passes the radix    *)
(* skips the codes that are no digits; "top" is the adjusted sum of the    *)
(* last digit, whose carry the code takes from one bit.                    *)
AddDigit(x, y, c) == LET d == x + y + c IN IF d >= Radix THEN d + (Nib - Radix) ELSE d

Over(sum) == IF sum >= Nib THEN 1 ELSE 0

BcdByteSum(a, v, c) ==
    LET low  == AddDigit(a % Nib, v % Nib, c)
        high == AddDigit(a \div Nib, v \div Nib, Over(low))
    IN [val |-> (high % Nib) * Nib + (low % Nib), top |-> high]

BcdWordSum(a, v, c) ==
    LET low  == BcdByteSum(a % Size8, v % Size8, c)
        high == BcdByteSum(a \div Size8, v \div Size8, Over(low.top))
    IN [val |-> high.val * Size8 + low.val, top |-> high.top]

(* The overflow that the code works out is lost: P is read again before    *)
(* the carry is put in.                                                    *)
cpu_adc_bcd(a, v, P, size) ==
    LET sum == IF size = Size8 THEN BcdByteSum(a, v, Carry(P)) ELSE BcdWordSum(a, v, Carry(P))
    IN [val |-> sum.val,
        P   |-> Put(flags_n_z(P, sum.val, size), "C", (sum.top \div Nib) % 2 = 1)]

(* A decimal difference of digits and of bytes, and what it borrows.       *)
SubtractDigit(x, y, b) ==
    LET d == x - y - b
    IN [val    |-> (IF d < 0 THEN d - (Nib - Radix) ELSE d) % Nib,
        borrow |-> IF d < 0 THEN 1 ELSE 0]

BcdDifference(a, v, b) ==
    LET low  == SubtractDigit(a % Nib, v % Nib, b)
        high == SubtractDigit(a \div Nib, v \div Nib, low.borrow)
    IN [val |-> high.val * Nib + low.val, borrow |-> high.borrow]

(* A word has four digits, but the code subtracts three: the fourth is     *)
(* what the sign extension of the third leaves there.                      *)
BcdWordDifference(a, v, b) ==
    LET low == BcdDifference(a % Size8, v % Size8, b)
        d   == ((a \div Size8) % Nib) - ((v \div Size8) % Nib) - low.borrow
        e   == IF d < 0 THEN d - (Nib - Radix) ELSE d
    IN (low.val + e * Size8) % Size16

cpu_sbc_bcd(a, v, P, size) ==
    LET borrow == 1 - Carry(P)
        plain  == a - v - borrow
        diff   == IF size = Size8 THEN BcdDifference(a, v, borrow).val
                                 ELSE BcdWordDifference(a, v, borrow)
        signed == IF size = Size8 THEN plain ELSE diff
        overflow == /\ Negative(a, size) # Negative(signed, size)
                    /\ Negative(a, size) # Negative(v, size)
    IN [val |-> diff,
        P   |-> Put(Put(flags_n_z(P, plain, size), "V", overflow), "C", plain >= 0)]
----------------------------------------------------------------------------
(* Shifts, rotates and steps by one.                                       *)
Shifted(P, n, out, size) == [val |-> n % size, P |-> flags_n_z(Put(P, "C", out), n, size)]

cpu_asl(v, P, size) == Shifted(P, 2 * v, Negative(v, size), size)
cpu_rol(v, P, size) == Shifted(P, 2 * v + Carry(P), Negative(v, size), size)
cpu_lsr(v, P, size) == Shifted(P, v \div 2, v % 2 = 1, size)
cpu_ror(v, P, size) == Shifted(P, v \div 2 + Carry(P) * (size \div 2), v % 2 = 1, size)

cpu_inc(v, P, size) == [val |-> (v + 1) % size, P |-> flags_n_z(P, v + 1, size)]
cpu_dec(v, P, size) == [val |-> (v - 1) % size, P |-> flags_n_z(P, v - 1, size)]
----------------------------------------------------------------------------
(* The instructions, over all their addressing modes: the operand is the   *)
(* byte or word that the mode finds.                                       *)
VARIABLES A, P
vars == <<A, P>>

size == Size("M" \in P)

Store(n) == A' = (A \div size) * size + n

Result(r) == Store(r.val) /\ P' = r.P

Init == A = 0 /\ P = {"M"}

LDA(v) == Store(v) /\ P' = flags_n_z(P, v, size)
ADC(v) == Result(IF "D" \in P THEN cpu_adc_bcd(A % size, v, P, size)
                              ELSE cpu_adc(A % size, v, P, size))
SBC(v) == Result(IF "D" \in P THEN cpu_sbc_bcd(A % size, v, P, size)
                              ELSE cpu_sbc(A % size, v, P, size))
CMP(v) == P' = cpu_cmp(A % size, v, P, size) /\ UNCHANGED A

ASL_A == Result(cpu_asl(A % size, P, size))
ROL_A == Result(cpu_rol(A % size, P, size))
LSR_A == Result(cpu_lsr(A % size, P, size))
ROR_A == Result(cpu_ror(A % size, P, size))
INC_A == Result(cpu_inc(A % size, P, size))
DEC_A == Result(cpu_dec(A % size, P, size))

SEC == P' = P \union {"C"} /\ UNCHANGED A
CLC == P' = P \ {"C"} /\ UNCHANGED A
SED == P' = P \union {"D"} /\ UNCHANGED A
CLD == P' = P \ {"D"} /\ UNCHANGED A
SEP == P' = P \union {"M"} /\ UNCHANGED A
REP == P' = P \ {"M"} /\ UNCHANGED A

Next ==
    \/ \E v \in Operands :
          LET w == v % size IN LDA(w) \/ ADC(w) \/ SBC(w) \/ CMP(w)
    \/ ASL_A \/ ROL_A \/ LSR_A \/ ROR_A \/ INC_A \/ DEC_A
    \/ SEC \/ CLC \/ SED \/ CLD \/ SEP \/ REP

Spec == Init /\ [][Next]_vars
----------------------------------------------------------------------------
Only(Q, flags) == Q \intersect flags
Signed(n) == IF Negative(n, Size16) THEN n - Size16 ELSE n

(* Long numbers are worked on in pieces, with the carry in between: two    *)
(* byte additions, or subtractions, are that of the words, in result,      *)
(* carry, overflow and sign.                                               *)
PiecesMakeWholes(v) ==
    LET lo(n) == n % Size8
        hi(n) == n \div Size8
        addLo == cpu_adc(lo(A), lo(v), P, Size8)
        addHi == cpu_adc(hi(A), hi(v), addLo.P, Size8)
        add   == cpu_adc(A, v, P, Size16)
        subLo == cpu_sbc(lo(A), lo(v), P, Size8)
        subHi == cpu_sbc(hi(A), hi(v), subLo.P, Size8)
        sub   == cpu_sbc(A, v, P, Size16)
    IN /\ add.val = addHi.val * Size8 + addLo.val
       /\ sub.val = subHi.val * Size8 + subLo.val
       /\ Only(add.P, {"C", "V", "N"}) = Only(addHi.P, {"C", "V", "N"})
       /\ Only(sub.P, {"C", "V", "N"}) = Only(subHi.P, {"C", "V", "N"})

(* The overflow tells that the signed sum, or difference, does not fit.    *)
OverflowMeansTooBig(v) ==
    LET fits(n) == n \in -(Size16 \div 2) .. (Size16 \div 2) - 1
    IN /\ ("V" \in cpu_adc(A, v, P, Size16).P)
             <=> ~fits(Signed(A) + Signed(v) + Carry(P))
       /\ ("V" \in cpu_sbc(A, v, P, Size16).P)
             <=> ~fits(Signed(A) - Signed(v) - (1 - Carry(P)))

(* A subtraction undoes an addition, and a comparison answers as the       *)
(* subtraction without a borrow does.                                      *)
SubtractionUndoes(v) ==
    LET add  == cpu_adc(A, v, P, Size16)
        sub  == cpu_sbc(add.val, v, Put(add.P, "C", "C" \notin P), Size16)
        with == P \union {"C"}
    IN /\ sub.val = A
       /\ ("C" \in sub.P) <=> ("C" \notin add.P)
       /\ Only(cpu_cmp(A, v, with, Size16), {"C", "Z", "N"})
            = Only(cpu_sbc(A, v, with, Size16).P, {"C", "Z", "N"})

(* A rotate undoes the rotate the other way, carry included, and the shift *)
(* of a word is the shift of one byte and a rotate of the other.           *)
RotatesUndo ==
    LET left  == cpu_rol(A, P, Size16)
        right == cpu_ror(A, P, Size16)
        back  == cpu_ror(left.val, left.P, Size16)
        forth == cpu_rol(right.val, right.P, Size16)
        low   == cpu_asl(A % Size8, P, Size8)
        high  == cpu_lsr(A \div Size8, P, Size8)
    IN /\ back.val = A /\ Carry(back.P) = Carry(P)
       /\ forth.val = A /\ Carry(forth.P) = Carry(P)
       /\ cpu_asl(A, P, Size16).val
            = cpu_rol(A \div Size8, low.P, Size8).val * Size8 + low.val
       /\ cpu_lsr(A, P, Size16).val
            = high.val * Size8 + cpu_ror(A % Size8, high.P, Size8).val

(* Counting is to add and to subtract one, round the end as well, but that *)
(* it leaves the carry and the overflow.                                   *)
CountsByOne ==
    \A width \in {Size8, Size16} :
        LET n   == A % width
            inc == cpu_inc(n, P, width)
            dec == cpu_dec(n, P, width)
            add == cpu_adc(n, 1, P \ {"C"}, width)
            sub == cpu_sbc(n, 1, P \union {"C"}, width)
        IN /\ inc.val = add.val /\ dec.val = sub.val
           /\ Only(inc.P, {"N", "Z"}) = Only(add.P, {"N", "Z"})
           /\ Only(dec.P, {"N", "Z"}) = Only(sub.P, {"N", "Z"})
           /\ \A r \in {inc, dec} : Only(r.P, {"C", "V"}) = Only(P, {"C", "V"})

(* Binary arithmetic is arithmetic: at every accumulator and carry, for    *)
(* every operand, all of the above.                                        *)
BinaryIsArithmetic ==
    /\ RotatesUndo /\ CountsByOne
    /\ \A v \in 0 .. Size16 - 1 :
          PiecesMakeWholes(v) /\ OverflowMeansTooBig(v) /\ SubtractionUndoes(v)

(* How decimal numbers are written in bytes and words.                     *)
Radix2 == Radix * Radix
Radix4 == Radix2 * Radix2
BcdByte(n) == (n \div Radix) * Nib + (n % Radix)
BcdWord(n) == BcdByte(n \div Radix2) * Size8 + BcdByte(n % Radix2)
Bcd(n, width) == IF width = Size8 THEN BcdByte(n) ELSE BcdWord(n)

DecimalAdds(x, y, most, width) ==
    LET sum == x + y + Carry(P)
        add == cpu_adc_bcd(Bcd(x, width), Bcd(y, width), P, width)
    IN /\ add.val = Bcd(sum % most, width)
       /\ ("C" \in add.P) <=> (sum >= most)
       /\ ("Z" \in add.P) <=> (add.val = 0)

DecimalSubtracts(x, y) ==
    LET diff == x - y - (1 - Carry(P))
        sub  == cpu_sbc_bcd(BcdByte(x), BcdByte(y), P, Size8)
    IN /\ sub.val = BcdByte(diff % Radix2)
       /\ ("C" \in sub.P) <=> (diff >= 0)

(* Decimal mode computes with decimal numbers, wherever the accumulator    *)
(* holds one: sums of bytes and of words and differences of bytes, with    *)
(* the carry, and the zero flag of sums.  Two things that a reader may     *)
(* miss are not so in the code: the difference of two words has no right   *)
(* fourth digit (BcdWordDifference), and the zero flag of a difference is  *)
(* that of the binary one (10 - 09 - 1 leaves 00 with Z clear).            *)
DecimalIsArithmetic ==
    /\ \A x \in 0 .. Radix2 - 1 : BcdByte(x) = A % Size8 =>
          \A y \in 0 .. Radix2 - 1 :
              DecimalAdds(x, y, Radix2, Size8) /\ DecimalSubtracts(x, y)
    /\ \A x \in 0 .. Radix4 - 1 : BcdWord(x) = A =>
          \A y \in 0 .. Radix4 - 1 : DecimalAdds(x, y, Radix4, Size16)
=============================================================================
