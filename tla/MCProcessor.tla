---------------------------- MODULE MCProcessor ----------------------------
(* The registers and the arithmetic of the processor.  A behaviour is      *)
(* about one of them: the modes and the stack (Cpu65816) do not look at    *)
(* the numbers that the arithmetic (Alu65816) makes.                       *)
EXTENDS Cpu65816

CONSTANTS Parts, Nib, Radix, Numbers

VARIABLES part, accumulator, status

Alu == INSTANCE Alu65816 WITH Operands <- Numbers, A <- accumulator, P <- status

ASSUME ArithmeticAssumption == Alu!AluAssumption

MCInit == part \in Parts /\ Init /\ Alu!Init

MCNext ==
    /\ UNCHANGED part
    /\ \/ part = "registers" /\ Next /\ UNCHANGED <<accumulator, status>>
       \/ part = "arithmetic" /\ Alu!Next /\ UNCHANGED vars

MCSpec == MCInit /\ [][MCNext]_<<part, vars, accumulator, status>>

(* Alu65816's properties, each in the mode that it is about: the D bit     *)
(* chooses the adder, and neither adder reads it.                          *)
Computing(decimal) == part = "arithmetic" /\ (("D" \in status) <=> decimal)

AddersAreArithmetic ==
    /\ Computing(FALSE) => Alu!BinaryIsArithmetic
    /\ Computing(TRUE) => Alu!DecimalIsArithmetic
-----------------------------------------------------------------------------
(* Bytes of four values put the edge of page 1, the wrap of the pointer    *)
(* and all its positions within a few pushes.  A few values of A, X and Y  *)
(* tell a byte from a word, fewer of Y, which the code treats as it treats *)
(* X; others are checked, but lead no further.                             *)
MCOperands == {Zero, <<2, 1>>, <<1, 3>>}
MCStatuses == {{}, {"X"}, {"M"}, {"D", "C", "N"}, {"M", "X", "I"}}

Few ==
    /\ A \in {Zero, <<2, 1>>}
    /\ X \in {Zero, <<2, 1>>, <<0, 1>>}
    /\ Y \in {Zero, <<2, 1>>}

(* With digits of four values and radix three every word, carry and        *)
(* operand is tried; all words are reached by way of INC and DEC.          *)
MCNumbers ==
    LET byte == Nib * Nib
        word == byte * byte
    IN {0, 1, Radix, byte - 1, word \div 2, word - 1}
=============================================================================
