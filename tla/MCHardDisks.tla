---------------------------- MODULE MCHardDisks ----------------------------
(* A unit on the SmartPort bus, one on the card, and two images that are   *)
(* alike.  A second write needs a behaviour with one unit and one image;   *)
(* with both units used no snapshot is taken and no file of a wrong type   *)
(* offered: the units share no more than the files and the configuration.  *)
(*                                                                         *)
(* Beside them the card itself, with what is in its drives: a behaviour is *)
(* about the images or about the card, which meet only where a disk is put *)
(* in or taken out, an action in both.                                     *)
EXTENDS HardDisks, FiniteSets, TLC

CONSTANTS Parts, BlockLimit, Data, Blank, Disks, Calls, PRODOS_COMMAND_READY,
          SMARTPORT_COMMAND_READY, MaxStray, DmaSize, Nothing

VARIABLES part, card, hdd, memory, firmware, promised, due, exchanged

Card == INSTANCE HddCard

ASSUME CardFits == Card!CardAssumption

cardVars == <<card, hdd, memory, firmware, promised, due, exchanged>>

MCInit == part \in Parts /\ Init /\ Card!Init

MCNext ==
    /\ UNCHANGED part
    /\ \/ part = "images" /\ Next /\ UNCHANGED cardVars
       \/ part = "card" /\ Card!Next /\ UNCHANGED vars

MCSpec == MCInit /\ [][MCNext]_<<part, vars, cardVars>>

AnswersTrue == Card!AnswersTrue
StartsCommand == Card!StartsCommand
-----------------------------------------------------------------------------
Symmetry == Permutations(Images)

UsedUnits == {u \in Units : unit[u] # NoUnit \/ config[u] # NoImage}

UsedImages ==
    {i \in Images :
        \/ file[i] # 0 \/ written[i] # 0 \/ excuse[i] # "none"
        \/ \E u \in Units : i \in {unit[u].asset, unit[u].bound, config[u]}
        \/ snapshot # NoSnapshot /\ \E u \in Units : snapshot[u].asset = i}

Bound ==
    /\ Cardinality(UsedUnits) > 1 => snapshot = NoSnapshot /\ mistyped = {}
    /\ mistyped # {} => snapshot = NoSnapshot
    /\ writes > 1 =>
          mistyped = {} /\ Cardinality(UsedUnits) <= 1 /\ Cardinality(UsedImages) <= 1

(* Calls of all kinds to a disk of two blocks, also of a block just past   *)
(* its end and of one farther, to the other drive, to the card itself and  *)
(* to units that it does not have.                                         *)
MCDisks == {[b \in 0 .. BlockLimit - 1 |-> "old"]}

Call(mode, op, code, unit_num, block) ==
    [mode |-> mode, op |-> op, code |-> code, unit |-> unit_num, block |-> block,
     data |-> "new"]

MCCalls ==
    {Call("COMMAND", op, "DEVICE", 1, 1) : op \in {"STATUS", "READ", "WRITE", "FORMAT", "OTHER"}}
    \union {Call("COMMAND", "WRITE", "DEVICE", 1, b) : b \in {2, 3}}
    \union {Call("COMMAND", "READ", "DEVICE", 1, 2)}
    \union {Call("SMARTPORT", op, "DEVICE", 1, 0) :
               op \in {"READ", "WRITE", "FORMAT", "CONTROL", "INIT", "OTHER"}}
    \union {Call("SMARTPORT", "STATUS", c, 1, 0) : c \in {"DEVICE", "DCB"}}
    \union {Call("SMARTPORT", "STATUS", "DIB", 0, 0), Call("SMARTPORT", "WRITE", "DEVICE", 2, 1)}
    \union {Call("SMARTPORT", "FORMAT", "DEVICE", 0, 0), Call("SMARTPORT", "READ", "DEVICE", 3, 0),
            Call("SMARTPORT", "WRITE", "DEVICE", 3, 1)}
=============================================================================
