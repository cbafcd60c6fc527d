---------------------------- MODULE BlockDevice ----------------------------
(* What a guest may expect of a hard disk on the SmartPort bus, whatever   *)
(* becomes of the packets: a request is served at most once, as a whole    *)
(* and only while the guest stands by it, a write changes the block that   *)
(* it names and nothing else, and the answer is that of the request.       *)
(*                                                                         *)
(* One exception is the program's: a request that was about to be executed *)
(* when its disk was taken out is left behind, and the next disk may serve *)
(* it yet, a write in block 0, and with an answer that the guest takes for *)
(* that of its next request.                                               *)
EXTENDS Naturals

CONSTANTS Blocks, Data, Requests, Nil

VARIABLES
    disk,       \* the blocks of the disk
    id,         \* the number the guest has given the device, or 0
    asked,      \* the request that the guest stands by
    answer,     \* its answer
    left        \* a request left behind
vars == <<disk, id, asked, answer, left>>

OfBlocks(r) == r.op \in {"READBLOCK", "WRITEBLOCK"}

Accepts(n, r) == IF n = 0 THEN r.op = "INIT" ELSE r.dest = n

(* The answer to r, and the disk after r, if it is served at block b, or   *)
(* tells the status of that number, of which 1 is the control block.       *)
Answer(r, b, d) ==
    IF OfBlocks(r) /\ b \notin Blocks THEN [status |-> "INVALID_BLOCK", data |-> Nil]
    ELSE IF r.op = "STATUS" /\ b % 256 = 1 THEN [status |-> "BAD_CTL", data |-> Nil]
    ELSE [status |-> "OK", data |-> IF r.op = "READBLOCK" THEN d[b] ELSE Nil]

After(r, b, d) == IF r.op = "WRITEBLOCK" /\ b \in Blocks THEN [d EXCEPT ![b] = r.data] ELSE d

Serving(r, b) ==
    /\ disk' = After(r, b, disk)
    /\ id' = IF r.op = "INIT" THEN r.dest ELSE id
-----------------------------------------------------------------------------
Init ==
    /\ disk \in [Blocks -> Data]
    /\ id = 0 /\ asked = Nil /\ answer = Nil /\ left = Nil

Ask(r) == asked = Nil /\ asked' = r /\ UNCHANGED <<disk, id, answer, left>>

Serve ==
    /\ asked # Nil /\ answer = Nil /\ Accepts(id, asked)
    /\ Serving(asked, asked.block)
    /\ answer' = Answer(asked, asked.block, disk)
    /\ UNCHANGED <<asked, left>>

(* The guest has taken the answer, or gives up.                            *)
Done == asked' = Nil /\ answer' = Nil /\ UNCHANGED <<disk, id, left>>

Reset == asked = Nil /\ id' = 0 /\ UNCHANGED <<disk, asked, answer, left>>

(* Another disk, and what it may do.                                       *)
Eject == id' = 0 /\ left' \in {left, asked} /\ UNCHANGED <<disk, asked, answer>>

Insert == disk' \in [Blocks -> Data] /\ left' \in {left, Nil} /\ UNCHANGED <<id, asked, answer>>

ServeLeft ==
    /\ left # Nil /\ left' = Nil /\ answer = Nil
    /\ \E b \in {0, left.block} :
          /\ b = left.block \/ left.op = "WRITEBLOCK"
          /\ Serving(left, b)
          /\ answer' = Nil \/ (asked # Nil /\ answer' = Answer(left, b, disk))
    /\ UNCHANGED asked

Forget == left' = Nil /\ UNCHANGED <<disk, id, asked, answer>>

Next ==
    \/ \E r \in Requests : Ask(r)
    \/ Serve \/ Done \/ Reset \/ Eject \/ Insert \/ ServeLeft \/ Forget

Spec == Init /\ [][Next]_vars
=============================================================================
