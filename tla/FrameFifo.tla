----------------------------- MODULE FrameFifo -----------------------------
(* What the queue of a sound device promises: frames arrive in batches and *)
(* leave in batches, in order; of a batch for which there is not enough    *)
(* room the end is dropped, and nothing else is ever lost, but that the    *)
(* whole queue may be emptied.                                             *)
EXTENDS Integers, Sequences

CONSTANTS Frames, Limit

VARIABLES waiting, offered, taken
vars == <<waiting, offered, taken>>

Smaller(a, b) == IF a < b THEN a ELSE b

Init == waiting = << >> /\ offered = << >> /\ taken = << >>

Put ==
    /\ offered' \in Seq(Frames) /\ taken' = << >>
    /\ waiting' = waiting \o SubSeq(offered', 1, Smaller(Len(offered'), Limit - Len(waiting)))

Take ==
    \E n \in 0 .. Len(waiting) :
        /\ taken' = SubSeq(waiting, 1, n)
        /\ waiting' = SubSeq(waiting, n + 1, Len(waiting))
        /\ offered' = << >>

Empty == waiting' = << >> /\ taken' = << >> /\ offered' = << >>

Next == Put \/ Take \/ Empty

Spec == Init /\ [][Next]_vars
=============================================================================
