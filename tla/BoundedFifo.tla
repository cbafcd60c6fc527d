------------------------------ MODULE BoundedFifo ------------------------------
(***************************************************************************)
(* What a single-producer, single-consumer bounded queue promises: a push  *)
(* appends at the back or, when the queue holds Size items, changes        *)
(* nothing and says so; a pop removes the front or, when the queue is      *)
(* empty, says so.  Each operation is one atomic step.                     *)
(***************************************************************************)
EXTENDS Naturals, Sequences

CONSTANTS Size,     \* how many items the queue holds, at least one
          Items,    \* what may be queued
          NoItem    \* what a pop of an empty queue leaves in its out parameter

VARIABLES queue,    \* the queued items, oldest first
          pushed,   \* what the last push returned
          popped    \* what the last pop returned (NoItem: it found nothing)

vars == <<queue, pushed, popped>>

Init ==
    /\ queue = <<>>
    /\ pushed = TRUE
    /\ popped = NoItem

Push(v) ==
    /\ Len(queue) < Size
    /\ queue' = Append(queue, v)
    /\ pushed' = TRUE
    /\ UNCHANGED popped

PushFull ==
    /\ Len(queue) = Size
    /\ pushed' = FALSE
    /\ UNCHANGED <<queue, popped>>

Pop ==
    /\ queue # <<>>
    /\ popped' = Head(queue)
    /\ queue' = Tail(queue)
    /\ UNCHANGED pushed

PopEmpty ==
    /\ queue = <<>>
    /\ popped' = NoItem
    /\ UNCHANGED <<queue, pushed>>

Next ==
    \/ \E v \in Items : Push(v)
    \/ PushFull
    \/ Pop
    \/ PopEmpty

Spec == Init /\ [][Next]_vars
================================================================================
