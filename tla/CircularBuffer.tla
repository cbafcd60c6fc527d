---------------------------- MODULE CircularBuffer -----------------------------
(***************************************************************************)
(* cinek::CircularBuffer<Element, Size> (host/cinek/circular_buffer.hpp),  *)
(* the lock-free ring under every command queue between the UI thread and  *)
(* the emulator thread.  One action per atomic load, atomic store or slot  *)
(* access; all of them are sequentially consistent in the source.          *)
(*                                                                         *)
(* Spec is the protocol the header describes: one thread pushes (and asks  *)
(* isFull), one thread pops (and asks isEmpty).  clear(), which belongs to *)
(* neither side, is a pair of actions that CommandQueue composes with Next.*)
(***************************************************************************)
EXTENDS Naturals, Sequences

CONSTANTS Size,         \* how many items the ring holds
          Items,        \* what may be pushed
          NoItem,       \* a slot never written, or what a failed pop leaves
          MovedFrom(_)  \* what std::move leaves behind in an item's slot

ASSUME SizeAssumption == Size \in Nat \ {0}
ASSUME NoItemAssumption == NoItem \notin Items
ASSUME MovedFromAssumption == \A v \in Items : MovedFrom(v) \in Items \cup {NoItem}

kCapacity == Size + 1
Slots == 0 .. kCapacity - 1

(* Mutant of increment: the wrap is one slot early. *)
incrementShortRing(idx) == (idx + 1) % Size

increment(idx) == (idx + 1) % kCapacity

VARIABLES
    tail,       \* _tail, the next slot to write
    head,       \* _head, the next slot to read
    array,      \* _array
    prod,       \* the producer: where it is, what it loaded, what it pushes
    cons,       \* the consumer: where it is, what it loaded, what it moved out
    pushed,     \* the result of the last completed push
    popped      \* the out parameter of the last completed pop

vars == <<tail, head, array, prod, cons, pushed, popped>>

ProdPCs == {"idle", "full_head", "push", "push_head", "write", "publish"}
ConsPCs == {"idle", "empty_tail", "pop", "pop_tail", "move", "release",
            "clear_head"}

TypeOK ==
    /\ tail \in Slots
    /\ head \in Slots
    /\ array \in [Slots -> Items \cup {NoItem}]
    /\ prod \in [pc : ProdPCs, tail : Slots, item : Items \cup {NoItem},
                 room : BOOLEAN]
    /\ cons \in [pc : ConsPCs, head : Slots, item : Items \cup {NoItem},
                 avail : BOOLEAN]
    /\ pushed \in BOOLEAN
    /\ popped \in Items \cup {NoItem}

Init ==
    /\ tail = 0
    /\ head = 0
    /\ array = [s \in Slots |-> NoItem]
    /\ prod = [pc |-> "idle", tail |-> 0, item |-> NoItem, room |-> FALSE]
    /\ cons = [pc |-> "idle", head |-> 0, item |-> NoItem, avail |-> FALSE]
    /\ pushed = TRUE
    /\ popped = NoItem

--------------------------------------------------------------------------------
(* The producer.  prod.room: isFull() answered false and no push followed. *)

ConsSide == <<head, cons, popped>>

(* isFull: load the tail, then the head. *)
IsFullLoadTail ==
    /\ prod.pc = "idle"
    /\ prod' = [prod EXCEPT !.pc = "full_head", !.tail = tail]
    /\ UNCHANGED <<tail, array, pushed, ConsSide>>

(* Mutant: compares the tail itself, not its successor. *)
IsFullOffByOne ==
    /\ prod.pc = "full_head"
    /\ prod' = [prod EXCEPT !.pc = "idle", !.room = prod.tail # head]
    /\ UNCHANGED <<tail, array, pushed, ConsSide>>

IsFullLoadHead ==
    /\ prod.pc = "full_head"
    /\ prod' = [prod EXCEPT !.pc = "idle", !.room = increment(prod.tail) # head]
    /\ UNCHANGED <<tail, array, pushed, ConsSide>>

PushLoadTail(v) ==
    /\ prod.pc = "idle"
    /\ prod' = [prod EXCEPT !.pc = "push_head", !.tail = tail, !.item = v]
    /\ UNCHANGED <<tail, array, pushed, ConsSide>>

(* Full: return false. *)
PushFails ==
    /\ prod.pc = "push_head"
    /\ increment(prod.tail) = head
    /\ prod' = [prod EXCEPT !.pc = "idle", !.item = NoItem, !.room = FALSE]
    /\ pushed' = FALSE
    /\ UNCHANGED <<tail, array, ConsSide>>

(* Mutant: the check for a full ring is dropped. *)
PushUnchecked ==
    /\ prod.pc = "push_head"
    /\ prod' = [prod EXCEPT !.pc = "write"]
    /\ UNCHANGED <<tail, array, pushed, ConsSide>>

PushLoadHead ==
    /\ prod.pc = "push_head"
    /\ increment(prod.tail) # head
    /\ prod' = [prod EXCEPT !.pc = "write"]
    /\ UNCHANGED <<tail, array, pushed, ConsSide>>

PushWrite ==
    /\ prod.pc = "write"
    /\ array' = [array EXCEPT ![prod.tail] = prod.item]
    /\ prod' = [prod EXCEPT !.pc = "publish"]
    /\ UNCHANGED <<tail, pushed, ConsSide>>

PushStoreTail ==
    /\ prod.pc = "publish"
    /\ tail' = increment(prod.tail)
    /\ prod' = [prod EXCEPT !.pc = "idle", !.item = NoItem, !.room = FALSE]
    /\ pushed' = TRUE
    /\ UNCHANGED <<array, ConsSide>>

Producer ==
    \/ IsFullLoadTail
    \/ IsFullLoadHead
    \/ \E v \in Items : PushLoadTail(v)
    \/ PushFails
    \/ PushLoadHead
    \/ PushWrite
    \/ PushStoreTail

--------------------------------------------------------------------------------
(* The consumer.  cons.avail: isEmpty() answered false and no pop followed. *)

ProdSide == <<tail, prod, pushed>>

(* isEmpty: load the head, then the tail. *)
IsEmptyLoadHead ==
    /\ cons.pc = "idle"
    /\ cons' = [cons EXCEPT !.pc = "empty_tail", !.head = head]
    /\ UNCHANGED <<head, array, popped, ProdSide>>

IsEmptyLoadTail ==
    /\ cons.pc = "empty_tail"
    /\ cons' = [cons EXCEPT !.pc = "idle", !.avail = cons.head # tail]
    /\ UNCHANGED <<head, array, popped, ProdSide>>

PopLoadHead ==
    /\ cons.pc = "idle"
    /\ cons' = [cons EXCEPT !.pc = "pop_tail", !.head = head]
    /\ UNCHANGED <<head, array, popped, ProdSide>>

(* Empty: return false; the out parameter keeps its initial value. *)
PopFails ==
    /\ cons.pc = "pop_tail"
    /\ cons.head = tail
    /\ cons' = [cons EXCEPT !.pc = "idle", !.avail = FALSE]
    /\ popped' = NoItem
    /\ UNCHANGED <<head, array, ProdSide>>

PopLoadTail ==
    /\ cons.pc = "pop_tail"
    /\ cons.head # tail
    /\ cons' = [cons EXCEPT !.pc = "move"]
    /\ UNCHANGED <<head, array, popped, ProdSide>>

(* item = std::move(_array[head]): the slot is left moved-from. *)
PopMove ==
    /\ cons.pc = "move"
    /\ cons' = [cons EXCEPT !.pc = "release", !.item = array[cons.head]]
    /\ array' = [array EXCEPT ![cons.head] = MovedFrom(@)]
    /\ UNCHANGED <<head, popped, ProdSide>>

PopStoreHead ==
    /\ cons.pc = "release"
    /\ head' = increment(cons.head)
    /\ cons' = [cons EXCEPT !.pc = "idle", !.item = NoItem, !.avail = FALSE]
    /\ popped' = cons.item
    /\ UNCHANGED <<array, ProdSide>>

Consumer ==
    \/ IsEmptyLoadHead
    \/ IsEmptyLoadTail
    \/ PopLoadHead
    \/ PopFails
    \/ PopLoadTail
    \/ PopMove
    \/ PopStoreHead

(* clear(): two stores, called by dispatchAll on the consumer's thread. *)
ClearStoreTail ==
    /\ cons.pc = "idle"
    /\ tail' = 0
    /\ cons' = [cons EXCEPT !.pc = "clear_head"]
    /\ UNCHANGED <<head, array, popped, prod, pushed>>

ClearStoreHead ==
    /\ cons.pc = "clear_head"
    /\ head' = 0
    /\ cons' = [cons EXCEPT !.pc = "idle", !.avail = FALSE]
    /\ UNCHANGED <<array, popped, ProdSide>>

Next == Producer \/ Consumer

Spec == Init /\ [][Next]_vars

--------------------------------------------------------------------------------
(* size() and at(index), the buffer's own account of what it holds. *)

size == IF tail >= head THEN tail - head ELSE (kCapacity - head) + tail

at(index) == array[(head + index) % kCapacity]

(* The queue the ring stands for: an item is queued from the store of the  *)
(* tail that publishes it to the store of the head that releases its slot. *)
Contents ==
    [i \in 1 .. size |->
        IF i = 1 /\ cons.pc = "release" THEN cons.item ELSE at(i - 1)]

Fifo == INSTANCE BoundedFifo WITH queue <- Contents

(***************************************************************************)
(* The ring, with all its interleavings of single loads and stores, is a   *)
(* bounded FIFO with atomic operations: nothing is lost, duplicated or     *)
(* reordered, a push is refused only when Size items are queued and a pop  *)
(* only when none is.                                                      *)
(***************************************************************************)
ImplementsFifo == Fifo!Spec

(***************************************************************************)
(* No slot is written and moved out of at the same time: the slot accesses *)
(* themselves are plain, unsynchronised memory accesses.                   *)
(***************************************************************************)
NoSlotRace ==
    ~ /\ prod.pc = "write"
      /\ cons.pc = "move"
      /\ prod.tail = cons.head

(***************************************************************************)
(* ClemensCommandQueue ignores what push and pop return and relies on the  *)
(* check before them: after isFull() said no, a push finds room; after     *)
(* isEmpty() said no, a pop finds an item.                                 *)
(***************************************************************************)
CheckedCallsSucceed ==
    /\ prod.room => ~(prod.pc = "push_head" /\ increment(prod.tail) = head)
    /\ cons.avail => ~(cons.pc = "pop_tail" /\ cons.head = tail)
    /\ cons.pc = "release" => cons.item # NoItem
================================================================================
