------------------------- MODULE CircularBufferProofs --------------------------
(***************************************************************************)
(* Theorems about CircularBuffer for every ring size and every set of      *)
(* items: its types, freedom from races on the slots, the checks before    *)
(* push and pop that ClemensCommandQueue relies on, and that the ring      *)
(* implements the atomic bounded FIFO.                                     *)
(***************************************************************************)
EXTENDS CircularBuffer, SequenceTheorems, TLAPS

(* The slots from the head up to the tail, in ring order. *)
Queued(s) == IF head <= tail THEN head <= s /\ s < tail ELSE head <= s \/ s < tail

(* What the producer loaded is still true when it uses it: only it moves the *)
(* tail, and the head never moves onto the slot after the tail.              *)
ProdInv ==
    /\ prod.pc \in {"full_head", "push_head", "write", "publish"} => prod.tail = tail
    /\ prod.pc \in {"push_head", "write", "publish"} => prod.item \in Items
    /\ prod.pc \in {"write", "publish"} => increment(tail) # head
    /\ prod.pc = "publish" => array[tail] = prod.item
    /\ prod.room => increment(tail) # head

(* The same for the consumer: only it moves the head, and a ring that it saw *)
(* holding an item holds one until it releases it.                           *)
ConsInv ==
    /\ cons.pc \in {"empty_tail", "pop_tail", "move", "release"} => cons.head = head
    /\ cons.pc \in {"move", "release"} => head # tail
    /\ cons.pc = "release" => cons.item \in Items
    /\ cons.avail => head # tail
    /\ cons.pc # "clear_head"

(* Every queued slot holds an item, but for the one just moved out of. *)
SlotsInv ==
    \A s \in Slots : Queued(s) => \/ array[s] \in Items
                                  \/ s = head /\ cons.pc = "release"

IInv == TypeOK /\ ProdInv /\ ConsInv /\ SlotsInv

--------------------------------------------------------------------------------
(* The successor of a slot, without the modulus. *)
LEMMA Increment ==
    ASSUME NEW s \in Slots
    PROVE  /\ increment(s) = IF s = Size THEN 0 ELSE s + 1
           /\ increment(s) \in Slots
           /\ increment(s) # s
<1>1. Size \in Nat \ {0}
  BY SizeAssumption
<1>2. (s + 1) % (Size + 1) = IF s = Size THEN 0 ELSE s + 1
  BY <1>1, SMT DEF Slots, kCapacity
<1> QED
  BY <1>1, <1>2 DEF increment, Slots, kCapacity

(* The empty ring.                                                         *)
LEMMA InitIInv == Init => IInv
<1> SUFFICES ASSUME Init PROVE IInv
  OBVIOUS
<1>1. 0 \in Slots
  BY SizeAssumption DEF Slots, kCapacity
<1>2. TypeOK
  BY <1>1 DEF Init, TypeOK, ProdPCs, ConsPCs
<1>3. ProdInv /\ ConsInv
  BY DEF Init, ProdInv, ConsInv
<1>4. SlotsInv
  BY DEF Init, SlotsInv, Queued, Slots
<1> QED
  BY <1>2, <1>3, <1>4 DEF IInv

(* The producer's steps: they leave the head and the consumer alone. *)
LEMMA ProducerIInv == IInv /\ Producer => IInv'
<1> SUFFICES ASSUME IInv, Producer PROVE IInv'
  OBVIOUS
<1> USE DEF IInv, TypeOK, ProdInv, ConsInv, ConsSide, ProdPCs
<1>t. tail \in Slots /\ head \in Slots /\ increment(tail) \in Slots /\ increment(tail) # tail
  BY Increment
<1>1. CASE IsFullLoadTail
  BY <1>1, <1>t DEF IsFullLoadTail, SlotsInv, Queued
<1>2. CASE IsFullLoadHead
  BY <1>2, <1>t DEF IsFullLoadHead, SlotsInv, Queued
<1>3. ASSUME NEW v \in Items, PushLoadTail(v) PROVE IInv'
  BY <1>3, <1>t DEF PushLoadTail, SlotsInv, Queued
<1>4. CASE PushFails
  BY <1>4, <1>t DEF PushFails, SlotsInv, Queued
<1>5. CASE PushLoadHead
  BY <1>5, <1>t DEF PushLoadHead, SlotsInv, Queued
<1>6. CASE PushWrite
  <2>1. (TypeOK /\ ProdInv /\ ConsInv)'
    BY <1>6, <1>t DEF PushWrite
  <2>2. ~Queued(tail)
    BY <1>t DEF Queued, Slots
  <2>3. SlotsInv'
    BY <1>6, <1>t, <2>2 DEF PushWrite, SlotsInv, Queued
  <2> QED
    BY <2>1, <2>3
<1>7. CASE PushStoreTail
  <2>1. tail' = increment(tail) /\ head' = head /\ array' = array /\ cons' = cons
    BY <1>7 DEF PushStoreTail
  <2>2. (TypeOK /\ ProdInv /\ ConsInv)'
    BY <1>7, <1>t, <2>1 DEF PushStoreTail
  <2>3. \A s \in Slots : Queued(s)' => Queued(s) \/ s = tail
    BY <1>7, <1>t, <2>1, Increment, SizeAssumption DEF PushStoreTail, Queued, Slots, kCapacity
  <2>4. array[tail] \in Items
    BY <1>7 DEF PushStoreTail
  <2>5. SlotsInv'
    BY <2>1, <2>3, <2>4 DEF SlotsInv
  <2> QED
    BY <2>2, <2>5
<1> QED
  BY <1>1, <1>2, <1>3, <1>4, <1>5, <1>6, <1>7 DEF Producer

(* The consumer's steps: they leave the tail and the producer alone. *)
LEMMA ConsumerIInv == IInv /\ Consumer => IInv'
<1> SUFFICES ASSUME IInv, Consumer PROVE IInv'
  OBVIOUS
<1> USE DEF IInv, TypeOK, ProdInv, ConsInv, ProdSide, ConsPCs
<1>t. tail \in Slots /\ head \in Slots /\ increment(head) \in Slots /\ increment(tail) # tail
  BY Increment
<1>1. CASE IsEmptyLoadHead
  BY <1>1, <1>t DEF IsEmptyLoadHead, SlotsInv, Queued
<1>2. CASE IsEmptyLoadTail
  BY <1>2, <1>t DEF IsEmptyLoadTail, SlotsInv, Queued
<1>3. CASE PopLoadHead
  BY <1>3, <1>t DEF PopLoadHead, SlotsInv, Queued
<1>4. CASE PopFails
  BY <1>4, <1>t DEF PopFails, SlotsInv, Queued
<1>5. CASE PopLoadTail
  BY <1>5, <1>t DEF PopLoadTail, SlotsInv, Queued
<1>6. CASE PopMove
  <2>1. Queued(head) /\ array[head] \in Items
    BY <1>6, <1>t DEF PopMove, SlotsInv, Queued, Slots
  <2>2. (TypeOK /\ ProdInv /\ ConsInv)'
    BY <1>6, <1>t, <2>1, MovedFromAssumption DEF PopMove
  <2>3. SlotsInv'
    BY <1>6, <1>t DEF PopMove, SlotsInv, Queued
  <2> QED
    BY <2>2, <2>3
<1>7. CASE PopStoreHead
  <2>1. head' = increment(head) /\ tail' = tail /\ array' = array /\ prod' = prod
    BY <1>7 DEF PopStoreHead
  <2>2. increment(tail) # increment(head)
    BY <1>7, <1>t, Increment, SizeAssumption DEF PopStoreHead, Slots, kCapacity
  <2>3. (TypeOK /\ ProdInv /\ ConsInv)'
    BY <1>7, <1>t, <2>1, <2>2 DEF PopStoreHead
  <2>4. \A s \in Slots : Queued(s)' => Queued(s) /\ s # head
    BY <1>7, <1>t, <2>1, Increment, SizeAssumption DEF PopStoreHead, Queued, Slots, kCapacity
  <2>5. SlotsInv'
    BY <2>1, <2>4 DEF SlotsInv
  <2> QED
    BY <2>3, <2>5
<1> QED
  BY <1>1, <1>2, <1>3, <1>4, <1>5, <1>6, <1>7 DEF Consumer

(* The inductive invariant holds in every state.                           *)
THEOREM Inductive == Spec => []IInv
<1>1. IInv /\ [Next]_vars => IInv'
  <2> SUFFICES ASSUME IInv, [Next]_vars PROVE IInv'
    OBVIOUS
  <2>1. CASE Next
    BY <2>1, ProducerIInv, ConsumerIInv DEF Next
  <2>2. CASE UNCHANGED vars
    BY <2>2 DEF vars, IInv, TypeOK, ProdInv, ConsInv, SlotsInv, Queued
  <2> QED
    BY <2>1, <2>2
<1> QED
  BY InitIInv, <1>1, PTL DEF Spec

(***************************************************************************)
(* Indices stay on the ring, program counters and results in their sets.   *)
(***************************************************************************)
THEOREM TypeCorrect == Spec => []TypeOK
BY Inductive, PTL DEF IInv

(***************************************************************************)
(* No slot is written by the producer while the consumer moves out of it.  *)
(***************************************************************************)
THEOREM SlotsAreRaceFree == Spec => []NoSlotRace
<1>1. IInv => NoSlotRace
  <2> SUFFICES ASSUME IInv, prod.pc = "write", cons.pc = "move", prod.tail = cons.head
               PROVE  FALSE
    BY DEF NoSlotRace
  <2>1. prod.tail = tail /\ cons.head = head /\ head # tail
    BY DEF IInv, ProdInv, ConsInv
  <2> QED
    BY <2>1
<1> QED
  BY Inductive, <1>1, PTL

(***************************************************************************)
(* The checks ClemensCommandQueue makes before it ignores the results of   *)
(* push and pop are enough.                                                *)
(***************************************************************************)
THEOREM ChecksSuffice == Spec => []CheckedCallsSucceed
<1>1. IInv => CheckedCallsSucceed
  BY NoItemAssumption DEF IInv, ProdInv, ConsInv, CheckedCallsSucceed
<1> QED
  BY Inductive, <1>1, PTL

--------------------------------------------------------------------------------
(* Refinement. The slot of the i-th queued item, without the modulus. *)
LEMMA SlotOf ==
    ASSUME NEW h \in Slots, NEW i \in 0 .. Size
    PROVE  (h + i) % kCapacity = IF h + i <= Size THEN h + i ELSE h + i - kCapacity
<1>1. Size \in Nat \ {0} /\ h \in Nat /\ i \in Nat /\ h <= Size /\ i <= Size
  BY SizeAssumption DEF Slots, kCapacity
<1>2. CASE h + i <= Size
  BY <1>1, <1>2, SMT DEF kCapacity
<1>3. CASE h + i > Size
  BY <1>1, <1>3, SMT DEF kCapacity
<1> QED
  BY <1>1, <1>2, <1>3

(* size() counts the queued slots, at most Size of them. *)
LEMMA SizeOf ==
    ASSUME TypeOK
    PROVE  /\ size \in 0 .. Size
           /\ (head + size) % kCapacity = tail
           /\ size = 0 <=> head = tail
           /\ size = Size <=> increment(tail) = head
           /\ \A i \in 0 .. size - 1 : /\ (head + i) % kCapacity \in Slots \ {tail}
                                       /\ (head + i) % kCapacity = head <=> i = 0
<1>1. Size \in Nat \ {0} /\ tail \in Slots /\ head \in Slots /\ Slots = 0 .. Size
  BY SizeAssumption DEF TypeOK, Slots, kCapacity
<1>2. size \in 0 .. Size
  BY <1>1 DEF size, kCapacity
<1>3. (head + size) % kCapacity = tail
  <2>1. (head + size) % kCapacity
          = IF head + size <= Size THEN head + size ELSE head + size - kCapacity
    BY <1>1, <1>2, SlotOf
  <2>2. tail = IF head + size <= Size THEN head + size ELSE head + size - kCapacity
    BY <1>1 DEF size, kCapacity
  <2> QED
    BY <2>1, <2>2
<1>4. size = 0 <=> head = tail
  BY <1>1 DEF size, kCapacity
<1>5. size = Size <=> increment(tail) = head
  BY <1>1, Increment DEF size, kCapacity
<1>6. ASSUME NEW i \in 0 .. size - 1
      PROVE  /\ (head + i) % kCapacity \in Slots \ {tail}
             /\ (head + i) % kCapacity = head <=> i = 0
  <2>1. i \in 0 .. Size
    BY <1>1, <1>2
  <2>2. (head + i) % kCapacity = IF head + i <= Size THEN head + i ELSE head + i - kCapacity
    BY <1>1, <2>1, SlotOf
  <2>3. size = IF tail >= head THEN tail - head ELSE (Size + 1 - head) + tail
    BY <1>1 DEF size, kCapacity
  <2>4. i \in Nat /\ i < size
    BY <1>2, <1>1
  <2> DEFINE s == (head + i) % kCapacity
  <2>5. s = IF head + i <= Size THEN head + i ELSE head + i - (Size + 1)
    BY <2>2 DEF kCapacity
  <2> HIDE DEF s
  <2>6. s \in Slots /\ s # tail /\ (s = head <=> i = 0)
    BY <1>1, <2>3, <2>4, <2>5
  <2> QED
    BY <2>6 DEF s
<1> QED
  BY <1>2, <1>3, <1>4, <1>5, <1>6

(* Contents is a sequence of items of that length. *)
LEMMA ContentsType ==
    ASSUME IInv
    PROVE  /\ Contents \in Seq(Items)
           /\ Len(Contents) = size
<1>1. size \in Nat
  BY SizeOf, SizeAssumption DEF IInv
<1>2. ASSUME NEW i \in 1 .. size
      PROVE  Contents[i] \in Items
  <2>1. CASE i = 1 /\ cons.pc = "release"
    BY <1>1, <2>1 DEF Contents, IInv, ConsInv
  <2>2. CASE ~(i = 1 /\ cons.pc = "release")
    <3> DEFINE s == (head + (i - 1)) % kCapacity
    <3>1. i - 1 \in 0 .. size - 1
      BY <1>1
    <3>2. s \in Slots /\ s # tail /\ (s = head <=> i = 1)
      BY <3>1, SizeOf DEF IInv
    <3>3. Queued(s)
      <4>1. i - 1 \in 0 .. Size /\ Size \in Nat /\ size \in 0 .. Size
        BY <3>1, SizeOf, SizeAssumption DEF IInv
      <4>2. s = IF head + (i - 1) <= Size THEN head + (i - 1) ELSE head + (i - 1) - kCapacity
        BY <4>1, SlotOf DEF IInv, TypeOK
      <4>3. head \in 0 .. Size /\ tail \in 0 .. Size
        BY <4>1 DEF IInv, TypeOK, Slots, kCapacity
      <4> HIDE DEF s
      <4> QED
        BY <4>1, <4>2, <4>3, <3>1 DEF Queued, size, kCapacity
    <3>4. array[s] \in Items
      BY <2>2, <3>2, <3>3 DEF IInv, SlotsInv
    <3>5. Contents[i] = array[s]
      BY <2>2 DEF Contents, at
    <3> QED
      BY <3>4, <3>5
  <2> QED
    BY <2>1, <2>2
<1>3. Contents = [i \in 1 .. size |-> Contents[i]]
  BY DEF Contents
<1> HIDE DEF Contents
<1> QED
  BY <1>1, <1>2, <1>3

(* A step that moves neither index and changes no queued slot stutters. *)
LEMMA ContentsStutter ==
    ASSUME IInv, IInv', head' = head, tail' = tail,
           cons.pc = "release" <=> cons'.pc = "release",
           cons.pc = "release" => cons'.item = cons.item,
           \A s \in Slots \ {tail} : array'[s] = array[s]
    PROVE  Contents' = Contents
<1>1. size' = size
  BY DEF size, kCapacity
<1>2. ASSUME NEW i \in 1 .. size PROVE Contents'[i] = Contents[i]
  <2>1. size \in Nat /\ i - 1 \in 0 .. size - 1
    BY SizeOf, SizeAssumption DEF IInv
  <2>2. (head + (i - 1)) % kCapacity \in Slots \ {tail}
    BY <2>1, SizeOf DEF IInv
  <2>3. at(i - 1)' = at(i - 1)
    BY <2>2 DEF at, kCapacity
  <2> QED
    BY <1>1, <2>3 DEF Contents
<1>3. Contents = [i \in 1 .. size |-> Contents[i]] /\ Contents' = [i \in 1 .. size |-> Contents'[i]]
  BY <1>1 DEF Contents
<1> HIDE DEF Contents
<1> QED
  BY <1>2, <1>3

(* Reading the slot to pop changes nothing that is queued.                 *)
LEMMA MoveStutter == IInv /\ IInv' /\ PopMove => Contents' = Contents
<1> SUFFICES ASSUME IInv, IInv', PopMove PROVE Contents' = Contents
  OBVIOUS
<1>1. /\ head' = head /\ tail' = tail /\ cons.head = head
      /\ cons.pc = "move" /\ cons'.pc = "release" /\ cons'.item = array[head]
      /\ \A s \in Slots \ {head} : array'[s] = array[s]
  BY DEF PopMove, IInv, ConsInv, TypeOK, ProdSide
<1>2. size' = size
  BY <1>1 DEF size, kCapacity
<1>3. ASSUME NEW i \in 1 .. size PROVE Contents'[i] = Contents[i]
  <2>1. size \in Nat /\ i - 1 \in 0 .. size - 1
    BY SizeOf, SizeAssumption DEF IInv
  <2>2. /\ (head + (i - 1)) % kCapacity \in Slots
        /\ (head + (i - 1)) % kCapacity = head <=> i = 1
    BY <2>1, SizeOf DEF IInv
  <2>3. Contents[i] = array[(head + (i - 1)) % kCapacity]
    BY <1>1 DEF Contents, at
  <2>4. Contents'[i] = IF i = 1 THEN array[head] ELSE array'[(head + (i - 1)) % kCapacity]
    BY <1>1, <1>2 DEF Contents, at, kCapacity
  <2> QED
    BY <1>1, <2>2, <2>3, <2>4
<1>4. Contents = [i \in 1 .. size |-> Contents[i]] /\ Contents' = [i \in 1 .. size |-> Contents'[i]]
  BY <1>2 DEF Contents
<1> HIDE DEF Contents
<1> QED
  BY <1>3, <1>4

(* Publishing an item appends it. *)
LEMMA PublishAppends ==
    IInv /\ IInv' /\ PushStoreTail => /\ Len(Contents) < Size
                                     /\ Contents' = Append(Contents, prod.item)
<1> SUFFICES ASSUME IInv, IInv', PushStoreTail
             PROVE  Len(Contents) < Size /\ Contents' = Append(Contents, prod.item)
  OBVIOUS
<1>1. /\ tail' = increment(tail) /\ head' = head /\ array' = array /\ cons' = cons
      /\ increment(tail) # head /\ array[tail] = prod.item /\ prod.item \in Items
  BY DEF PushStoreTail, IInv, ProdInv, ConsSide
<1>2. size \in 0 .. Size /\ size # Size /\ Size \in Nat
  BY <1>1, SizeOf, SizeAssumption DEF IInv
<1>3. size' = size + 1
  <2>1. Slots = 0 .. Size /\ tail \in Slots /\ head \in Slots
    BY <1>2 DEF IInv, TypeOK, Slots, kCapacity
  <2>2. tail' = IF tail = Size THEN 0 ELSE tail + 1
    BY <1>1, <2>1, Increment
  <2>3. size = IF tail >= head THEN tail - head ELSE (Size + 1 - head) + tail
    BY <1>2, <2>1 DEF size, kCapacity
  <2>4. size' = IF tail' >= head THEN tail' - head ELSE (Size + 1 - head) + tail'
    BY <1>1, <1>2, <2>1, <2>2 DEF size, kCapacity
  <2> QED
    BY <1>1, <1>2, <2>1, <2>2, <2>3, <2>4
<1>4. (head + size) % kCapacity = tail
  BY SizeOf DEF IInv
<1>5. size = 0 => cons.pc # "release"
  BY SizeOf DEF IInv, ConsInv
<1>6. Contents \in Seq(Items) /\ Len(Contents) = size
  BY ContentsType
<1>7. ASSUME NEW i \in 1 .. size PROVE Contents'[i] = Contents[i]
  BY <1>1, <1>2, <1>3 DEF Contents, at, kCapacity
<1>8. Contents'[size + 1] = prod.item
  <2>1. size + 1 \in 1 .. size' /\ (size + 1) - 1 = size
    BY <1>2, <1>3
  <2>2. ~(size + 1 = 1 /\ cons'.pc = "release")
    BY <1>1, <1>2, <1>5
  <2>3. Contents'[size + 1] = array[(head + size) % kCapacity]
    BY <1>1, <2>1, <2>2 DEF Contents, at, kCapacity
  <2> QED
    BY <1>1, <1>4, <2>3
<1>9. Contents' \in Seq(Items) /\ Contents' = [i \in 1 .. size + 1 |-> Contents'[i]]
  <2>1. Contents' = [i \in 1 .. size + 1 |-> Contents'[i]]
    BY <1>3 DEF Contents
  <2>2. \A i \in 1 .. size + 1 : Contents'[i] \in Items
    BY <1>1, <1>2, <1>6, <1>7, <1>8
  <2> HIDE DEF Contents
  <2> QED
    BY <1>2, <2>1, <2>2
<1> HIDE DEF Contents
<1>10. Append(Contents, prod.item) = [i \in 1 .. size + 1 |->
                                       IF i = size + 1 THEN prod.item ELSE Contents[i]]
  BY <1>2, <1>6
<1> QED
  BY <1>2, <1>6, <1>7, <1>8, <1>9, <1>10

(* Releasing the front slot removes the item moved out of it. *)
LEMMA ReleaseRemoves ==
    IInv /\ IInv' /\ PopStoreHead => /\ Contents # <<>>
                                    /\ cons.item = Head(Contents)
                                    /\ Contents' = Tail(Contents)
<1> SUFFICES ASSUME IInv, IInv', PopStoreHead
             PROVE  Contents # <<>> /\ cons.item = Head(Contents) /\ Contents' = Tail(Contents)
  OBVIOUS
<1>1. /\ head' = increment(head) /\ tail' = tail /\ array' = array
      /\ cons.pc = "release" /\ cons'.pc # "release" /\ head # tail
  BY DEF PopStoreHead, IInv, ConsInv, TypeOK, ProdSide
<1>2. size \in 1 .. Size /\ Size \in Nat
  BY <1>1, SizeOf, SizeAssumption DEF IInv
<1>3. Slots = 0 .. Size /\ tail \in Slots /\ head \in Slots
  BY <1>2 DEF IInv, TypeOK, Slots, kCapacity
<1>4. size' = size - 1
  <2>1. head' = IF head = Size THEN 0 ELSE head + 1
    BY <1>1, <1>3, Increment
  <2>2. size = IF tail >= head THEN tail - head ELSE (Size + 1 - head) + tail
    BY <1>2, <1>3 DEF size, kCapacity
  <2>3. size' = IF tail >= head' THEN tail - head' ELSE (Size + 1 - head') + tail
    BY <1>1, <1>2, <1>3, <2>1 DEF size, kCapacity
  <2> QED
    BY <1>1, <1>2, <1>3, <2>1, <2>2, <2>3
<1>5. Contents \in Seq(Items) /\ Len(Contents) = size
  BY ContentsType
<1>6. Contents[1] = cons.item
  BY <1>1, <1>2 DEF Contents
<1>7. ASSUME NEW i \in 1 .. size - 1 PROVE Contents'[i] = Contents[i + 1]
  <2>1. i - 1 \in 0 .. Size /\ i \in 0 .. Size /\ head' \in Slots
    BY <1>1, <1>2, <1>3, Increment
  <2>2. (head' + (i - 1)) % kCapacity = (head + i) % kCapacity
    <3>1. (head' + (i - 1)) % kCapacity
            = IF head' + (i - 1) <= Size THEN head' + (i - 1) ELSE head' + (i - 1) - kCapacity
      BY <2>1, SlotOf
    <3>2. (head + i) % kCapacity = IF head + i <= Size THEN head + i ELSE head + i - kCapacity
      BY <1>3, <2>1, SlotOf
    <3>3. head' = IF head = Size THEN 0 ELSE head + 1
      BY <1>1, <1>3, Increment
    <3> QED
      BY <1>2, <1>3, <2>1, <3>1, <3>2, <3>3 DEF kCapacity
  <2>3. Contents'[i] = array[(head' + (i - 1)) % kCapacity]
    BY <1>1, <1>4 DEF Contents, at, kCapacity
  <2>4. Contents[i + 1] = array[(head + i) % kCapacity]
    <3>1. i + 1 \in 1 .. size /\ i + 1 # 1 /\ (i + 1) - 1 = i
      BY <1>2
    <3> QED
      BY <3>1 DEF Contents, at
  <2> QED
    BY <2>2, <2>3, <2>4
<1>8. Contents' \in Seq(Items) /\ Len(Contents') = size - 1
  <2>1. Contents' = [i \in 1 .. size - 1 |-> Contents'[i]]
    BY <1>4 DEF Contents
  <2>2. \A i \in 1 .. size - 1 : Contents'[i] \in Items
    BY <1>2, <1>5, <1>7
  <2> HIDE DEF Contents
  <2> QED
    BY <1>2, <2>1, <2>2
<1>9. Contents # <<>>
  BY <1>2, <1>5, EmptySeq
<1> HIDE DEF Contents
<1>10. /\ Tail(Contents) \in Seq(Items)
       /\ Len(Tail(Contents)) = size - 1
       /\ \A i \in 1 .. size - 1 : Tail(Contents)[i] = Contents[i + 1]
  BY <1>5, <1>9, HeadTailProperties
<1>11. Contents' = Tail(Contents)
  BY <1>7, <1>8, <1>10, SeqEqual
<1> QED
  BY <1>5, <1>6, <1>9, <1>11

(* Every step of the ring is a step of the FIFO or leaves it as it is. *)
LEMMA StepImplements == IInv /\ IInv' /\ [Next]_vars => [Fifo!Next]_(Fifo!vars)
<1> SUFFICES ASSUME IInv, IInv', [Next]_vars PROVE [Fifo!Next]_(Fifo!vars)
  OBVIOUS
<1> USE DEF Fifo!vars
<1>1. ASSUME \/ IsFullLoadTail \/ IsFullLoadHead \/ \E v \in Items : PushLoadTail(v)
             \/ PushLoadHead \/ PushWrite
      PROVE  UNCHANGED Fifo!vars
  <2>1. /\ head' = head /\ tail' = tail /\ cons' = cons /\ pushed' = pushed /\ popped' = popped
        /\ \A s \in Slots \ {tail} : array'[s] = array[s]
    BY <1>1 DEF IsFullLoadTail, IsFullLoadHead, PushLoadTail, PushLoadHead, PushWrite,
                ConsSide, IInv, ProdInv, TypeOK
  <2> QED
    BY <2>1, ContentsStutter
<1>2. ASSUME IsEmptyLoadHead \/ IsEmptyLoadTail \/ PopLoadHead \/ PopLoadTail \/ PopMove
      PROVE  UNCHANGED Fifo!vars
  <2>1. CASE PopMove
    BY <2>1, MoveStutter DEF PopMove, ProdSide
  <2>2. ASSUME IsEmptyLoadHead \/ IsEmptyLoadTail \/ PopLoadHead \/ PopLoadTail
        PROVE  /\ head' = head /\ tail' = tail /\ array' = array
               /\ pushed' = pushed /\ popped' = popped
               /\ cons.pc # "release" /\ cons'.pc # "release"
    BY <2>2 DEF IsEmptyLoadHead, IsEmptyLoadTail, PopLoadHead, PopLoadTail, ProdSide, IInv, TypeOK
  <2> QED
    BY <1>2, <2>1, <2>2, ContentsStutter
<1>3. CASE PushFails
  <2>1. /\ head' = head /\ tail' = tail /\ cons' = cons /\ array' = array /\ popped' = popped
        /\ pushed' = FALSE /\ increment(tail) = head
    BY <1>3 DEF PushFails, ConsSide, IInv, ProdInv
  <2>2. Contents' = Contents
    BY <2>1, ContentsStutter
  <2>3. Len(Contents) = Size
    BY <2>1, SizeOf, ContentsType DEF IInv
  <2> QED
    BY <2>1, <2>2, <2>3 DEF Fifo!Next, Fifo!PushFull
<1>4. CASE PushStoreTail
  <2>1. prod.item \in Items /\ pushed' = TRUE /\ popped' = popped
    BY <1>4 DEF PushStoreTail, ConsSide, IInv, ProdInv
  <2> QED
    BY <1>4, <2>1, PublishAppends DEF Fifo!Next, Fifo!Push
<1>5. CASE PopFails
  <2>1. /\ head' = head /\ tail' = tail /\ array' = array /\ pushed' = pushed
        /\ popped' = NoItem /\ head = tail
        /\ cons.pc # "release" /\ cons'.pc # "release"
    BY <1>5 DEF PopFails, ProdSide, IInv, ConsInv, TypeOK
  <2>2. Contents' = Contents
    BY <2>1, ContentsStutter
  <2>3. Contents = <<>>
    BY <2>1, SizeOf, ContentsType DEF IInv
  <2> QED
    BY <2>1, <2>2, <2>3 DEF Fifo!Next, Fifo!PopEmpty
<1>6. CASE PopStoreHead
  BY <1>6, ReleaseRemoves DEF PopStoreHead, ProdSide, Fifo!Next, Fifo!Pop
<1>7. CASE UNCHANGED vars
  BY <1>7, ContentsStutter DEF vars
<1> QED
  BY <1>1, <1>2, <1>3, <1>4, <1>5, <1>6, <1>7 DEF Next, Producer, Consumer

(***************************************************************************)
(* With any number of slots and any items, the ring is a bounded FIFO with *)
(* atomic operations.                                                      *)
(***************************************************************************)
THEOREM RingImplementsFifo == Spec => ImplementsFifo
<1>1. Init => Fifo!Init
  <2> SUFFICES ASSUME Init PROVE Fifo!Init
    OBVIOUS
  <2>1. IInv
    BY InitIInv
  <2>2. Contents = <<>>
    BY <2>1, SizeOf, ContentsType DEF IInv, Init
  <2> QED
    BY <2>2 DEF Init, Fifo!Init
<1> QED
  BY <1>1, Inductive, StepImplements, PTL DEF Spec, ImplementsFifo, Fifo!Spec
================================================================================
