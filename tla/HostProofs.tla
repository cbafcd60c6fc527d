----------------------------- MODULE HostProofs -----------------------------
(***************************************************************************)
(* What the threads of the host share: the path of the sound, whose queue  *)
(* implements FrameFifo, however long it is, so that what the machine      *)
(* mixes is heard once and in order; the handshake of frames, for every    *)
(* counter width of at least two frames and every bound; and the path of a *)
(* command, for rings of every size and however many commands, on what     *)
(* CircularBufferProofs shows of the ring.                                 *)
(***************************************************************************)
EXTENDS MCHost, SequenceTheorems, TLAPS

LEMMA LimitIsPositive == queuedFrameLimit \in Nat /\ queuedFrameLimit > 0
BY AudioAssumption

(* Three queues, and one queue after another: named, to be cited whole.    *)
AreSeqs(S, a, b, c) == a \in Seq(S) /\ b \in Seq(S) /\ c \in Seq(S)
Joined(a, b) == a \o b

LEMMA Regroup ==
    ASSUME NEW S, NEW a, NEW b, NEW c, AreSeqs(S, a, b, c)
    PROVE  /\ Joined(a, Joined(b, c)) = Joined(Joined(a, b), c)
           /\ Joined(a, b) \in Seq(S) /\ Joined(b, c) \in Seq(S)
           /\ Joined(a, << >>) = a
<1>1. a \in Seq(S) /\ b \in Seq(S) /\ c \in Seq(S)
  BY DEF AreSeqs
<1>2. Joined(a, Joined(b, c)) = Joined(Joined(a, b), c)
  BY <1>1, ConcatAssociative DEF Joined
<1>3. Joined(a, b) \in Seq(S) /\ Joined(b, c) \in Seq(S)
  BY <1>1, ConcatProperties DEF Joined
<1>4. Joined(a, << >>) = a
  BY <1>1, ConcatEmptySeq DEF Joined
<1> QED
  BY <1>2, <1>3, <1>4

(* Nothing is queued at the start.                                         *)
LEMMA StartsTyped == AudioInit => AudioTypeOK
BY LimitIsPositive DEF AudioInit, AudioTypeOK

(* What is queued lies behind what waits, wherever that has been moved to. *)
LEMMA QueueTyped ==
    ASSUME AudioTypeOK, NEW given \in Seq(Frames), queue(given)
    PROVE  AudioTypeOK'
<1> DEFINE moved == Compacts(Len(given))
           end == IF moved THEN queuedFrameTail - queuedFrameHead ELSE queuedFrameTail
           count == Lesser(Len(given), queuedFrameLimit - end)
<1>1. Len(given) \in Nat /\ moved \in BOOLEAN
  BY DEF Compacts
<1>2. end \in 0 .. queuedFrameLimit /\ end \in Nat
  BY LimitIsPositive DEF AudioTypeOK
<1>3. count \in 0 .. queuedFrameLimit - end /\ count <= Len(given)
  BY <1>1, <1>2, LimitIsPositive DEF Lesser
<1>4. /\ queuedFrameBuffer' = [i \in 0 .. queuedFrameLimit - 1 |->
             IF end <= i /\ i < end + count THEN given[i - end + 1]
             ELSE IF moved /\ i < end THEN queuedFrameBuffer[queuedFrameHead + i]
             ELSE queuedFrameBuffer[i]]
      /\ queuedFrameHead' = IF moved THEN 0 ELSE queuedFrameHead
      /\ queuedFrameTail' = end + count
      /\ offered' = given /\ played' = << >>
  BY DEF queue
<1>5. end = IF moved THEN queuedFrameTail - queuedFrameHead ELSE queuedFrameTail
  OBVIOUS
<1> HIDE DEF moved, count, end
<1>6. \A i \in 0 .. queuedFrameLimit - 1 :
         end <= i /\ i < end + count => given[i - end + 1] \in Frames
  BY <1>1, <1>2, <1>3, LimitIsPositive
<1>7. \A i \in 0 .. queuedFrameLimit - 1 :
         moved /\ i < end => queuedFrameBuffer[queuedFrameHead + i] \in Frames
  BY <1>1, LimitIsPositive DEF AudioTypeOK, end
<1>8. queuedFrameBuffer' \in [0 .. queuedFrameLimit - 1 -> Frames \union {Silence}]
  BY <1>4, <1>6, <1>7 DEF AudioTypeOK
<1>9. queuedFrameTail' \in 0 .. queuedFrameLimit /\ queuedFrameHead' \in 0 .. queuedFrameTail'
  BY <1>1, <1>2, <1>3, <1>4, <1>5, LimitIsPositive DEF AudioTypeOK
<1>10. ASSUME NEW i \in queuedFrameHead' .. queuedFrameTail' - 1
      PROVE  queuedFrameBuffer'[i] \in Frames
  <2>1. i \in 0 .. queuedFrameLimit - 1 /\ i < end + count
    BY <1>9, <1>4, <1>2, <1>3, LimitIsPositive
  <2>2. CASE end <= i
    BY <2>1, <2>2, <1>4, <1>6
  <2>3. CASE i < end /\ moved
    BY <2>1, <2>3, <1>4, <1>7, <1>2
  <2>4. CASE i < end /\ ~moved
    BY <2>1, <2>4, <1>4, <1>2, <1>5 DEF AudioTypeOK
  <2> QED
    BY <2>1, <2>2, <2>3, <2>4, <1>2
<1>11. offered' \in Seq(Frames) /\ played' \in Seq(Frames)
  BY <1>4, EmptySeq
<1> QED
  BY <1>8, <1>9, <1>10, <1>11 DEF AudioTypeOK

LEMMA PlayedTyped ==
    ASSUME AudioTypeOK, NEW num_frames \in Nat, mixClemensAudio(num_frames)
    PROVE  AudioTypeOK'
<1> DEFINE n == Lesser(num_frames, queuedFrameTail - queuedFrameHead)
<1>1. n \in 0 .. queuedFrameTail - queuedFrameHead
  BY LimitIsPositive DEF AudioTypeOK, Lesser
<1>2. /\ played' = [i \in 1 .. n |-> queuedFrameBuffer[queuedFrameHead + i - 1]]
      /\ queuedFrameHead' = queuedFrameHead + n
      /\ offered' = << >>
      /\ UNCHANGED <<queuedFrameBuffer, queuedFrameTail>>
  BY DEF mixClemensAudio
<1> HIDE DEF n
<1>3. \A i \in 1 .. n : queuedFrameBuffer[queuedFrameHead + i - 1] \in Frames
  BY <1>1, LimitIsPositive DEF AudioTypeOK
<1>4. played' \in Seq(Frames)
  BY <1>1, <1>2, <1>3
<1> QED
  BY <1>1, <1>2, <1>4, LimitIsPositive DEF AudioTypeOK

LEMMA StaysTyped == AudioTypeOK /\ [AudioNext]_audioVars => AudioTypeOK'
<1> SUFFICES ASSUME AudioTypeOK, [AudioNext]_audioVars PROVE AudioTypeOK'
  OBVIOUS
<1>1. ASSUME NEW given \in Seq(Frames), queue(given) PROVE AudioTypeOK'
  BY <1>1, QueueTyped
<1>2. CASE flush
  BY <1>2, LimitIsPositive DEF flush, AudioTypeOK
<1>3. ASSUME NEW n \in Nat, mixClemensAudio(n) PROVE AudioTypeOK'
  BY <1>3, PlayedTyped
<1>4. CASE UNCHANGED audioVars
  BY <1>4 DEF audioVars, AudioTypeOK
<1> QED
  BY <1>1, <1>2, <1>3, <1>4 DEF AudioNext

(* The indices stay in the buffer, and what waits between them is sound    *)
(* that was queued and never the silence the buffer is made of.            *)
THEOREM QueueTypeCorrect == AudioSpec => []AudioTypeOK
BY StartsTyped, StaysTyped, PTL DEF AudioSpec
-----------------------------------------------------------------------------
(* Each operation is one of FrameFifo's.                                   *)
Sound == Frames \union {Silence}
Pending == queuedFrameTail - queuedFrameHead

LEMMA WaitingIsSequence ==
    AudioTypeOK => Waiting \in Seq(Sound) /\ Len(Waiting) = Pending /\ Pending \in 0 .. queuedFrameLimit
<1> SUFFICES ASSUME AudioTypeOK
             PROVE  Waiting \in Seq(Sound) /\ Len(Waiting) = Pending /\ Pending \in 0 .. queuedFrameLimit
  OBVIOUS
<1>1. Pending \in 0 .. queuedFrameLimit /\ Pending \in Nat
  BY LimitIsPositive DEF AudioTypeOK, Pending
<1>2. \A i \in 1 .. Pending : queuedFrameHead + i - 1 \in 0 .. queuedFrameLimit - 1
  BY <1>1, LimitIsPositive DEF AudioTypeOK, Pending
<1>3. Waiting = [i \in 1 .. Pending |-> queuedFrameBuffer[queuedFrameHead + i - 1]]
  BY DEF Waiting, Pending
<1>4. \A i \in 1 .. Pending : queuedFrameBuffer[queuedFrameHead + i - 1] \in Sound
  BY <1>2 DEF AudioTypeOK, Sound
<1> QED
  BY <1>1, <1>3, <1>4

LEMMA QueuePuts ==
    ASSUME AudioTypeOK, NEW given \in Seq(Frames), queue(given)
    PROVE  FlatQueue!Put
<1> DEFINE moved == Compacts(Len(given))
           end == IF moved THEN queuedFrameTail - queuedFrameHead ELSE queuedFrameTail
           count == Lesser(Len(given), queuedFrameLimit - end)
           buffer == queuedFrameBuffer'
<1>1. /\ Len(given) \in Nat /\ moved \in BOOLEAN
      /\ end \in 0 .. queuedFrameLimit /\ Pending \in 0 .. end
      /\ queuedFrameHead \in Nat /\ queuedFrameTail \in Nat
  BY LimitIsPositive DEF AudioTypeOK, Pending, Compacts
<1>2. count = FlatQueue!Smaller(Len(given), queuedFrameLimit - Pending)
  BY <1>1, LimitIsPositive DEF AudioTypeOK, Pending, Compacts, Lesser, FlatQueue!Smaller
<1>3. count \in 0 .. queuedFrameLimit - end /\ count <= Len(given) /\ count \in Nat
  BY <1>1, LimitIsPositive DEF Lesser
<1>4. /\ buffer = [i \in 0 .. queuedFrameLimit - 1 |->
             IF end <= i /\ i < end + count THEN given[i - end + 1]
             ELSE IF moved /\ i < end THEN queuedFrameBuffer[queuedFrameHead + i]
             ELSE queuedFrameBuffer[i]]
      /\ queuedFrameHead' = IF moved THEN 0 ELSE queuedFrameHead
      /\ queuedFrameTail' = end + count
      /\ offered' = given /\ played' = << >>
  BY DEF queue
<1>5. Pending' = Pending + count /\ queuedFrameHead' = end - Pending
  BY <1>1, <1>3, <1>4 DEF Pending
<1> DEFINE kept == SubSeq(given, 1, count)
<1>6. kept \in Seq(Frames) /\ Len(kept) = count /\ \A j \in 1 .. count : kept[j] = given[j]
  BY <1>3
<1> HIDE DEF moved, count, kept
<1>7. Waiting' = [i \in 1 .. Pending + count |-> buffer[end - Pending + i - 1]]
  BY <1>5 DEF Waiting, Pending
<1>8. Waiting = [i \in 1 .. Pending |-> queuedFrameBuffer[queuedFrameHead + i - 1]]
  BY DEF Waiting, Pending
<1>9. Waiting \o kept =
         [i \in 1 .. Pending + count |->
            IF i <= Pending THEN queuedFrameBuffer[queuedFrameHead + i - 1] ELSE given[i - Pending]]
  <2>1. Waiting \in Seq(Sound) /\ Len(Waiting) = Pending
    BY WaitingIsSequence
  <2>2. kept \in Seq(Sound)
    BY <1>6 DEF Sound
  <2>3. Waiting \o kept = [i \in 1 .. Pending + count |->
                             IF i <= Pending THEN Waiting[i] ELSE kept[i - Pending]]
    <3>1. /\ Waiting \o kept \in Seq(Sound)
          /\ Len(Waiting \o kept) = Pending + count
          /\ \A i \in 1 .. Pending + count :
                (Waiting \o kept)[i] = IF i <= Pending THEN Waiting[i] ELSE kept[i - Pending]
      BY <2>1, <2>2, <1>6, ConcatProperties
    <3> QED
      BY <3>1, LenProperties
  <2>4. \A i \in 1 .. Pending + count : i <= Pending => Waiting[i] = queuedFrameBuffer[queuedFrameHead + i - 1]
    BY <1>8, <1>1, <1>3
  <2>5. \A i \in 1 .. Pending + count : ~(i <= Pending) => kept[i - Pending] = given[i - Pending]
    BY <1>6, <1>1, <1>3
  <2> QED
    BY <2>3, <2>4, <2>5
<1>10. ASSUME NEW i \in 1 .. Pending + count
       PROVE  buffer[end - Pending + i - 1]
                = IF i <= Pending THEN queuedFrameBuffer[queuedFrameHead + i - 1] ELSE given[i - Pending]
  <2>1. end - Pending + i - 1 \in 0 .. queuedFrameLimit - 1 /\ i \in Nat
    BY <1>1, <1>3, LimitIsPositive
  <2>2. CASE i > Pending
    <3>1. end <= end - Pending + i - 1 /\ end - Pending + i - 1 < end + count
      BY <2>2, <1>1, <1>3
    <3>2. (end - Pending + i - 1) - end + 1 = i - Pending
      BY <1>1, <1>3
    <3> QED
      BY <2>1, <2>2, <3>1, <3>2, <1>1, <1>4
  <2>3. CASE i <= Pending
    <3>1. end - Pending + i - 1 < end
      BY <2>3, <1>1, <1>3
    <3>2. CASE moved
      <4>1. queuedFrameHead + (end - Pending + i - 1) = queuedFrameHead + i - 1
        BY <3>2, <1>1, <1>3 DEF Pending
      <4>2. buffer[end - Pending + i - 1] = queuedFrameBuffer[queuedFrameHead + (end - Pending + i - 1)]
        BY <2>1, <3>1, <3>2, <1>1, <1>4
      <4> QED
        BY <2>3, <4>1, <4>2
    <3>3. CASE ~moved
      <4>1. end - Pending + i - 1 = queuedFrameHead + i - 1
        BY <3>3, <1>1, <1>3 DEF Pending
      <4> QED
        BY <2>1, <2>3, <3>1, <3>3, <4>1, <1>1, <1>4
    <3> QED
      BY <3>2, <3>3
  <2> QED
    BY <2>1, <2>2, <2>3, <1>1
<1>11. Waiting' = Waiting \o kept
  BY <1>7, <1>9, <1>10
<1>12. Waiting' = Waiting \o SubSeq(offered', 1, FlatQueue!Smaller(Len(offered'), queuedFrameLimit - Len(Waiting)))
  BY <1>11, <1>2, <1>4, WaitingIsSequence DEF kept
<1> QED
  BY <1>4, <1>12 DEF FlatQueue!Put

LEMMA MixTakes ==
    ASSUME AudioTypeOK, NEW num_frames \in Nat, mixClemensAudio(num_frames)
    PROVE  FlatQueue!Take
<1> DEFINE n == Lesser(num_frames, Pending)
<1>1. n \in 0 .. Pending /\ Pending \in Nat
  BY WaitingIsSequence DEF Lesser
<1>2. /\ played' = [i \in 1 .. n |-> queuedFrameBuffer[queuedFrameHead + i - 1]]
      /\ queuedFrameHead' = queuedFrameHead + n
      /\ offered' = << >>
      /\ UNCHANGED <<queuedFrameBuffer, queuedFrameTail>>
  BY DEF mixClemensAudio, Pending
<1> HIDE DEF n
<1>3. /\ Waiting \in Seq(Sound) /\ Len(Waiting) = Pending
      /\ Waiting = [i \in 1 .. Pending |-> queuedFrameBuffer[queuedFrameHead + i - 1]]
  BY WaitingIsSequence DEF Waiting, Pending
<1>4. played' = SubSeq(Waiting, 1, n)
  <2>1. SubSeq(Waiting, 1, n) = [i \in 1 .. n |-> Waiting[i]]
    BY <1>1, <1>3
  <2>2. \A i \in 1 .. n : Waiting[i] = queuedFrameBuffer[queuedFrameHead + i - 1]
    BY <1>1, <1>3
  <2> QED
    BY <1>2, <2>1, <2>2
<1>5. Waiting' = SubSeq(Waiting, n + 1, Len(Waiting))
  <2>1. SubSeq(Waiting, n + 1, Len(Waiting)) = [i \in 1 .. Pending - n |-> Waiting[i + n]]
    BY <1>1, <1>3
  <2>2. Waiting' = [i \in 1 .. Pending - n |-> queuedFrameBuffer[(queuedFrameHead + n) + i - 1]]
    <3>1. Pending' = Pending - n
      BY <1>1, <1>2 DEF Pending, AudioTypeOK
    <3> QED
      BY <3>1, <1>2 DEF Waiting, Pending
  <2>3. ASSUME NEW i \in 1 .. Pending - n
        PROVE  Waiting[i + n] = queuedFrameBuffer[(queuedFrameHead + n) + i - 1]
    <3>1. i + n \in 1 .. Pending /\ queuedFrameHead + (i + n) - 1 = (queuedFrameHead + n) + i - 1
      BY <1>1 DEF AudioTypeOK
    <3> QED
      BY <3>1, <1>3
  <2> QED
    BY <2>1, <2>2, <2>3
<1>6. n \in 0 .. Len(Waiting)
  BY <1>1, <1>3
<1> QED
  BY <1>2, <1>4, <1>5, <1>6 DEF FlatQueue!Take

LEMMA FlushEmpties ==
    ASSUME AudioTypeOK, flush
    PROVE  FlatQueue!Empty
<1>1. /\ queuedFrameHead' = 0 /\ queuedFrameTail' = 0
      /\ offered' = << >> /\ played' = << >>
  BY DEF flush
<1>2. Waiting' = << >>
  BY <1>1 DEF Waiting
<1> QED
  BY <1>1, <1>2 DEF FlatQueue!Empty

LEMMA StepsAreSteps ==
    AudioTypeOK /\ [AudioNext]_audioVars => [FlatQueue!Next]_(FlatQueue!vars)
<1> SUFFICES ASSUME AudioTypeOK, [AudioNext]_audioVars
             PROVE  [FlatQueue!Next]_(FlatQueue!vars)
  OBVIOUS
<1>1. ASSUME NEW given \in Seq(Frames), queue(given) PROVE FlatQueue!Next
  BY <1>1, QueuePuts DEF FlatQueue!Next
<1>2. ASSUME NEW n \in Nat, mixClemensAudio(n) PROVE FlatQueue!Next
  BY <1>2, MixTakes DEF FlatQueue!Next
<1>3. CASE flush
  BY <1>3, FlushEmpties DEF FlatQueue!Next
<1>4. CASE UNCHANGED audioVars
  BY <1>4 DEF audioVars, FlatQueue!vars, Waiting
<1> QED
  BY <1>1, <1>2, <1>3, <1>4 DEF AudioNext

LEMMA StartsEmpty == AudioInit => FlatQueue!Init
<1> SUFFICES ASSUME AudioInit PROVE FlatQueue!Init
  OBVIOUS
<1>1. Waiting = << >>
  BY DEF AudioInit, Waiting
<1> QED
  BY <1>1 DEF AudioInit, FlatQueue!Init

(* Every batch, pause and flush, in whatever order the emulator and the    *)
(* sound system come by, is what a plain queue of frames does: pushing the *)
(* frames that wait to the front neither loses nor repeats nor moves any,  *)
(* and a batch is cut only when the buffer is full of frames that wait.    *)
THEOREM QueueImplementsFifo == AudioSpec => ImplementsFrameFifo
BY QueueTypeCorrect, StartsEmpty, StepsAreSteps, PTL DEF AudioSpec, ImplementsFrameFifo, FlatQueue!Spec
-----------------------------------------------------------------------------
(* The whole path.  What is still in the mix buffer when the machine is    *)
(* stepped was queued before, and no frame is known before it was mixed.   *)
PathTypeOK ==
    /\ worker \in {"post", "step", "dispatch"} /\ ok \in BOOLEAN
    /\ mixed \in Seq(Frames) /\ heard \in Seq(Frames) /\ snapshots \subseteq Seq(Frames)
    /\ made \in 0 .. MaxMixed

KnownFrames ==
    /\ Elements(mixed) \subseteq 1 .. made
    /\ \A s \in snapshots : Elements(s) \subseteq 1 .. made

LeftIsReplayed == worker = "step" => Elements(mixed) \subseteq replayed

PathInv == AudioTypeOK /\ PathTypeOK /\ KnownFrames /\ LeftIsReplayed /\ HeardOnce

LEMMA FramesAreNumbers == MaxMixed \in Nat /\ Frames = 1 .. MaxMixed
BY PathAssumption

(* What is in two sequences, one behind the other.                         *)
LEMMA ElementsConcat ==
    \A s, t \in Seq(Frames) : Elements(s \o t) = Elements(s) \union Elements(t)
<1> TAKE s, t \in Seq(Frames)
<1>1. /\ DOMAIN s = 1 .. Len(s) /\ DOMAIN t = 1 .. Len(t) /\ Len(s) \in Nat /\ Len(t) \in Nat
      /\ DOMAIN (s \o t) = 1 .. Len(s) + Len(t)
      /\ \A i \in 1 .. Len(s) + Len(t) :
            (s \o t)[i] = IF i <= Len(s) THEN s[i] ELSE t[i - Len(s)]
  BY ConcatProperties, LenProperties
<1>2. ASSUME NEW e \in Elements(s \o t) PROVE e \in Elements(s) \union Elements(t)
  <2>1. PICK i \in 1 .. Len(s) + Len(t) : e = (s \o t)[i]
    BY <1>1, <1>2 DEF Elements
  <2>2. CASE i <= Len(s)
    BY <1>1, <2>1, <2>2 DEF Elements
  <2>3. CASE ~(i <= Len(s))
    <3>1. i - Len(s) \in 1 .. Len(t) /\ e = t[i - Len(s)]
      BY <1>1, <2>1, <2>3
    <3> QED
      BY <1>1, <3>1 DEF Elements
  <2> QED
    BY <2>2, <2>3
<1>3. ASSUME NEW e \in Elements(s) PROVE e \in Elements(s \o t)
  <2>1. PICK i \in 1 .. Len(s) : e = s[i]
    BY <1>1, <1>3 DEF Elements
  <2>2. i \in 1 .. Len(s) + Len(t) /\ e = (s \o t)[i]
    BY <1>1, <2>1
  <2> QED
    BY <1>1, <2>2 DEF Elements
<1>4. ASSUME NEW e \in Elements(t) PROVE e \in Elements(s \o t)
  <2>1. PICK i \in 1 .. Len(t) : e = t[i]
    BY <1>1, <1>4 DEF Elements
  <2>2. i + Len(s) \in 1 .. Len(s) + Len(t) /\ ~(i + Len(s) <= Len(s)) /\ (i + Len(s)) - Len(s) = i
    BY <1>1, <2>1
  <2>3. e = (s \o t)[i + Len(s)]
    BY <1>1, <2>1, <2>2
  <2> QED
    BY <1>1, <2>2, <2>3 DEF Elements
<1> QED
  BY <1>2, <1>3, <1>4

(* Larger frames behind smaller ones are in order, but for the same set.   *)
LEMMA InOrderConcat ==
    ASSUME NEW s \in Seq(Frames), NEW t \in Seq(Frames), NEW again
    PROVE  /\ InOrderBut(s \o t, again) => InOrderBut(s, again)
           /\ /\ InOrderBut(s, again) /\ InOrderBut(t, again)
              /\ \A a \in Elements(s), b \in Elements(t) : a < b \/ a \in again \/ b \in again
              => InOrderBut(s \o t, again)
<1>1. /\ DOMAIN s = 1 .. Len(s) /\ DOMAIN t = 1 .. Len(t) /\ Len(s) \in Nat /\ Len(t) \in Nat
      /\ DOMAIN (s \o t) = 1 .. Len(s) + Len(t)
      /\ \A i \in 1 .. Len(s) + Len(t) :
            (s \o t)[i] = IF i <= Len(s) THEN s[i] ELSE t[i - Len(s)]
  BY ConcatProperties, LenProperties
<1>2. ASSUME InOrderBut(s \o t, again) PROVE InOrderBut(s, again)
  <2> SUFFICES ASSUME NEW i \in 1 .. Len(s), NEW j \in 1 .. Len(s), i < j
               PROVE  s[i] < s[j] \/ s[i] \in again \/ s[j] \in again
    BY <1>1 DEF InOrderBut
  <2>1. i \in DOMAIN (s \o t) /\ j \in DOMAIN (s \o t) /\ (s \o t)[i] = s[i] /\ (s \o t)[j] = s[j]
    BY <1>1
  <2> QED
    BY <1>2, <2>1 DEF InOrderBut
<1>3. ASSUME InOrderBut(s, again), InOrderBut(t, again),
             \A a \in Elements(s), b \in Elements(t) : a < b \/ a \in again \/ b \in again
      PROVE  InOrderBut(s \o t, again)
  <2> SUFFICES ASSUME NEW i \in 1 .. Len(s) + Len(t), NEW j \in 1 .. Len(s) + Len(t), i < j
               PROVE  \/ (s \o t)[i] < (s \o t)[j]
                      \/ (s \o t)[i] \in again \/ (s \o t)[j] \in again
    BY <1>1 DEF InOrderBut
  <2>1. CASE j <= Len(s)
    <3>1. i \in DOMAIN s /\ j \in DOMAIN s /\ (s \o t)[i] = s[i] /\ (s \o t)[j] = s[j]
      BY <1>1, <2>1
    <3> QED
      BY <1>3, <3>1 DEF InOrderBut
  <2>2. CASE i <= Len(s) /\ ~(j <= Len(s))
    <3>1. /\ i \in DOMAIN s /\ j - Len(s) \in DOMAIN t
          /\ (s \o t)[i] = s[i] /\ (s \o t)[j] = t[j - Len(s)]
      BY <1>1, <2>2
    <3>2. s[i] \in Elements(s) /\ t[j - Len(s)] \in Elements(t)
      BY <3>1 DEF Elements
    <3> QED
      BY <1>3, <3>1, <3>2
  <2>3. CASE ~(i <= Len(s))
    <3>1. /\ i - Len(s) \in DOMAIN t /\ j - Len(s) \in DOMAIN t /\ i - Len(s) < j - Len(s)
          /\ (s \o t)[i] = t[i - Len(s)] /\ (s \o t)[j] = t[j - Len(s)]
      BY <1>1, <2>3
    <3> QED
      BY <1>3, <3>1 DEF InOrderBut
  <2> QED
    BY <1>1, <2>1, <2>2, <2>3
<1> QED
  BY <1>2, <1>3

(* Frames that may come again are in any order; excusing more is easier.   *)
LEMMA InOrderMore ==
    ASSUME NEW s, NEW again, NEW more
    PROVE  /\ Elements(s) \subseteq again => InOrderBut(s, again)
           /\ InOrderBut(s, again) /\ again \subseteq more => InOrderBut(s, more)
BY DEF InOrderBut, Elements

(* A sequence is its beginning and its end.                                *)
LEMMA CutAnywhere ==
    \A s \in Seq(Frames) : \A n \in 0 .. Len(s) :
        /\ SubSeq(s, 1, n) \in Seq(Frames) /\ SubSeq(s, n + 1, Len(s)) \in Seq(Frames)
        /\ s = SubSeq(s, 1, n) \o SubSeq(s, n + 1, Len(s))
<1> TAKE s \in Seq(Frames)
<1> TAKE n \in 0 .. Len(s)
<1>1. Len(s) \in Nat /\ \A i \in 1 .. Len(s) : s[i] \in Frames
  BY LenProperties, ElementOfSeq
<1>2. SubSeq(s, 1, n) \in Seq(Frames) /\ SubSeq(s, n + 1, Len(s)) \in Seq(Frames)
  BY <1>1, SubSeqProperties
<1> DEFINE front == SubSeq(s, 1, n)
           back == SubSeq(s, n + 1, Len(s))
<1>3. /\ Len(front) = n /\ Len(back) = Len(s) - n
      /\ \A i \in 1 .. n : front[i] = s[i]
      /\ \A i \in 1 .. Len(s) - n : back[i] = s[n + i]
  BY <1>1
<1>4. front \in Seq(Frames) /\ back \in Seq(Frames)
  BY <1>2
<1> HIDE DEF front, back
<1>5. /\ front \o back \in Seq(Frames) /\ Len(front \o back) = Len(s)
      /\ \A i \in 1 .. Len(s) : (front \o back)[i] = IF i <= n THEN front[i] ELSE back[i - n]
  <2>1. /\ front \o back \in Seq(Frames) /\ Len(front \o back) = Len(front) + Len(back)
        /\ \A i \in 1 .. Len(front) + Len(back) :
              (front \o back)[i] = IF i <= Len(front) THEN front[i] ELSE back[i - Len(front)]
    BY <1>4, ConcatProperties
  <2>2. Len(front) + Len(back) = Len(s)
    BY <1>1, <1>3
  <2> QED
    BY <1>3, <2>1, <2>2
<1>6. \A i \in 1 .. Len(s) : (front \o back)[i] = s[i]
  BY <1>1, <1>3, <1>5
<1>7. front \o back = s
  BY <1>5, <1>6, SeqEqual
<1> QED
  BY <1>4, <1>7 DEF front, back

(* What waits are frames.                                                  *)
LEMMA WaitingIsFrames == AudioTypeOK => Waiting \in Seq(Frames)
<1> SUFFICES ASSUME AudioTypeOK PROVE Waiting \in Seq(Frames)
  OBVIOUS
<1>1. Pending \in Nat /\ Waiting = [i \in 1 .. Pending |-> queuedFrameBuffer[queuedFrameHead + i - 1]]
  BY WaitingIsSequence DEF Waiting, Pending
<1>2. \A i \in 1 .. Pending : queuedFrameBuffer[queuedFrameHead + i - 1] \in Frames
  BY LimitIsPositive DEF AudioTypeOK, Pending
<1> QED
  BY <1>1, <1>2

(* What was heard and waits, and what is about to be queued behind it.     *)
Before == heard \o Waiting

LEMMA SoundingParts ==
    ASSUME PathInv
    PROVE  /\ Waiting \in Seq(Frames) /\ heard \in Seq(Frames) /\ mixed \in Seq(Frames)
           /\ Before \in Seq(Frames) /\ made \in Nat
           /\ Sounding = IF worker = "dispatch" THEN Before \o mixed ELSE Before
           /\ Elements(Sounding) = Elements(Before)
                                     \union (IF worker = "dispatch" THEN Elements(mixed) ELSE {})
           /\ InOrderBut(Before, replayed)
           /\ Elements(Before) \subseteq 1 .. made
<1>1. /\ Waiting \in Seq(Frames) /\ heard \in Seq(Frames) /\ mixed \in Seq(Frames)
      /\ made \in Nat
  BY WaitingIsFrames, FramesAreNumbers DEF PathInv, PathTypeOK
<1>2. Before \in Seq(Frames)
  BY <1>1, ConcatProperties DEF Before
<1>3. Sounding = IF worker = "dispatch" THEN Before \o mixed ELSE Before
  <2>1. Before \o << >> = Before
    BY <1>2, ConcatEmptySeq
  <2> QED
    BY <2>1 DEF Sounding, Before
<1>4. Elements(Before \o mixed) = Elements(Before) \union Elements(mixed)
  BY <1>1, <1>2, ElementsConcat
<1>5. InOrderBut(Sounding, replayed) /\ Elements(Sounding) \union dropped = 1 .. made
  BY DEF PathInv, HeardOnce
<1>6. InOrderBut(Before, replayed)
  BY <1>1, <1>2, <1>3, <1>5, InOrderConcat
<1> QED
  BY <1>1, <1>2, <1>3, <1>4, <1>5, <1>6

(* A batch in order whose frames are new, or may come again, may follow.   *)
LEMMA BatchFollows ==
    ASSUME PathInv, NEW t \in Seq(Frames), NEW again, replayed \subseteq again,
           InOrderBut(t, again), \A b \in Elements(t) : b > made \/ b \in again
    PROVE  /\ InOrderBut(Before \o t, again)
           /\ Elements(Before \o t) = Elements(Before) \union Elements(t)
<1>1. /\ Before \in Seq(Frames) /\ made \in Nat
      /\ InOrderBut(Before, replayed) /\ Elements(Before) \subseteq 1 .. made
  BY SoundingParts
<1>2. InOrderBut(Before, again)
  BY <1>1, InOrderMore
<1>3. ASSUME NEW a \in Elements(Before), NEW b \in Elements(t) PROVE a < b \/ a \in again \/ b \in again
  <2>1. b \in Frames
    BY DEF Elements
  <2> QED
    BY <1>1, <2>1, FramesAreNumbers
<1>4. InOrderBut(Before \o t, again)
  BY <1>1, <1>2, <1>3, InOrderConcat
<1> QED
  BY <1>1, <1>4, ElementsConcat

(* Where nothing is queued or played, what was heard and waits is as before. *)
LEMMA BeforeStays == UNCHANGED <<audioVars, heard>> => Before' = Before /\ Waiting' = Waiting
BY DEF audioVars, Waiting, Before

LEMMA AfterDispatch ==
    ASSUME worker' # "dispatch", Before' \in Seq(Frames)
    PROVE  Sounding' = Before'
BY ConcatEmptySeq DEF Sounding, Before

(* New frames, one behind the other.                                       *)
LEMMA NewFrames ==
    ASSUME NEW m \in Nat, NEW n \in Nat, m + n <= MaxMixed, NEW again
    PROVE  LET new == [i \in 1 .. n |-> m + i]
           IN  /\ new \in Seq(Frames) /\ InOrderBut(new, again)
               /\ Elements(new) = (m + 1) .. (m + n)
<1> DEFINE new == [i \in 1 .. n |-> m + i]
<1>1. new \in Seq(Frames) /\ DOMAIN new = 1 .. n /\ \A i \in 1 .. n : new[i] = m + i
  BY FramesAreNumbers
<1> HIDE DEF new
<1>2. InOrderBut(new, again)
  BY <1>1 DEF InOrderBut
<1>3. ASSUME NEW e \in Elements(new) PROVE e \in (m + 1) .. (m + n)
  BY <1>1, <1>3 DEF Elements
<1>4. ASSUME NEW e \in (m + 1) .. (m + n) PROVE e \in Elements(new)
  <2>1. e - m \in 1 .. n /\ e = new[e - m]
    BY <1>1
  <2> QED
    BY <1>1, <2>1 DEF Elements
<1>5. new \in Seq(Frames) /\ InOrderBut(new, again) /\ Elements(new) = (m + 1) .. (m + n)
  BY <1>1, <1>2, <1>3, <1>4
<1> QED
  BY <1>5 DEF new
-----------------------------------------------------------------------------
LEMMA PathStarts == PathInit => PathInv
<1> SUFFICES ASSUME PathInit PROVE PathInv
  OBVIOUS
<1>1. << >> \in Seq(Frames) /\ Elements(<< >>) = {} /\ 1 .. 0 = {} /\ InOrderBut(<< >>, {})
  BY EmptySeq DEF Elements, InOrderBut
<1>2. AudioTypeOK /\ PathTypeOK
  BY <1>1, StartsTyped, FramesAreNumbers DEF PathInit, PathTypeOK
<1>3. Sounding = << >>
  BY DEF PathInit, AudioInit, Waiting, Sounding
<1>4. HeardOnce
  BY <1>1, <1>3 DEF PathInit, HeardOnce
<1> QED
  BY <1>1, <1>2, <1>4 DEF PathInit, PathInv, KnownFrames, LeftIsReplayed

(* post: what was queued is given back, or may come again.                 *)
LEMMA PostStep == PathInv /\ post => PathInv'
<1> SUFFICES ASSUME PathInv, post PROVE PathInv'
  OBVIOUS
<1>1. << >> \in Seq(Frames) /\ Elements(<< >>) = {}
  BY EmptySeq DEF Elements
<1>2. AudioTypeOK'
  BY DEF PathInv, AudioTypeOK, post, audioVars
<1>3. PathTypeOK' /\ KnownFrames' /\ LeftIsReplayed'
  BY <1>1 DEF PathInv, PathTypeOK, KnownFrames, LeftIsReplayed, post, Consumed
<1>4. HeardOnce'
  <2>1. Before' = Before /\ Before \in Seq(Frames) /\ Sounding = Before
    BY SoundingParts, BeforeStays DEF post
  <2>2. Sounding' = Sounding
    BY <2>1, AfterDispatch DEF post
  <2>3. replayed \subseteq replayed'
    BY DEF post
  <2>4. InOrderBut(Sounding, replayed')
    BY <2>3, InOrderMore DEF PathInv, HeardOnce
  <2> QED
    BY <2>2, <2>4 DEF PathInv, HeardOnce, post
<1> QED
  BY <1>2, <1>3, <1>4 DEF PathInv

(* step: what is mixed is larger than all that was.                        *)
LEMMA StepStep == PathInv /\ step => PathInv'
<1> SUFFICES ASSUME PathInv, step PROVE PathInv'
  OBVIOUS
<1>1. AudioTypeOK'
  BY DEF PathInv, AudioTypeOK, step, audioVars
<1>2. PICK n \in Nat :
        /\ mixed' = mixed \o [i \in 1 .. n |-> made + i]
        /\ made' = made + n /\ made + n <= MaxMixed /\ ok' \in BOOLEAN
  <2>1. made \in Nat /\ made <= MaxMixed /\ Len(mixed) \in Nat /\ mixed \in Seq(Frames)
    BY LenProperties, FramesAreNumbers DEF PathInv, PathTypeOK
  <2>2. CASE ~ok
    <3>1. [i \in 1 .. 0 |-> made + i] = << >> /\ mixed \o << >> = mixed /\ made + 0 = made
      BY <2>1, ConcatEmptySeq
    <3>2. 0 \in Nat /\ mixed' = mixed /\ made' = made /\ ok' \in BOOLEAN
      BY <2>2 DEF step, PathInv, PathTypeOK
    <3> QED
      BY <2>1, <3>1, <3>2
  <2>3. CASE ok
    <3>1. PICK n \in 0 .. Lesser(MixLimit - Len(mixed), MaxMixed - made) :
            /\ mixed' = mixed \o [i \in 1 .. n |-> made + i]
            /\ made' = made + n /\ ok' \in BOOLEAN
      BY <2>3 DEF step
    <3>2. n \in Nat /\ made + n <= MaxMixed
      BY <2>1, FramesAreNumbers, PathAssumption DEF Lesser
    <3> QED
      BY <3>1, <3>2
  <2> QED
    BY <2>2, <2>3
<1> DEFINE new == [i \in 1 .. n |-> made + i]
<1>3. /\ mixed \in Seq(Frames) /\ made \in Nat
      /\ Elements(mixed) \subseteq 1 .. made /\ Elements(mixed) \subseteq replayed
  BY FramesAreNumbers DEF PathInv, PathTypeOK, KnownFrames, LeftIsReplayed, step
<1>4. /\ new \in Seq(Frames) /\ InOrderBut(new, replayed)
      /\ Elements(new) = (made + 1) .. (made + n)
  BY <1>2, <1>3, NewFrames
<1> HIDE DEF new
<1>5. mixed' = mixed \o new /\ mixed' \in Seq(Frames)
  BY <1>2, <1>3, <1>4, ConcatProperties DEF new
<1>6. Elements(mixed') = Elements(mixed) \union ((made + 1) .. (made + n))
  BY <1>3, <1>4, <1>5, ElementsConcat
<1>7. InOrderBut(mixed', replayed)
  <2>1. InOrderBut(mixed, replayed)
    BY <1>3, InOrderMore
  <2> QED
    BY <1>3, <1>4, <1>5, <2>1, InOrderConcat
<1>8. \A b \in Elements(mixed') : b > made \/ b \in replayed
  BY <1>3, <1>6
<1>9. /\ InOrderBut(Before \o mixed', replayed)
      /\ Elements(Before \o mixed') = Elements(Before) \union Elements(mixed')
  BY <1>5, <1>7, <1>8, BatchFollows
<1>10. Sounding' = Before \o mixed'
  <2>1. Before' = Before
    BY BeforeStays DEF step
  <2> QED
    BY <2>1 DEF step, Sounding, Before
<1>11. HeardOnce'
  <2>1. Elements(Before) \union dropped \union Elements(mixed) = 1 .. made
    <3>1. Elements(Before) \union dropped = 1 .. made
      BY SoundingParts DEF PathInv, HeardOnce, step
    <3> QED
      BY <1>3, <3>1
  <2>2. Elements(Sounding') \union dropped = (1 .. made) \union ((made + 1) .. (made + n))
    BY <1>6, <1>9, <1>10, <2>1
  <2>3. (1 .. made) \union ((made + 1) .. (made + n)) = 1 .. made'
    BY <1>2, <1>3
  <2>4. dropped' = dropped /\ replayed' = replayed
    BY DEF step
  <2> QED
    BY <1>9, <1>10, <2>2, <2>3, <2>4 DEF HeardOnce
<1>12. PathTypeOK'
  BY <1>2, <1>3, <1>5, FramesAreNumbers DEF PathInv, PathTypeOK, step
<1>13. KnownFrames' /\ LeftIsReplayed'
  <2>1. made' = made + n /\ snapshots' = snapshots
    BY <1>2 DEF step
  <2> QED
    BY <1>3, <1>6, <2>1 DEF PathInv, KnownFrames, LeftIsReplayed, step
<1> QED
  BY <1>1, <1>11, <1>12, <1>13 DEF PathInv

(* save and run: nothing is queued, mixed or heard.                        *)
LEMMA SaveRunStep == PathInv /\ (save \/ run) => PathInv'
<1> SUFFICES ASSUME PathInv, save \/ run PROVE PathInv'
  OBVIOUS
<1>1. AudioTypeOK'
  BY DEF PathInv, AudioTypeOK, save, run, audioVars
<1>2. PathTypeOK' /\ KnownFrames' /\ LeftIsReplayed'
  BY DEF PathInv, PathTypeOK, KnownFrames, LeftIsReplayed, save, run
<1>3. HeardOnce'
  <2>1. Waiting' = Waiting
    BY BeforeStays DEF save, run
  <2>2. Sounding' = Sounding
    BY <2>1 DEF Sounding, save, run
  <2> QED
    BY <2>2 DEF PathInv, HeardOnce, save, run
<1> QED
  BY <1>1, <1>2, <1>3 DEF PathInv

(* load: what comes with the snapshot may come again, what was mixed goes. *)
LEMMA LoadStep == PathInv /\ load => PathInv'
<1> SUFFICES ASSUME PathInv, load PROVE PathInv'
  OBVIOUS
<1>1. PICK s \in snapshots : mixed' = s /\ replayed' = replayed \union Elements(s)
  BY DEF load
<1>2. s \in Seq(Frames) /\ Elements(s) \subseteq 1 .. made
  BY DEF PathInv, PathTypeOK, KnownFrames
<1>3. AudioTypeOK'
  BY DEF PathInv, AudioTypeOK, load, audioVars
<1>4. PathTypeOK' /\ KnownFrames' /\ LeftIsReplayed'
  BY <1>1, <1>2 DEF PathInv, PathTypeOK, KnownFrames, LeftIsReplayed, load
<1>5. InOrderBut(s, replayed')
  BY <1>1, InOrderMore
<1>6. InOrderBut(Before \o s, replayed') /\ Elements(Before \o s) = Elements(Before) \union Elements(s)
  BY <1>1, <1>2, <1>5, BatchFollows
<1>7. Sounding' = Before \o s
  <2>1. Before' = Before
    BY BeforeStays DEF load
  <2> QED
    BY <1>1, <2>1 DEF load, Sounding, Before
<1>8. Elements(Before) \union Elements(mixed) \union dropped = 1 .. made
  BY SoundingParts DEF PathInv, HeardOnce, load
<1>9. HeardOnce'
  BY <1>2, <1>6, <1>7, <1>8 DEF HeardOnce, load
<1> QED
  BY <1>3, <1>4, <1>9 DEF PathInv

(* A batch that is queued follows all that was heard or waits.             *)
LEMMA QueueHeard ==
    ASSUME PathInv, worker = "dispatch", worker' = "post", queue(mixed),
           UNCHANGED <<heard, made, replayed>>,
           dropped' = dropped \union (Elements(mixed) \ Elements(Waiting'))
    PROVE  HeardOnce'
<1> DEFINE n == FlatQueue!Smaller(Len(mixed), queuedFrameLimit - Len(Waiting))
           kept == SubSeq(mixed, 1, n)
           rest == SubSeq(mixed, n + 1, Len(mixed))
<1>1. AudioTypeOK /\ PathTypeOK /\ HeardOnce
  BY DEF PathInv
<1>2. /\ Waiting \in Seq(Frames) /\ heard \in Seq(Frames) /\ mixed \in Seq(Frames)
      /\ Before \in Seq(Frames) /\ Len(mixed) \in Nat
      /\ Sounding = Before \o mixed
  BY SoundingParts, LenProperties
<1>3. n \in 0 .. Len(mixed)
  <2>1. Len(Waiting) \in 0 .. queuedFrameLimit
    BY <1>1, WaitingIsSequence
  <2> QED
    BY <1>2, <2>1, LimitIsPositive DEF FlatQueue!Smaller
<1>4. Waiting' = Waiting \o kept
  BY <1>1, <1>2, QueuePuts DEF queue, FlatQueue!Put
<1> HIDE DEF n, kept, rest
<1>5. kept \in Seq(Frames) /\ rest \in Seq(Frames) /\ mixed = kept \o rest
  BY <1>2, <1>3, CutAnywhere DEF kept, rest
<1>6. Before' = Before \o kept /\ Before' \in Seq(Frames)
  <2>1. AreSeqs(Frames, heard, Waiting, kept)
    BY <1>2, <1>5 DEF AreSeqs
  <2>2. Joined(heard, Joined(Waiting, kept)) = Joined(Joined(heard, Waiting), kept)
    BY <2>1, Regroup
  <2>3. Before' = Before \o kept
    BY Zenon, <1>4, <2>2 DEF Joined, Before
  <2> QED
    BY <1>2, <1>5, <2>3, ConcatProperties
<1>7. Sounding = Before' \o rest
  <2>1. AreSeqs(Frames, Before, kept, rest)
    BY <1>2, <1>5 DEF AreSeqs
  <2>2. Joined(Before, Joined(kept, rest)) = Joined(Joined(Before, kept), rest)
    BY <2>1, Regroup
  <2> QED
    BY Zenon, <1>2, <1>5, <1>6, <2>2 DEF Joined
<1>8. Sounding' = Before'
  BY <1>6, AfterDispatch
<1>9. InOrderBut(Sounding', replayed')
  <2>1. InOrderBut(Before' \o rest, replayed)
    BY <1>1, <1>7 DEF HeardOnce
  <2>2. InOrderBut(Before', replayed)
    BY <1>5, <1>6, <2>1, InOrderConcat
  <2> QED
    BY <1>8, <2>2
<1>10. Elements(Sounding') \union dropped' = 1 .. made'
  <2>1. /\ Elements(Before') = Elements(Before) \union Elements(kept)
        /\ Elements(Waiting') = Elements(Waiting) \union Elements(kept)
        /\ Elements(Before) = Elements(heard) \union Elements(Waiting)
        /\ Elements(mixed) = Elements(kept) \union Elements(rest)
    BY <1>2, <1>4, <1>5, <1>6, ElementsConcat DEF Before
  <2>2. Elements(Before) \union Elements(mixed) \union dropped = 1 .. made
    BY <1>1, SoundingParts DEF HeardOnce
  <2> QED
    BY <1>8, <2>1, <2>2
<1> QED
  BY <1>9, <1>10 DEF HeardOnce

(* A batch that the end of fast mode throws away is dropped, with all that *)
(* waits.                                                                  *)
LEMMA FlushHeard ==
    ASSUME PathInv, worker = "dispatch", worker' = "post", flush,
           UNCHANGED <<heard, made, replayed>>,
           dropped' = dropped \union Elements(Waiting) \union Elements(mixed)
    PROVE  HeardOnce'
<1>1. AudioTypeOK /\ HeardOnce
  BY DEF PathInv
<1>2. /\ Waiting \in Seq(Frames) /\ heard \in Seq(Frames) /\ Before \in Seq(Frames)
      /\ InOrderBut(Before, replayed)
  BY SoundingParts
<1>3. Waiting' = << >>
  BY FlushEmpties, <1>1 DEF FlatQueue!Empty
<1>4. Before' = heard /\ Sounding' = heard
  <2>1. heard \o << >> = heard
    BY <1>2, ConcatEmptySeq
  <2>2. Before' = heard
    BY <1>3, <2>1 DEF Before
  <2> QED
    BY <1>2, <2>2, AfterDispatch
<1>5. InOrderBut(heard, replayed)
  BY <1>2, InOrderConcat DEF Before
<1>6. Elements(heard) \union Elements(Waiting) \union Elements(mixed) \union dropped = 1 .. made
  <2>1. Elements(Before) = Elements(heard) \union Elements(Waiting)
    BY <1>2, ElementsConcat DEF Before
  <2>2. Elements(Before) \union Elements(mixed) \union dropped = 1 .. made
    BY <1>1, SoundingParts DEF HeardOnce
  <2> QED
    BY <2>1, <2>2
<1> QED
  BY <1>4, <1>5, <1>6 DEF HeardOnce

(* A pass that queues nothing has mixed nothing.                           *)
LEMMA NothingHeard ==
    ASSUME PathInv, worker = "dispatch", worker' = "post", mixed = << >>,
           UNCHANGED <<audioVars, heard, made, replayed, dropped>>
    PROVE  HeardOnce'
<1>1. Before' = Before /\ Before \in Seq(Frames) /\ Sounding = Before \o << >>
  BY SoundingParts, BeforeStays
<1>2. Sounding' = Sounding
  BY <1>1, AfterDispatch, ConcatEmptySeq
<1> QED
  BY <1>2 DEF PathInv, HeardOnce

(* QueueFrames: the batch is queued, as far as there is room, or flushed.  *)
LEMMA QueueStep == PathInv /\ QueueFrames => PathInv'
<1> SUFFICES ASSUME PathInv, QueueFrames PROVE PathInv'
  OBVIOUS
<1>1. AudioTypeOK /\ PathTypeOK /\ mixed \in Seq(Frames)
  BY DEF PathInv, PathTypeOK
<1>2. PathTypeOK' /\ KnownFrames' /\ LeftIsReplayed'
  BY DEF PathInv, PathTypeOK, KnownFrames, LeftIsReplayed, QueueFrames
<1>3. CASE fastEnds
  <2>1. AudioTypeOK'
    BY <1>1, <1>3, LimitIsPositive DEF QueueFrames, flush, AudioTypeOK
  <2>2. HeardOnce'
    BY <1>3, FlushHeard DEF QueueFrames
  <2> QED
    BY <1>2, <2>1, <2>2 DEF PathInv
<1>4. CASE ~fastEnds /\ mixed = << >>
  <2>1. AudioTypeOK'
    BY <1>1, <1>4 DEF QueueFrames, audioVars, AudioTypeOK
  <2>2. dropped' = dropped
    <3>1. Elements(mixed) = {}
      BY <1>4 DEF Elements
    <3> QED
      BY <1>4, <3>1 DEF QueueFrames
  <2>3. HeardOnce'
    BY <1>4, <2>2, NothingHeard DEF QueueFrames
  <2> QED
    BY <1>2, <2>1, <2>3 DEF PathInv
<1>5. CASE ~fastEnds /\ mixed # << >>
  <2>1. queue(mixed)
    BY <1>5 DEF QueueFrames
  <2>2. AudioTypeOK'
    BY <1>1, <2>1, QueueTyped
  <2>3. HeardOnce'
    BY <1>5, <2>1, QueueHeard DEF QueueFrames
  <2> QED
    BY <1>2, <2>2, <2>3 DEF PathInv
<1> QED
  BY <1>3, <1>4, <1>5

(* Plays: the sound system takes what waits, from its start.               *)
LEMMA PlayStep == PathInv /\ Plays => PathInv'
<1> SUFFICES ASSUME PathInv, Plays PROVE PathInv'
  OBVIOUS
<1>1. PICK k \in Nat : mixClemensAudio(k)
  BY PathAssumption DEF Plays
<1>2. AudioTypeOK /\ Waiting \in Seq(Frames) /\ heard \in Seq(Frames)
  BY SoundingParts DEF PathInv
<1>3. AudioTypeOK'
  BY <1>1, PlayedTyped DEF PathInv
<1>4. PICK n \in 0 .. Len(Waiting) :
        played' = SubSeq(Waiting, 1, n) /\ Waiting' = SubSeq(Waiting, n + 1, Len(Waiting))
  BY <1>1, <1>2, MixTakes DEF FlatQueue!Take
<1>5. played' \in Seq(Frames) /\ Waiting' \in Seq(Frames) /\ Waiting = played' \o Waiting'
  BY <1>2, <1>4, CutAnywhere
<1>6. heard' = heard \o played' /\ heard' \in Seq(Frames)
  BY <1>2, <1>5, ConcatProperties DEF Plays
<1>7. heard' \o Waiting' = heard \o Waiting
  BY <1>2, <1>5, <1>6, ConcatAssociative
<1>8. Sounding' = Sounding
  BY <1>7 DEF Plays, Sounding
<1>9. HeardOnce'
  BY <1>8 DEF PathInv, HeardOnce, Plays
<1> QED
  BY <1>3, <1>6, <1>9 DEF Plays, PathInv, PathTypeOK, KnownFrames, LeftIsReplayed

(* However the machine mixes, the user saves and loads and the sound       *)
(* system plays, every frame is heard, waits or is accounted for, and only *)
(* frames of a snapshot that was loaded or of a machine that stopped its   *)
(* processor are heard twice or out of order.                              *)
THEOREM SoundIsHeardOnce == PathSpec => []HeardOnce
<1>1. PathInv /\ [PathNext]_allVars => PathInv'
  <2>1. PathInv /\ UNCHANGED allVars => PathInv'
    BY DEF allVars, pathVars, audioVars, PathInv, AudioTypeOK, PathTypeOK, KnownFrames,
           LeftIsReplayed, HeardOnce, Sounding, Waiting
  <2> QED
    BY <2>1, PostStep, StepStep, SaveRunStep, LoadStep, QueueStep, PlayStep DEF PathNext
<1>2. PathInv => HeardOnce
  BY DEF PathInv
<1> QED
  BY <1>1, <1>2, PathStarts, PTL DEF PathSpec

-----------------------------------------------------------------------------
(* The handshake of frames: who may touch backendState_ when, and why no   *)
(* posted frame is replaced before the UI has seen it.                     *)
USE SeqModAssumption, BoundsAssumption
USE DEF uiVars, workerVars, sharedVars

(* The mutex is held over exactly the steps of a critical section. *)
MutexInv ==
    /\ mutex = "ui" <=> uiPC \in {"copy", "stage"}
    /\ mutex = "worker" <=> workerPC \in {"post", "wait"}

(* A frame the UI has not acknowledged keeps the worker in its wait, and is *)
(* there to be copied until the UI has.                                     *)
FrameInv ==
    /\ frameSeqNo # frameLastSeqNo =>
        /\ frameSeqNo = (frameLastSeqNo + 1) % SeqMod
        /\ workerPC \in {"wait", "waiting", "relock"}
        /\ uiPC # "stage" => backendState.posted
    /\ uiPC = "copy" => copyState /\ frameSeqNo # frameLastSeqNo

(* An acknowledged frame was copied, except by the sync of stopBackend. *)
CopiedInv ==
    backendState.posted /\ workerPC \notin {"off", "reset"} =>
        /\ uiPC = "stage" => ~copyState
        /\ frameSeqNo = frameLastSeqNo => ~copyState /\ uiPC \in {"stage", "notify", "join"}

(* A thread that starts has no results of the last one.                     *)
ResultsInv ==
    /\ ResultsAccounted
    /\ workerPC = "reset" => results = <<>>

(* Versions grow from what the UI has, over what is posted, to what the     *)
(* machine has.  What the last session left in gsConfig is never the first  *)
(* that a copy finds: the machine of this session has published its own.    *)
ConfigInv ==
    /\ config <= edits /\ machineConfig <= edits /\ gsConfig <= edits
    /\ workerPC # "off" => config <= machineConfig
    /\ workerPC = "reset" => configUpdated
    /\ workerPC \in {"wait", "waiting", "relock", "run"} => ~configUpdated
    /\ workerPC = "done" => gsConfig = machineConfig
    /\ workerPC \notin {"off", "reset"} /\ backendState.config # NoConfig =>
          config <= backendState.config /\ backendState.config <= machineConfig
    /\ workerPC \notin {"off", "reset", "done"} /\ gsConfig # NoConfig =>
          configUpdated \/ backendState.config # NoConfig

SyncIInv ==
    /\ SyncTypeOK /\ MutexInv /\ FrameInv /\ CopiedInv
    /\ ResultsInv /\ ConfigInv

--------------------------------------------------------------------------------
(* The next frame's number is on the ring of numbers, and a different one. *)
LEMMA NextSeqNo ==
    ASSUME NEW n \in 0 .. SeqMod - 1
    PROVE  (n + 1) % SeqMod \in 0 .. SeqMod - 1 /\ (n + 1) % SeqMod # n
OBVIOUS

(* A dropped or appended command leaves a before of commands. *)
LEMMA PushedType ==
    ASSUME NEW before \in Seq(Command), NEW cmd \in Command
    PROVE  Pushed(before, cmd) \in Seq(Command)
<1>1. Append(before, cmd) \in Seq(Command)
  OBVIOUS
<1> QED
  BY <1>1 DEF Pushed

(* Before the first session.                                               *)
LEMMA InitInv == SyncInit => SyncIInv
<1> SUFFICES ASSUME SyncInit PROVE SyncIInv
  OBVIOUS
<1>1. SyncTypeOK
  <2>1. /\ results \in Seq(Ids) /\ reported \in Seq(Ids) /\ delivered \in Seq(Ids)
        /\ executed \in Seq(Ids) /\ backendQueue \in Seq(Command)
        /\ stagedQueue \in Seq(Command)
    BY EmptySeq DEF SyncInit
  <2>2. backendState \in [posted : BOOLEAN, config : Version \cup {NoConfig}]
    BY DEF SyncInit, EmptyState
  <2>3. mutex \in {"free", "ui", "worker"} /\ uiPC \in UIPCs /\ workerPC \in WorkerPCs
    BY DEF SyncInit, UIPCs, WorkerPCs
  <2>4. frameSeqNo \in 0 .. SeqMod - 1 /\ frameLastSeqNo \in 0 .. SeqMod - 1
    BY DEF SyncInit
  <2>5. /\ config \in Version /\ machineConfig \in Version /\ edits \in Version
        /\ gsConfig \in Version \cup {NoConfig} /\ sent \in 0 .. MaxSent
    BY DEF SyncInit, Version
  <2>6. terminated \in BOOLEAN /\ copyState \in BOOLEAN /\ configUpdated \in BOOLEAN
    BY DEF SyncInit
  <2> QED
    BY <2>1, <2>2, <2>3, <2>4, <2>5, <2>6 DEF SyncTypeOK
<1>2. ResultsInv
  BY ConcatEmptySeq, EmptySeq DEF SyncInit, ResultsInv, ResultsAccounted, Unposted
<1>3. ConfigInv
  BY DEF SyncInit, ConfigInv, NoConfig
<1> QED
  BY <1>1, <1>2, <1>3 DEF SyncInit, SyncIInv, MutexInv, FrameInv, CopiedInv, EmptyState

(* The ranges of all variables.                                            *)
LEMMA TypeStep ==
    ASSUME SyncTypeOK, [SyncNext]_syncVars
    PROVE  SyncTypeOK'
<1>1. CASE QueueCommand
  <2>1. [id |-> sent + 1, terminate |-> FALSE] \in Command /\ sent + 1 \in 0 .. MaxSent
    BY <1>1 DEF QueueCommand, SyncTypeOK, Command
  <2>2. backendQueue' \in Seq(Command)
    BY <1>1, <2>1, PushedType DEF QueueCommand, SyncTypeOK
  <2> QED
    BY <1>1, <2>1, <2>2 DEF QueueCommand, SyncTypeOK
<1>2. CASE EditConfig
  BY <1>2 DEF EditConfig, SyncTypeOK, UIPCs, WorkerPCs, Version, NoConfig
<1>3. CASE StartBackend
  <2>1. [id |-> sent + 1, terminate |-> FALSE] \in Command /\ sent + 1 \in 0 .. MaxSent
    BY <1>3 DEF StartBackend, SyncTypeOK, Command
  <2>2. backendQueue' \in Seq(Command)
    BY <1>3, <2>1, PushedType DEF StartBackend, SyncTypeOK
  <2>3. results' \in Seq(Ids)
    BY <1>3, EmptySeq DEF StartBackend
  <2> QED
    BY <1>3, <2>1, <2>2, <2>3 DEF StartBackend, SyncTypeOK, WorkerPCs
<1>4. CASE StopBackend
  <2>1. [id |-> sent + 1, terminate |-> TRUE] \in Command /\ sent + 1 \in 0 .. MaxSent
    BY <1>4 DEF StopBackend, SyncTypeOK, Command
  <2>2. backendQueue' \in Seq(Command)
    BY <1>4, <2>1, PushedType DEF StopBackend, SyncTypeOK
  <2> QED
    BY <1>4, <2>1, <2>2 DEF StopBackend, SyncTypeOK, UIPCs
<1>5. CASE StopStoppedBackend
  BY <1>5 DEF StopStoppedBackend, AppliedConfig, SyncTypeOK, UIPCs, WorkerPCs, Version,
     NoConfig
<1>6. CASE SyncTick
  BY <1>6 DEF SyncTick, SyncTypeOK, UIPCs, WorkerPCs, Version, NoConfig
<1>7. CASE SyncLock
  BY <1>7 DEF SyncLock, SyncTypeOK, UIPCs, WorkerPCs, Version, NoConfig
<1>8. CASE SyncCopy
  <2>1. delivered' \in Seq(Ids) /\ reported' \in Seq(Ids)
    BY <1>8, EmptySeq, ConcatProperties DEF SyncCopy, SyncTypeOK
  <2> QED
    BY <1>8, <2>1 DEF SyncCopy, AppliedConfig, EmptyState, SyncTypeOK, UIPCs, Version, NoConfig
<1>9. CASE SyncStage
  <2>1. Head(backendQueue) \in Command /\ Tail(backendQueue) \in Seq(Command)
    BY <1>9, HeadTailProperties DEF SyncStage, SyncTypeOK
  <2>2. Append(stagedQueue, Head(backendQueue)) \in Seq(Command)
    BY <2>1 DEF SyncTypeOK
  <2> QED
    BY <1>9, <2>1, <2>2 DEF SyncStage, SyncTypeOK
<1>10. CASE SyncAcknowledge
  BY <1>10 DEF SyncAcknowledge, SyncTypeOK, UIPCs, WorkerPCs, Version, NoConfig
<1>11. CASE SyncNotify
  BY <1>11 DEF SyncNotify, SyncTypeOK, UIPCs, WorkerPCs, Version, NoConfig
<1>12. CASE Join
  BY <1>12 DEF Join, AppliedConfig, SyncTypeOK, UIPCs, WorkerPCs, Version, NoConfig
<1>13. CASE Reset
  BY <1>13 DEF Reset, EmptyState, SyncTypeOK, UIPCs, WorkerPCs, Version, NoConfig
<1>14. CASE Lock
  BY <1>14 DEF Lock, SyncTypeOK, UIPCs, WorkerPCs, Version, NoConfig
<1>15. CASE Post
  <2>1. reported' \in Seq(Ids)
    BY <1>15, ConcatProperties DEF Post, SyncTypeOK
  <2>2. backendState' \in [posted : BOOLEAN, config : Version \cup {NoConfig}]
    BY <1>15 DEF Post, SyncTypeOK
  <2>3. frameSeqNo' \in 0 .. SeqMod - 1
    BY <1>15, NextSeqNo DEF Post, SyncTypeOK
  <2> QED
    BY <1>15, <2>1, <2>2, <2>3 DEF Post, SyncTypeOK, WorkerPCs
<1>16. CASE Wait
  BY <1>16 DEF Wait, SyncTypeOK, UIPCs, WorkerPCs, Version, NoConfig
<1>17. CASE SpuriousWakeup
  BY <1>17 DEF SpuriousWakeup, SyncTypeOK, UIPCs, WorkerPCs, Version, NoConfig
<1>18. CASE Relock
  BY <1>18 DEF Relock, SyncTypeOK, UIPCs, WorkerPCs, Version, NoConfig
<1>19. CASE Run
  BY <1>19, EmptySeq DEF Run, SyncTypeOK, WorkerPCs
<1>20. ASSUME NEW changesConfig \in BOOLEAN, Dispatch(changesConfig)
       PROVE  SyncTypeOK'
  <2>1. Head(stagedQueue) \in Command /\ Tail(stagedQueue) \in Seq(Command)
    BY <1>20, HeadTailProperties DEF Dispatch, SyncTypeOK
  <2>2. Head(stagedQueue).id \in Ids /\ Head(stagedQueue).terminate \in BOOLEAN
    BY <2>1 DEF Command, Ids
  <2>3. executed' \in Seq(Ids) /\ results' \in Seq(Ids)
    BY <1>20, <2>2 DEF Dispatch, SyncTypeOK
  <2>4. edits' \in Version /\ machineConfig' \in Version /\ configUpdated' \in BOOLEAN
    BY <1>20 DEF Dispatch, SyncTypeOK, Version
  <2> QED
    BY <1>20, <2>1, <2>2, <2>3, <2>4 DEF Dispatch, SyncTypeOK
<1>21. CASE DispatchEnd
  BY <1>21 DEF DispatchEnd, SyncTypeOK, UIPCs, WorkerPCs, Version, NoConfig
<1>22. CASE Clear
  BY <1>22, EmptySeq DEF Clear, SyncTypeOK, WorkerPCs
<1>23. CASE Audio
  <2>1. /\ Len(executed) \in Nat /\ Len(results) \in Nat
        /\ \A i \in 1 .. Len(executed) : executed[i] \in Ids
    BY ElementOfSeq, LenProperties DEF SyncTypeOK
  <2>2. SubSeq(executed, 1, Len(executed) - Len(results)) \in Seq(Ids)
    BY <2>1, SubSeqProperties
  <2>3. executed' \in Seq(Ids)
    BY <1>23, <2>2 DEF Audio, SyncTypeOK
  <2> QED
    BY <1>23, <2>3 DEF Audio, SyncTypeOK, WorkerPCs
<1>24. CASE Exit
  BY <1>24 DEF Exit, SyncTypeOK, UIPCs, WorkerPCs, Version, NoConfig
<1>25. CASE UNCHANGED syncVars
  BY <1>25 DEF syncVars, SyncTypeOK, UIPCs, WorkerPCs, Version, NoConfig
<1> QED
  BY <1>1, <1>2, <1>3, <1>4, <1>5, <1>6, <1>7, <1>8, <1>9, <1>10, <1>11, <1>12, <1>13,
     <1>14, <1>15, <1>16, <1>17, <1>18, <1>19, <1>20, <1>21, <1>22, <1>23, <1>24, <1>25
     DEF SyncNext, UI, User, Sync, Worker

(* Whoever takes the mutex enters a critical section with it, and leaves both. *)
LEMMA MutexStep ==
    ASSUME SyncIInv, [SyncNext]_syncVars
    PROVE  MutexInv'
<1>1. CASE QueueCommand
  BY <1>1 DEF QueueCommand, SyncIInv, MutexInv
<1>2. CASE EditConfig
  BY <1>2 DEF EditConfig, SyncIInv, MutexInv
<1>3. CASE StartBackend
  BY <1>3 DEF StartBackend, SyncIInv, MutexInv
<1>4. CASE StopBackend
  BY <1>4 DEF StopBackend, SyncIInv, MutexInv
<1>5. CASE StopStoppedBackend
  BY <1>5 DEF StopStoppedBackend, AppliedConfig, SyncIInv, MutexInv
<1>6. CASE SyncTick
  BY <1>6 DEF SyncTick, SyncIInv, MutexInv
<1>7. CASE SyncLock
  BY <1>7 DEF SyncLock, SyncIInv, MutexInv
<1>8. CASE SyncCopy
  BY <1>8 DEF SyncCopy, AppliedConfig, EmptyState, SyncIInv, MutexInv
<1>9. CASE SyncStage
  BY <1>9 DEF SyncStage, SyncIInv, MutexInv
<1>10. CASE SyncAcknowledge
  BY <1>10 DEF SyncAcknowledge, SyncIInv, MutexInv
<1>11. CASE SyncNotify
  BY <1>11 DEF SyncNotify, SyncIInv, MutexInv
<1>12. CASE Join
  BY <1>12 DEF Join, AppliedConfig, SyncIInv, MutexInv
<1>13. CASE Reset
  BY <1>13 DEF Reset, EmptyState, SyncIInv, MutexInv
<1>14. CASE Lock
  BY <1>14 DEF Lock, SyncIInv, MutexInv
<1>15. CASE Post
  BY <1>15 DEF Post, SyncIInv, MutexInv
<1>16. CASE Wait
  BY <1>16 DEF Wait, SyncIInv, MutexInv
<1>17. CASE SpuriousWakeup
  BY <1>17 DEF SpuriousWakeup, SyncIInv, MutexInv
<1>18. CASE Relock
  BY <1>18 DEF Relock, SyncIInv, MutexInv
<1>19. CASE Run
  BY <1>19 DEF Run, SyncIInv, MutexInv
<1>20. ASSUME NEW changesConfig \in BOOLEAN, Dispatch(changesConfig)
       PROVE  MutexInv'
  BY <1>20 DEF Dispatch, SyncIInv, MutexInv
<1>21. CASE DispatchEnd
  BY <1>21 DEF DispatchEnd, SyncIInv, MutexInv
<1>22. CASE Clear
  BY <1>22 DEF Clear, SyncIInv, MutexInv
<1>23. CASE Audio
  BY <1>23 DEF Audio, SyncIInv, MutexInv
<1>24. CASE Exit
  BY <1>24 DEF Exit, SyncIInv, MutexInv
<1>25. CASE UNCHANGED syncVars
  BY <1>25 DEF syncVars, SyncIInv, MutexInv
<1> QED
  BY <1>1, <1>2, <1>3, <1>4, <1>5, <1>6, <1>7, <1>8, <1>9, <1>10, <1>11, <1>12, <1>13,
     <1>14, <1>15, <1>16, <1>17, <1>18, <1>19, <1>20, <1>21, <1>22, <1>23, <1>24, <1>25
     DEF SyncNext, UI, User, Sync, Worker

(* Only Post moves the worker ahead and only SyncAcknowledge catches up. *)
LEMMA FrameStep ==
    ASSUME SyncIInv, [SyncNext]_syncVars
    PROVE  FrameInv'
<1>1. CASE QueueCommand
  BY <1>1 DEF QueueCommand, SyncIInv, SyncTypeOK, MutexInv, FrameInv, EmptyState
<1>2. CASE EditConfig
  BY <1>2 DEF EditConfig, SyncIInv, SyncTypeOK, MutexInv, FrameInv, EmptyState
<1>3. CASE StartBackend
  BY <1>3 DEF StartBackend, SyncIInv, SyncTypeOK, MutexInv, FrameInv, EmptyState
<1>4. CASE StopBackend
  BY <1>4 DEF StopBackend, SyncIInv, SyncTypeOK, MutexInv, FrameInv, EmptyState
<1>5. CASE StopStoppedBackend
  BY <1>5 DEF StopStoppedBackend, AppliedConfig, SyncIInv, SyncTypeOK, MutexInv, FrameInv,
     EmptyState
<1>6. CASE SyncTick
  BY <1>6 DEF SyncTick, SyncIInv, SyncTypeOK, MutexInv, FrameInv, EmptyState
<1>7. CASE SyncLock
  BY <1>7 DEF SyncLock, SyncIInv, SyncTypeOK, MutexInv, FrameInv, EmptyState
<1>8. CASE SyncCopy
  BY <1>8 DEF SyncCopy, AppliedConfig, EmptyState, SyncIInv, SyncTypeOK, MutexInv, FrameInv,
     EmptyState
<1>9. CASE SyncStage
  BY <1>9 DEF SyncStage, SyncIInv, SyncTypeOK, MutexInv, FrameInv, EmptyState
<1>10. CASE SyncAcknowledge
  BY <1>10 DEF SyncAcknowledge, SyncIInv, SyncTypeOK, MutexInv, FrameInv, EmptyState
<1>11. CASE SyncNotify
  BY <1>11 DEF SyncNotify, SyncIInv, SyncTypeOK, MutexInv, FrameInv, EmptyState
<1>12. CASE Join
  BY <1>12 DEF Join, AppliedConfig, SyncIInv, SyncTypeOK, MutexInv, FrameInv, EmptyState
<1>13. CASE Reset
  BY <1>13 DEF Reset, EmptyState, SyncIInv, SyncTypeOK, MutexInv, FrameInv, EmptyState
<1>14. CASE Lock
  BY <1>14 DEF Lock, SyncIInv, SyncTypeOK, MutexInv, FrameInv, EmptyState
<1>15. CASE Post
  BY <1>15 DEF Post, SyncIInv, SyncTypeOK, MutexInv, FrameInv, EmptyState
<1>16. CASE Wait
  BY <1>16 DEF Wait, SyncIInv, SyncTypeOK, MutexInv, FrameInv, EmptyState
<1>17. CASE SpuriousWakeup
  BY <1>17 DEF SpuriousWakeup, SyncIInv, SyncTypeOK, MutexInv, FrameInv, EmptyState
<1>18. CASE Relock
  BY <1>18 DEF Relock, SyncIInv, SyncTypeOK, MutexInv, FrameInv, EmptyState
<1>19. CASE Run
  BY <1>19 DEF Run, SyncIInv, SyncTypeOK, MutexInv, FrameInv, EmptyState
<1>20. ASSUME NEW changesConfig \in BOOLEAN, Dispatch(changesConfig)
       PROVE  FrameInv'
  BY <1>20 DEF Dispatch, SyncIInv, SyncTypeOK, MutexInv, FrameInv, EmptyState
<1>21. CASE DispatchEnd
  BY <1>21 DEF DispatchEnd, SyncIInv, SyncTypeOK, MutexInv, FrameInv, EmptyState
<1>22. CASE Clear
  BY <1>22 DEF Clear, SyncIInv, SyncTypeOK, MutexInv, FrameInv, EmptyState
<1>23. CASE Audio
  BY <1>23 DEF Audio, SyncIInv, SyncTypeOK, MutexInv, FrameInv, EmptyState
<1>24. CASE Exit
  BY <1>24 DEF Exit, SyncIInv, SyncTypeOK, MutexInv, FrameInv, EmptyState
<1>25. CASE UNCHANGED syncVars
  BY <1>25 DEF syncVars, SyncIInv, SyncTypeOK, MutexInv, FrameInv, EmptyState
<1> QED
  BY <1>1, <1>2, <1>3, <1>4, <1>5, <1>6, <1>7, <1>8, <1>9, <1>10, <1>11, <1>12, <1>13,
     <1>14, <1>15, <1>16, <1>17, <1>18, <1>19, <1>20, <1>21, <1>22, <1>23, <1>24, <1>25
     DEF SyncNext, UI, User, Sync, Worker

(* SyncCopy consumes the frame before SyncAcknowledge can acknowledge it. *)
LEMMA CopiedStep ==
    ASSUME SyncIInv, [SyncNext]_syncVars
    PROVE  CopiedInv'
<1>1. CASE QueueCommand
  BY <1>1 DEF QueueCommand, SyncIInv, SyncTypeOK, MutexInv, FrameInv, CopiedInv
<1>2. CASE EditConfig
  BY <1>2 DEF EditConfig, SyncIInv, SyncTypeOK, MutexInv, FrameInv, CopiedInv
<1>3. CASE StartBackend
  BY <1>3 DEF StartBackend, SyncIInv, SyncTypeOK, MutexInv, FrameInv, CopiedInv
<1>4. CASE StopBackend
  BY <1>4 DEF StopBackend, SyncIInv, SyncTypeOK, MutexInv, FrameInv, CopiedInv
<1>5. CASE StopStoppedBackend
  BY <1>5 DEF StopStoppedBackend, AppliedConfig, SyncIInv, SyncTypeOK, MutexInv, FrameInv,
     CopiedInv
<1>6. CASE SyncTick
  BY <1>6 DEF SyncTick, SyncIInv, SyncTypeOK, MutexInv, FrameInv, CopiedInv
<1>7. CASE SyncLock
  BY <1>7 DEF SyncLock, SyncIInv, SyncTypeOK, MutexInv, FrameInv, CopiedInv
<1>8. CASE SyncCopy
  BY <1>8 DEF SyncCopy, AppliedConfig, EmptyState, SyncIInv, SyncTypeOK, MutexInv, FrameInv,
     CopiedInv
<1>9. CASE SyncStage
  BY <1>9 DEF SyncStage, SyncIInv, SyncTypeOK, MutexInv, FrameInv, CopiedInv
<1>10. CASE SyncAcknowledge
  BY <1>10 DEF SyncAcknowledge, SyncIInv, SyncTypeOK, MutexInv, FrameInv, CopiedInv
<1>11. CASE SyncNotify
  BY <1>11 DEF SyncNotify, SyncIInv, SyncTypeOK, MutexInv, FrameInv, CopiedInv
<1>12. CASE Join
  BY <1>12 DEF Join, AppliedConfig, SyncIInv, SyncTypeOK, MutexInv, FrameInv, CopiedInv
<1>13. CASE Reset
  BY <1>13 DEF Reset, EmptyState, SyncIInv, SyncTypeOK, MutexInv, FrameInv, CopiedInv
<1>14. CASE Lock
  BY <1>14 DEF Lock, SyncIInv, SyncTypeOK, MutexInv, FrameInv, CopiedInv
<1>15. CASE Post
  <2>1. frameSeqNo = frameLastSeqNo /\ uiPC \notin {"copy", "stage"}
    BY <1>15 DEF Post, SyncIInv, SyncTypeOK, MutexInv, FrameInv
  <2>2. frameSeqNo' # frameLastSeqNo'
    BY <1>15, <2>1, NextSeqNo DEF Post, SyncIInv, SyncTypeOK
  <2> QED
    BY <1>15, <2>1, <2>2 DEF Post, CopiedInv
<1>16. CASE Wait
  BY <1>16 DEF Wait, SyncIInv, SyncTypeOK, MutexInv, FrameInv, CopiedInv
<1>17. CASE SpuriousWakeup
  BY <1>17 DEF SpuriousWakeup, SyncIInv, SyncTypeOK, MutexInv, FrameInv, CopiedInv
<1>18. CASE Relock
  BY <1>18 DEF Relock, SyncIInv, SyncTypeOK, MutexInv, FrameInv, CopiedInv
<1>19. CASE Run
  BY <1>19 DEF Run, SyncIInv, SyncTypeOK, MutexInv, FrameInv, CopiedInv
<1>20. ASSUME NEW changesConfig \in BOOLEAN, Dispatch(changesConfig)
       PROVE  CopiedInv'
  BY <1>20 DEF Dispatch, SyncIInv, SyncTypeOK, MutexInv, FrameInv, CopiedInv
<1>21. CASE DispatchEnd
  BY <1>21 DEF DispatchEnd, SyncIInv, SyncTypeOK, MutexInv, FrameInv, CopiedInv
<1>22. CASE Clear
  BY <1>22 DEF Clear, SyncIInv, SyncTypeOK, MutexInv, FrameInv, CopiedInv
<1>23. CASE Audio
  BY <1>23 DEF Audio, SyncIInv, SyncTypeOK, MutexInv, FrameInv, CopiedInv
<1>24. CASE Exit
  BY <1>24 DEF Exit, SyncIInv, SyncTypeOK, MutexInv, FrameInv, CopiedInv
<1>25. CASE UNCHANGED syncVars
  BY <1>25 DEF syncVars, SyncIInv, SyncTypeOK, MutexInv, FrameInv, CopiedInv
<1> QED
  BY <1>1, <1>2, <1>3, <1>4, <1>5, <1>6, <1>7, <1>8, <1>9, <1>10, <1>11, <1>12, <1>13,
     <1>14, <1>15, <1>16, <1>17, <1>18, <1>19, <1>20, <1>21, <1>22, <1>23, <1>24, <1>25
     DEF SyncNext, UI, User, Sync, Worker

(* The results of a batch that ends the thread are the last ones dispatched. *)
LEMMA DropLast ==
    ASSUME NEW S, NEW s \in Seq(S), NEW t \in Seq(S)
    PROVE  SubSeq(s \o t, 1, Len(s \o t) - Len(t)) = s
<1>1. /\ s \o t \in Seq(S) /\ Len(s) \in Nat /\ Len(t) \in Nat
      /\ Len(s \o t) = Len(s) + Len(t)
      /\ \A i \in 1 .. Len(s) : (s \o t)[i] = s[i]
  BY ConcatProperties, LenProperties
<1>2. Len(s \o t) - Len(t) = Len(s)
  BY <1>1
<1>3. \A i \in 1 .. Len(s) : (s \o t)[i] \in S
  BY <1>1, ElementOfSeq
<1>4. /\ SubSeq(s \o t, 1, Len(s)) \in Seq(S)
      /\ Len(SubSeq(s \o t, 1, Len(s))) = Len(s)
      /\ \A i \in 1 .. Len(s) : SubSeq(s \o t, 1, Len(s))[i] = (s \o t)[i]
  BY <1>1, <1>3, SubSeqProperties
<1>5. SubSeq(s \o t, 1, Len(s)) = s
  BY <1>1, <1>4, SeqEqual
<1> QED
  BY <1>2, <1>5

(* Appending to the last of two sequences is appending to both.             *)
LEMMA ConcatAppend ==
    \A s, t \in Seq(Ids), e \in Ids : Append(s \o t, e) = s \o Append(t, e)
<1> TAKE s, t \in Seq(Ids), e \in Ids
<1>1. <<e>> \in Seq(Ids) /\ s \o t \in Seq(Ids)
  BY ConcatProperties
<1>2. Append(s \o t, e) = (s \o t) \o <<e>> /\ Append(t, e) = t \o <<e>>
  BY <1>1, AppendIsConcat
<1> QED
  BY <1>1, <1>2, ConcatAssociative

(* Every result goes from results to reported to delivered, behind those   *)
(* before it.                                                              *)
LEMMA ResultsStep ==
    ASSUME SyncIInv, [SyncNext]_syncVars
    PROVE  ResultsInv'
<1>0. /\ delivered \in Seq(Ids) /\ reported \in Seq(Ids) /\ results \in Seq(Ids)
      /\ delivered \o reported \in Seq(Ids) /\ <<>> \in Seq(Ids)
      /\ executed = delivered \o reported \o Unposted
  BY ConcatProperties, EmptySeq DEF SyncIInv, SyncTypeOK, ResultsInv, ResultsAccounted
<1>1. CASE UNCHANGED <<executed, delivered, reported, results, workerPC>>
  BY <1>1 DEF SyncIInv, ResultsInv, ResultsAccounted, Unposted
<1>2. CASE StartBackend
  BY <1>0, <1>2 DEF StartBackend, ResultsInv, ResultsAccounted, Unposted
<1>3. CASE SyncCopy
  <2>1. Unposted = <<>> /\ Unposted' = <<>>
    BY <1>3 DEF SyncCopy, SyncIInv, FrameInv, SyncTypeOK, Unposted
  <2>2. (delivered \o reported) \o <<>> = ((delivered \o reported) \o <<>>) \o <<>>
    BY <1>0, ConcatEmptySeq
  <2> QED
    BY <1>0, <1>3, <2>1, <2>2 DEF SyncCopy, SyncIInv, ResultsInv, ResultsAccounted
<1>4. CASE SyncNotify \/ Join
  BY <1>4 DEF SyncNotify, Join, SyncIInv, ResultsInv, ResultsAccounted, Unposted
<1>5. CASE Reset
  BY <1>5 DEF Reset, SyncIInv, ResultsInv, ResultsAccounted, Unposted
<1>6. CASE Lock
  BY <1>6 DEF Lock, SyncIInv, ResultsInv, ResultsAccounted, Unposted
<1>7. CASE Post
  <2>1. Unposted = results /\ Unposted' = <<>>
    BY <1>7 DEF Post, Unposted
  <2>2. (delivered \o reported) \o results = delivered \o (reported \o results)
    BY <1>0, ConcatAssociative
  <2>3. delivered \o (reported \o results) = (delivered \o (reported \o results)) \o <<>>
    BY <1>0, ConcatProperties, ConcatEmptySeq
  <2> QED
    BY <1>0, <1>7, <2>1, <2>2, <2>3 DEF Post, ResultsInv, ResultsAccounted
<1>8. CASE Wait \/ SpuriousWakeup \/ Relock
  BY <1>8 DEF Wait, SpuriousWakeup, Relock, SyncIInv, ResultsInv, ResultsAccounted, Unposted
<1>9. CASE Run
  BY <1>9 DEF Run, SyncIInv, ResultsInv, ResultsAccounted, Unposted
<1>10. ASSUME NEW changesConfig \in BOOLEAN, Dispatch(changesConfig)
       PROVE  ResultsInv'
  <2>1. Unposted = results /\ Unposted' = results'
    BY <1>10 DEF Dispatch, Unposted
  <2>2. Head(stagedQueue) \in Command
    BY <1>10, HeadTailProperties DEF Dispatch, SyncIInv, SyncTypeOK
  <2>3. Head(stagedQueue).id \in Ids
    BY <2>2 DEF Command, Ids
  <2> DEFINE before == delivered \o reported
             id == Head(stagedQueue).id
  <2>4. Append(before \o results, id) = before \o Append(results, id)
    <3>1. before \in Seq(Ids) /\ results \in Seq(Ids) /\ id \in Ids
      BY <1>0, <2>3
    <3> HIDE DEF before, id
    <3> QED
      BY <3>1, ConcatAppend
  <2>5. executed' = (delivered \o reported) \o results'
    BY <1>0, <1>10, <2>1, <2>4 DEF Dispatch
  <2> QED
    BY <1>10, <2>1, <2>5 DEF Dispatch, ResultsInv, ResultsAccounted
<1>11. CASE DispatchEnd \/ Clear
  BY <1>11 DEF DispatchEnd, Clear, SyncIInv, ResultsInv, ResultsAccounted, Unposted
<1>12. CASE Audio
  <2>1. Unposted = results
    BY <1>12 DEF Audio, Unposted
  <2>2. CASE terminated
    <3>1. executed' = delivered \o reported /\ Unposted' = <<>>
      BY <1>0, <1>12, <2>1, <2>2, DropLast DEF Audio, Unposted
    <3> QED
      BY <1>0, <1>12, <2>2, <3>1, ConcatEmptySeq DEF Audio, ResultsInv, ResultsAccounted
  <2>3. CASE ~terminated
    BY <1>12, <2>3 DEF Audio, SyncIInv, ResultsInv, ResultsAccounted, Unposted
  <2> QED
    BY <2>2, <2>3
<1>13. CASE Exit
  BY <1>13 DEF Exit, SyncIInv, ResultsInv, ResultsAccounted, Unposted
<1> QED
  BY <1>1, <1>2, <1>3, <1>4, <1>5, <1>6, <1>7, <1>8, <1>9, <1>10, <1>11, <1>12, <1>13
     DEF SyncNext, UI, User, Sync, Worker, QueueCommand, EditConfig, StopBackend,
         StopStoppedBackend, SyncTick, SyncLock, SyncStage, SyncAcknowledge, syncVars

(* Only the machine gets ahead; a copy finds what is posted, and a join     *)
(* what the machine had.                                                    *)
LEMMA ConfigStep ==
    ASSUME SyncIInv, [SyncNext]_syncVars
    PROVE  ConfigInv'
<1>0. /\ config \in Nat /\ machineConfig \in Nat /\ edits \in Nat /\ gsConfig \in Nat
      /\ backendState.config \in Nat /\ configUpdated \in BOOLEAN
      /\ config # NoConfig /\ machineConfig # NoConfig /\ NoConfig \in Nat /\ NoConfig <= edits
  BY DEF SyncIInv, SyncTypeOK, Version, NoConfig
<1>1. CASE UNCHANGED <<config, edits, machineConfig, configUpdated, gsConfig, backendState, workerPC>>
  BY <1>1 DEF SyncIInv, ConfigInv
<1>2. CASE EditConfig
  BY <1>0, <1>2 DEF EditConfig, SyncIInv, ConfigInv
<1>3. CASE StartBackend
  BY <1>0, <1>3 DEF StartBackend, SyncIInv, ConfigInv
<1>4. CASE StopStoppedBackend
  BY <1>0, <1>4 DEF StopStoppedBackend, AppliedConfig, SyncIInv, ConfigInv
<1>5. CASE SyncCopy
  BY <1>0, <1>5 DEF SyncCopy, AppliedConfig, EmptyState, SyncIInv, FrameInv, SyncTypeOK, ConfigInv
<1>6. CASE SyncNotify
  BY <1>0, <1>6 DEF SyncNotify, SyncIInv, ConfigInv
<1>7. CASE Join
  BY <1>0, <1>7 DEF Join, AppliedConfig, SyncIInv, ConfigInv
<1>8. CASE Reset
  BY <1>0, <1>8 DEF Reset, EmptyState, SyncIInv, ConfigInv
<1>9. CASE Lock
  BY <1>0, <1>9 DEF Lock, SyncIInv, ConfigInv
<1>10. CASE Post
  BY <1>0, <1>10 DEF Post, SyncIInv, ConfigInv
<1>11. CASE Wait \/ SpuriousWakeup \/ Relock \/ Run
  BY <1>0, <1>11 DEF Wait, SpuriousWakeup, Relock, Run, SyncIInv, ConfigInv
<1>12. ASSUME NEW changesConfig \in BOOLEAN, Dispatch(changesConfig)
       PROVE  ConfigInv'
  BY <1>0, <1>12 DEF Dispatch, SyncIInv, ConfigInv
<1>13. CASE DispatchEnd \/ Clear \/ Audio
  BY <1>0, <1>13 DEF DispatchEnd, Clear, Audio, SyncIInv, ConfigInv
<1>14. CASE Exit
  BY <1>0, <1>14 DEF Exit, SyncIInv, ConfigInv
<1> QED
  BY <1>1, <1>2, <1>3, <1>4, <1>5, <1>6, <1>7, <1>8, <1>9, <1>10, <1>11, <1>12, <1>13, <1>14
     DEF SyncNext, UI, User, Sync, Worker, QueueCommand, StopBackend, SyncTick, SyncLock,
         SyncStage, SyncAcknowledge, syncVars

--------------------------------------------------------------------------------
(***************************************************************************)
(* The inductive invariant of the handshake holds in every reachable state,*)
(* for every queue size and every modulus of the frame counters.           *)
(***************************************************************************)
THEOREM SyncInvariant == SyncSpec => []SyncIInv
<1>1. SyncIInv /\ [SyncNext]_syncVars => SyncIInv'
  BY TypeStep, MutexStep, FrameStep, CopiedStep, ResultsStep, ConfigStep DEF SyncIInv
<1> QED
  BY <1>1, InitInv, PTL DEF SyncSpec

(* Every variable of the handshake keeps its type, the wrapping frame counters *)
(* in particular.                                                              *)
THEOREM SyncTypeCorrect == SyncSpec => []SyncTypeOK
BY SyncInvariant, PTL DEF SyncIInv

(* While the UI copies, it holds the mutex, the worker is blocked in its wait *)
(* and the frame is there.                                                    *)
THEOREM FramesAreStable == SyncSpec => []FrameStable
<1>1. SyncIInv => FrameStable
  BY DEF SyncIInv, SyncTypeOK, MutexInv, FrameInv, FrameStable
<1> QED
  BY <1>1, SyncInvariant, PTL

(* The worker is at most one frame ahead of the UI for every counter width. *)
THEOREM NeverTwoAhead == SyncSpec => []AtMostOneAhead
<1>1. SyncIInv => AtMostOneAhead
  BY DEF SyncIInv, FrameInv, AtMostOneAhead
<1> QED
  BY <1>1, SyncInvariant, PTL

(* No posted frame is replaced before the UI copied it, except while powering *)
(* off.                                                                       *)
THEOREM FramesAreNotSkipped == SyncSpec => NoFrameSkipped
<1>1. ASSUME SyncIInv, [SyncNext]_syncVars, frameSeqNo' # frameSeqNo
      PROVE  ~backendState.posted \/ (~copyState /\ uiPC \in {"notify", "join"})
  <2>1. Post
    BY <1>1 DEF SyncNext, UI, User, Sync, Worker, QueueCommand, EditConfig, StartBackend,
       StopBackend, StopStoppedBackend, SyncTick, SyncLock, SyncCopy, SyncStage,
       SyncAcknowledge, SyncNotify, Join, Reset, Lock, Wait, SpuriousWakeup, Relock, Run,
       Dispatch, DispatchEnd, Clear, Audio, Exit, syncVars
  <2>2. frameSeqNo = frameLastSeqNo /\ uiPC # "stage"
    BY <1>1, <2>1 DEF Post, SyncIInv, SyncTypeOK, MutexInv, FrameInv
  <2> QED
    BY <1>1, <2>1, <2>2 DEF Post, SyncIInv, CopiedInv
<1>2. ASSUME SyncIInv, [SyncNext]_syncVars
      PROVE  [frameSeqNo' # frameSeqNo =>
                ~backendState.posted \/ (~copyState /\ uiPC \in {"notify", "join"})]_syncVars
  BY <1>1, <1>2
<1> QED
  BY <1>2, SyncInvariant, PTL DEF SyncSpec, NoFrameSkipped

(* Of every command of a batch that does not end the thread, the result is *)
(* delivered once, in order, or still on its way.                          *)
THEOREM ResultsAreAccounted == SyncSpec => []ResultsAccounted
<1>1. SyncIInv => ResultsAccounted
  BY DEF SyncIInv, ResultsInv
<1> QED
  BY <1>1, SyncInvariant, PTL

(* However sessions, edits and copies follow one another, the handshake    *)
(* never replaces a configuration by an older one.                         *)
THEOREM ConfigurationsGrow == SyncSpec => ConfigMonotone
<1>1. ASSUME SyncIInv, [SyncNext]_syncVars
      PROVE  [config' >= config \/ StopStoppedBackend]_syncVars
  <2>0. /\ config \in Nat /\ machineConfig \in Nat /\ edits \in Nat /\ gsConfig \in Nat
        /\ backendState.config \in Nat /\ configUpdated \in BOOLEAN
    BY <1>1 DEF SyncIInv, SyncTypeOK, Version, NoConfig
  <2>1. CASE config' = config
    BY <2>0, <2>1
  <2>2. CASE EditConfig
    BY <1>1, <2>0, <2>2 DEF EditConfig, SyncIInv, ConfigInv
  <2>3. CASE SyncCopy
    BY <1>1, <2>0, <2>3 DEF SyncCopy, AppliedConfig, SyncIInv, FrameInv, SyncTypeOK, ConfigInv
  <2>4. CASE Join
    BY <1>1, <2>0, <2>4 DEF Join, AppliedConfig, SyncIInv, ConfigInv
  <2> QED
    BY <1>1, <2>1, <2>2, <2>3, <2>4
       DEF SyncNext, UI, User, Sync, Worker, QueueCommand, StartBackend, StopBackend, SyncTick,
           SyncLock, SyncStage, SyncAcknowledge, SyncNotify, Reset, Lock, Post, Wait,
           SpuriousWakeup, Relock, Run, Dispatch, DispatchEnd, Clear, Audio, Exit, syncVars
<1> QED
  BY <1>1, SyncInvariant, PTL DEF SyncSpec, ConfigMonotone

--------------------------------------------------------------------------------
(* The path of a command.  The staged ring is a ring of CircularBuffer and *)
(* what is proved of those holds of it, as long as nothing clears it while *)
(* the other side is in a call.                                            *)
Staging == INSTANCE CircularBufferProofs
               WITH Size <- QueueSize, Items <- Commands!Command,
                    NoItem <- Commands!NoCommand, MovedFrom <- Commands!OperandMoved,
                    tail <- staged_tail, head <- staged_head, array <- staged_array,
                    prod <- producer, cons <- consumer, pushed <- staged, popped <- taken

LEMMA QueueSizes == QueueSize \in Nat \ {0} /\ MaxSent \in Nat
BY CommandsAssumption DEF Commands!QueueAssumption

(* What a ring of commands must satisfy.                                   *)
LEMMA CommandsFit ==
    /\ \A v \in Commands!Command :
           Commands!OperandMoved(v) \in Commands!Command \cup {Commands!NoCommand}
    /\ Commands!NoCommand \notin Commands!Command
    /\ QueueSize \in Nat \ {0}
<1>1. Commands!NoCommand.id = 0
  BY DEF Commands!NoCommand
<1>2. \A v \in Commands!Command : v.id # 0
  BY QueueSizes DEF Commands!Command
<1>3. \A v \in Commands!Command : Commands!OperandMoved(v) \in Commands!Command
  BY DEF Commands!Command, Commands!OperandMoved
<1> QED
  BY <1>1, <1>2, <1>3, QueueSizes

LEMMA NothingMoved == Commands!OperandMoved(Commands!NoCommand) = Commands!NoCommand
<1> DEFINE none == Commands!NoCommand
<1>1. none.text = FALSE
  BY Zenon DEF Commands!NoCommand
<1>2. \A c : c.text = FALSE => [c EXCEPT !.text = FALSE] = [c EXCEPT !.text = c.text]
  OBVIOUS
<1>3. none = [id |-> none.id, kind |-> none.kind, text |-> none.text]
  BY DEF Commands!NoCommand
<1> QED
  BY <1>1, <1>2, <1>3 DEF Commands!OperandMoved

(* The ring of CommandQueue is that ring.                                  *)
LEMMA RingOfCommands ==
    /\ Commands!Ring!TypeOK <=> Staging!TypeOK
    /\ Commands!Ring!Init <=> Staging!Init
    /\ Commands!Ring!Slots = Staging!Slots
    /\ Commands!Ring!Contents = Staging!Contents
<1>1. Commands!Ring!Slots = Staging!Slots
  BY DEF Commands!Ring!Slots, Staging!Slots, Commands!Ring!kCapacity, Staging!kCapacity
<1>2. Commands!Ring!TypeOK <=> Staging!TypeOK
  BY <1>1 DEF Commands!Ring!TypeOK, Staging!TypeOK, Commands!Ring!ProdPCs, Staging!ProdPCs,
              Commands!Ring!ConsPCs, Staging!ConsPCs
<1>3. Commands!Ring!Init <=> Staging!Init
  BY <1>1 DEF Commands!Ring!Init, Staging!Init
<1>4. Commands!Ring!size = Staging!size
  BY DEF Commands!Ring!size, Staging!size, Commands!Ring!kCapacity, Staging!kCapacity
<1>5. Commands!Ring!Contents = Staging!Contents
  BY <1>4 DEF Commands!Ring!Contents, Staging!Contents, Commands!Ring!at, Staging!at,
              Commands!Ring!kCapacity, Staging!kCapacity
<1> QED
  BY <1>1, <1>2, <1>3, <1>5

LEMMA CallsOfUI ==
    /\ Commands!Ring!IsFullLoadTail <=> Staging!IsFullLoadTail
    /\ Commands!Ring!IsFullLoadHead <=> Staging!IsFullLoadHead
    /\ \A v : Commands!Ring!PushLoadTail(v) <=> Staging!PushLoadTail(v)
    /\ Commands!Ring!PushFails <=> Staging!PushFails
    /\ Commands!Ring!PushLoadHead <=> Staging!PushLoadHead
    /\ Commands!Ring!PushWrite <=> Staging!PushWrite
    /\ Commands!Ring!PushStoreTail <=> Staging!PushStoreTail
<1> USE DEF Commands!Ring!ConsSide, Staging!ConsSide, Commands!Ring!increment, Staging!increment,
            Commands!Ring!kCapacity, Staging!kCapacity
<1>1. Commands!Ring!IsFullLoadTail <=> Staging!IsFullLoadTail
  BY DEF Commands!Ring!IsFullLoadTail, Staging!IsFullLoadTail
<1>2. Commands!Ring!IsFullLoadHead <=> Staging!IsFullLoadHead
  BY DEF Commands!Ring!IsFullLoadHead, Staging!IsFullLoadHead
<1>3. \A v : Commands!Ring!PushLoadTail(v) <=> Staging!PushLoadTail(v)
  BY DEF Commands!Ring!PushLoadTail, Staging!PushLoadTail
<1>4. Commands!Ring!PushFails <=> Staging!PushFails
  BY DEF Commands!Ring!PushFails, Staging!PushFails
<1>5. Commands!Ring!PushLoadHead <=> Staging!PushLoadHead
  BY DEF Commands!Ring!PushLoadHead, Staging!PushLoadHead
<1>6. Commands!Ring!PushWrite <=> Staging!PushWrite
  BY DEF Commands!Ring!PushWrite, Staging!PushWrite
<1>7. Commands!Ring!PushStoreTail <=> Staging!PushStoreTail
  BY DEF Commands!Ring!PushStoreTail, Staging!PushStoreTail
<1> QED
  BY <1>1, <1>2, <1>3, <1>4, <1>5, <1>6, <1>7

LEMMA CallsOfWorker ==
    /\ Commands!Ring!IsEmptyLoadHead <=> Staging!IsEmptyLoadHead
    /\ Commands!Ring!IsEmptyLoadTail <=> Staging!IsEmptyLoadTail
    /\ Commands!Ring!PopLoadHead <=> Staging!PopLoadHead
    /\ Commands!Ring!PopLoadTail <=> Staging!PopLoadTail
    /\ Commands!Ring!PopFails <=> Staging!PopFails
    /\ Commands!Ring!PopMove <=> Staging!PopMove
    /\ Commands!Ring!PopStoreHead <=> Staging!PopStoreHead
    /\ Commands!Ring!ClearStoreTail <=> Staging!ClearStoreTail
    /\ Commands!Ring!ClearStoreHead <=> Staging!ClearStoreHead
<1> USE DEF Commands!Ring!ProdSide, Staging!ProdSide, Commands!Ring!increment, Staging!increment,
            Commands!Ring!kCapacity, Staging!kCapacity
<1>1. Commands!Ring!IsEmptyLoadHead <=> Staging!IsEmptyLoadHead
  BY DEF Commands!Ring!IsEmptyLoadHead, Staging!IsEmptyLoadHead
<1>2. Commands!Ring!IsEmptyLoadTail <=> Staging!IsEmptyLoadTail
  BY DEF Commands!Ring!IsEmptyLoadTail, Staging!IsEmptyLoadTail
<1>3. Commands!Ring!PopLoadHead <=> Staging!PopLoadHead
  BY DEF Commands!Ring!PopLoadHead, Staging!PopLoadHead
<1>4. Commands!Ring!PopLoadTail <=> Staging!PopLoadTail
  BY DEF Commands!Ring!PopLoadTail, Staging!PopLoadTail
<1>5. Commands!Ring!PopFails <=> Staging!PopFails
  BY DEF Commands!Ring!PopFails, Staging!PopFails
<1>6. Commands!Ring!PopMove <=> Staging!PopMove
  BY DEF Commands!Ring!PopMove, Staging!PopMove
<1>7. Commands!Ring!PopStoreHead <=> Staging!PopStoreHead
  BY DEF Commands!Ring!PopStoreHead, Staging!PopStoreHead
<1>8. Commands!Ring!ClearStoreTail <=> Staging!ClearStoreTail
  BY DEF Commands!Ring!ClearStoreTail, Staging!ClearStoreTail
<1>9. Commands!Ring!ClearStoreHead <=> Staging!ClearStoreHead
  BY DEF Commands!Ring!ClearStoreHead, Staging!ClearStoreHead
<1> QED
  BY <1>1, <1>2, <1>3, <1>4, <1>5, <1>6, <1>7, <1>8, <1>9

--------------------------------------------------------------------------------
(* Where the UI is in the ring when it is in queue(other)...               *)
TransferInv ==
    /\ transfer \in {"idle", "data"} => producer.pc = "idle"
    /\ transfer = "check" => producer.pc \in {"idle", "full_head"}
    /\ transfer = "push" => /\ producer.pc \in {"idle", "push_head", "write", "publish"}
                            /\ producer.pc = "idle" => pending # <<>>

(* ... and the worker, when it is in dispatchAll.                          *)
DispatchInv ==
    /\ dispatch \in {"parked", "execute"} => consumer.pc = "idle"
    /\ dispatch = "check" => consumer.pc \in {"idle", "empty_tail"}
    /\ dispatch = "pop" => consumer.pc \in {"idle", "pop_tail", "move", "release"}
    /\ dispatch \in {"clear", "exit"} => consumer.pc \in {"idle", "clear_head"}

(* What the data rings hold: the number of a save, its image, or NoData.   *)
Images == 0 .. MaxSent

(* Its types, but for the ring's.                                          *)
QueuesTyped ==
    /\ pending \in Seq(Commands!Command) /\ Len(pending) <= QueueSize
    /\ pendingData \in Seq(Images) /\ Len(pendingData) <= QueueSize
    /\ stagedData \in Seq(Images) /\ Len(stagedData) <= QueueSize
    /\ batch \in Nat
    /\ accepted \in Seq(Commands!Command)
    /\ log \in Seq(Commands!Entry)

PlacesTyped ==
    /\ transfer \in {"idle", "check", "push", "data"}
    /\ stopping \in {"no", "sync", "join"}
    /\ dispatch \in {"parked", "check", "pop", "execute", "clear", "exit"}
    /\ failed \in BOOLEAN
    /\ overlapped \in BOOLEAN

Commanded == Staging!TypeOK /\ QueuesTyped /\ PlacesTyped /\ TransferInv /\ DispatchInv

LEMMA DataIsImages == Commands!NoData \in Images
BY QueueSizes DEF Commands!NoData, Images

LEMMA CommandTypes == Commanded => Commands!TypeOK
BY RingOfCommands DEF Commanded, Commands!TypeOK, QueuesTyped, PlacesTyped, Images

(* Whatever the UI and the worker do to the ring, slots hold commands.     *)
LEMMA UIKeepsRingTyped ==
    ASSUME Staging!TypeOK, NEW c,
           \/ Staging!IsFullLoadTail \/ Staging!IsFullLoadHead
           \/ c \in Commands!Command /\ Staging!PushLoadTail(c)
           \/ Staging!PushFails \/ Staging!PushLoadHead
           \/ Staging!PushWrite \/ Staging!PushStoreTail
    PROVE  Staging!TypeOK'
<1> USE DEF Staging!TypeOK, Staging!ProdPCs, Staging!ConsSide
<1>1. CASE Staging!IsFullLoadTail
  BY <1>1 DEF Staging!IsFullLoadTail
<1>2. CASE Staging!IsFullLoadHead
  BY <1>2 DEF Staging!IsFullLoadHead
<1>3. CASE c \in Commands!Command /\ Staging!PushLoadTail(c)
  BY <1>3 DEF Staging!PushLoadTail
<1>4. CASE Staging!PushFails
  BY <1>4 DEF Staging!PushFails
<1>5. CASE Staging!PushLoadHead
  BY <1>5 DEF Staging!PushLoadHead
<1>6. CASE Staging!PushWrite
  BY <1>6 DEF Staging!PushWrite
<1>7. CASE Staging!PushStoreTail
  <2>1. Staging!increment(producer.tail) \in Staging!Slots
    BY Staging!Increment, CommandsFit
  <2> QED
    BY <1>7, <2>1 DEF Staging!PushStoreTail
<1> QED
  BY <1>1, <1>2, <1>3, <1>4, <1>5, <1>6, <1>7

LEMMA WorkerKeepsRingTyped ==
    ASSUME Staging!TypeOK,
           \/ Staging!IsEmptyLoadHead \/ Staging!IsEmptyLoadTail
           \/ Staging!PopLoadHead \/ Staging!PopLoadTail \/ Staging!PopFails
           \/ Staging!PopMove \/ Staging!PopStoreHead
           \/ Staging!ClearStoreTail \/ Staging!ClearStoreHead
    PROVE  Staging!TypeOK'
<1> USE DEF Staging!TypeOK, Staging!ConsPCs, Staging!ProdSide
<1>z. 0 \in Staging!Slots
  BY CommandsFit DEF Staging!Slots, Staging!kCapacity
<1>1. CASE Staging!IsEmptyLoadHead
  BY <1>1 DEF Staging!IsEmptyLoadHead
<1>2. CASE Staging!IsEmptyLoadTail
  BY <1>2 DEF Staging!IsEmptyLoadTail
<1>3. CASE Staging!PopLoadHead
  BY <1>3 DEF Staging!PopLoadHead
<1>4. CASE Staging!PopLoadTail
  BY <1>4 DEF Staging!PopLoadTail
<1>5. CASE Staging!PopFails
  BY <1>5 DEF Staging!PopFails
<1>6. CASE Staging!PopMove
  <2>2. staged_array[consumer.head] \in Commands!Command \cup {Commands!NoCommand}
    OBVIOUS
  <2>3. Commands!OperandMoved(staged_array[consumer.head])
            \in Commands!Command \cup {Commands!NoCommand}
    BY <2>2, CommandsFit, NothingMoved
  <2>4. staged_array' \in [Staging!Slots -> Commands!Command \cup {Commands!NoCommand}]
    BY <1>6, <2>3 DEF Staging!PopMove
  <2> QED
    BY <1>6, <2>2, <2>4 DEF Staging!PopMove
<1>7. CASE Staging!PopStoreHead
  <2>1. Staging!increment(consumer.head) \in Staging!Slots
    BY Staging!Increment, CommandsFit
  <2> QED
    BY <1>7, <2>1 DEF Staging!PopStoreHead
<1>8. CASE Staging!ClearStoreTail
  BY <1>8, <1>z DEF Staging!ClearStoreTail
<1>9. CASE Staging!ClearStoreHead
  BY <1>9, <1>z DEF Staging!ClearStoreHead
<1> QED
  BY <1>1, <1>2, <1>3, <1>4, <1>5, <1>6, <1>7, <1>8, <1>9

LEMMA UIKeepsCommanded ==
    ASSUME Commanded, Commands!UI, overlapped' \in BOOLEAN
    PROVE  Commanded'
<1> USE DEF Commanded
<1>1. ASSUME NEW kind \in Kinds, Commands!Queue(kind) PROVE Commanded'
  <2> DEFINE cmd == [id |-> Len(accepted) + 1, kind |-> kind, text |-> TRUE]
             data == IF kind = "save" THEN cmd.id ELSE Commands!NoData
  <2>1. cmd \in Commands!Command /\ data \in Images
    BY <1>1, QueueSizes DEF Commands!Queue, Images, Commands!Command, Commands!NoData, QueuesTyped
  <2>2. /\ Len(accepted) < MaxSent /\ transfer = "idle" /\ transfer' = transfer
        /\ pending' = Commands!Pushed(pending, cmd)
        /\ pendingData' = Commands!Pushed(pendingData, data)
        /\ accepted' = IF Len(pending) < QueueSize THEN Append(accepted, cmd) ELSE accepted
        /\ stopping' = IF kind = "terminate" THEN "sync" ELSE "no"
        /\ UNCHANGED <<Commands!ringVars, Commands!workerVars, stagedData>>
    BY <1>1 DEF Commands!Queue
  <2> HIDE DEF cmd, data
  <2>3. QueuesTyped'
    <3>1. pending' \in Seq(Commands!Command) /\ Len(pending') <= QueueSize
      BY <2>1, <2>2, QueueSizes DEF Commands!Pushed, QueuesTyped
    <3>2. pendingData' \in Seq(Images) /\ Len(pendingData') <= QueueSize
      BY <2>1, <2>2, QueueSizes DEF Commands!Pushed, QueuesTyped
    <3> QED
      BY <2>1, <2>2, <3>1, <3>2 DEF QueuesTyped, Commands!workerVars
  <2>p. PlacesTyped'
    BY <2>2 DEF PlacesTyped, Commands!workerVars
  <2>4. Staging!TypeOK'
    BY <2>2 DEF Commands!ringVars, Staging!TypeOK
  <2>5. TransferInv' /\ DispatchInv'
    BY <2>2 DEF Commands!ringVars, Commands!workerVars, TransferInv, DispatchInv
  <2> QED
    BY <2>p, <2>3, <2>4, <2>5
<1>2. CASE Commands!BeginTransfer
  <2>1. QueuesTyped'
    BY <1>2 DEF Commands!BeginTransfer, Commands!workerVars, QueuesTyped
  <2>p. PlacesTyped'
    BY <1>2 DEF Commands!BeginTransfer, Commands!workerVars, PlacesTyped
  <2>2. Staging!TypeOK' /\ TransferInv' /\ DispatchInv'
    BY <1>2 DEF Commands!BeginTransfer, Commands!ringVars, Commands!workerVars, Staging!TypeOK,
                TransferInv, DispatchInv
  <2> QED
    BY <2>p, <2>1, <2>2
<1>3. CASE Commands!IsFull
  <2>1. /\ transfer = "check"
        /\ \/ Staging!IsFullLoadTail /\ transfer' = "check"
           \/ /\ Staging!IsFullLoadHead
              /\ transfer' = IF producer'.room /\ pending # <<>> THEN "push" ELSE "data"
        /\ UNCHANGED <<Commands!workerVars, pending, pendingData, stopping, accepted, stagedData>>
    BY <1>3, CallsOfUI DEF Commands!IsFull
  <2>2. Staging!TypeOK'
    BY <2>1, UIKeepsRingTyped, CommandsFit
  <2>3. QueuesTyped'
    BY <2>1 DEF QueuesTyped, Commands!workerVars
  <2>p. PlacesTyped'
    BY <2>1 DEF PlacesTyped, Commands!workerVars
  <2>4. TransferInv' /\ DispatchInv'
    BY <2>1 DEF Staging!IsFullLoadTail, Staging!IsFullLoadHead, Staging!ConsSide,
                Commands!workerVars, TransferInv, DispatchInv, Staging!TypeOK
  <2> QED
    BY <2>p, <2>2, <2>3, <2>4
<1>4. CASE Commands!PopOther
  <2>1. /\ transfer = "push" /\ transfer' = transfer
        /\ Staging!PushLoadTail(Head(pending)) /\ pending' = Tail(pending)
        /\ UNCHANGED <<Commands!workerVars, pendingData, stopping, accepted, stagedData>>
    BY <1>4, CallsOfUI DEF Commands!PopOther
  <2>2. producer.pc = "idle" /\ pending # <<>>
    BY <2>1 DEF Staging!PushLoadTail, TransferInv
  <2>3. /\ Head(pending) \in Commands!Command /\ Tail(pending) \in Seq(Commands!Command)
        /\ Len(Tail(pending)) <= Len(pending)
    BY <2>2 DEF QueuesTyped
  <2>4. Staging!TypeOK'
    BY <2>1, <2>3, UIKeepsRingTyped
  <2>5. QueuesTyped'
    BY <2>1, <2>3, QueueSizes DEF QueuesTyped, Commands!workerVars
  <2>p. PlacesTyped'
    BY <2>1, <2>3, QueueSizes DEF PlacesTyped, Commands!workerVars
  <2>6. TransferInv' /\ DispatchInv'
    BY <2>1 DEF Staging!PushLoadTail, Staging!ConsSide,
                Commands!workerVars, TransferInv, DispatchInv, Staging!TypeOK
  <2> QED
    BY <2>p, <2>4, <2>5, <2>6
<1>5. CASE Commands!PushStaged
  <2>1. /\ transfer = "push"
        /\ \/ (Staging!PushLoadHead \/ Staging!PushWrite) /\ transfer' = "push"
           \/ (Staging!PushStoreTail \/ Staging!PushFails) /\ transfer' = "check"
        /\ UNCHANGED <<Commands!workerVars, pending, pendingData, stopping, accepted, stagedData>>
    BY <1>5, CallsOfUI DEF Commands!PushStaged
  <2>2. Staging!TypeOK'
    BY <2>1, UIKeepsRingTyped
  <2>3. QueuesTyped'
    BY <2>1 DEF QueuesTyped, Commands!workerVars
  <2>p. PlacesTyped'
    BY <2>1 DEF PlacesTyped, Commands!workerVars
  <2>4. TransferInv' /\ DispatchInv'
    BY <2>1 DEF Staging!PushLoadHead, Staging!PushWrite, Staging!PushStoreTail, Staging!PushFails,
                Staging!ConsSide, Commands!workerVars, TransferInv, DispatchInv, Staging!TypeOK
  <2> QED
    BY <2>p, <2>2, <2>3, <2>4
<1>6. CASE Commands!TransferData
  <2>1. QueuesTyped'
    <3>1. CASE Len(stagedData) < QueueSize /\ pendingData # <<>>
      <4>1. /\ stagedData' = Append(stagedData, Head(pendingData))
            /\ pendingData' = Tail(pendingData)
            /\ UNCHANGED <<Commands!workerVars, pending, accepted>>
        BY <1>6, <3>1 DEF Commands!TransferData
      <4>2. /\ Head(pendingData) \in Images /\ Tail(pendingData) \in Seq(Images)
            /\ Len(Tail(pendingData)) <= Len(pendingData)
        BY <3>1 DEF QueuesTyped
      <4>3. stagedData' \in Seq(Images) /\ Len(stagedData') <= QueueSize
        BY <3>1, <4>1, <4>2, QueueSizes DEF QueuesTyped
      <4> QED
        BY <4>1, <4>2, <4>3, QueueSizes DEF QueuesTyped, Commands!workerVars
    <3>2. CASE ~(Len(stagedData) < QueueSize /\ pendingData # <<>>)
      BY <1>6, <3>2 DEF Commands!TransferData, QueuesTyped, Commands!workerVars
    <3> QED
      BY <3>1, <3>2
  <2>p. PlacesTyped'
    BY <1>6 DEF Commands!TransferData, PlacesTyped, Commands!workerVars
  <2>2. Staging!TypeOK' /\ TransferInv' /\ DispatchInv'
    BY <1>6 DEF Commands!TransferData, Commands!ringVars, Commands!workerVars, Staging!TypeOK,
                TransferInv, DispatchInv
  <2> QED
    BY <2>p, <2>1, <2>2
<1> QED
  BY <1>1, <1>2, <1>3, <1>4, <1>5, <1>6 DEF Commands!UI

LEMMA WorkerKeepsCommanded ==
    ASSUME Commanded, Commands!Worker, overlapped' \in BOOLEAN
    PROVE  Commanded'
<1> USE DEF Commanded
<1>1. CASE Commands!BeginDispatch
  <2>1. QueuesTyped'
    BY <1>1 DEF Commands!BeginDispatch, Commands!uiVars, QueuesTyped
  <2>p. PlacesTyped'
    BY <1>1 DEF Commands!BeginDispatch, Commands!uiVars, PlacesTyped
  <2>2. Staging!TypeOK' /\ TransferInv' /\ DispatchInv'
    BY <1>1 DEF Commands!BeginDispatch, Commands!ringVars, Commands!uiVars, Staging!TypeOK,
                TransferInv, DispatchInv
  <2> QED
    BY <2>p, <2>1, <2>2
<1>2. CASE Commands!IsEmpty
  <2>1. /\ dispatch = "check"
        /\ \/ Staging!IsEmptyLoadHead /\ dispatch' = "check"
           \/ /\ Staging!IsEmptyLoadTail
              /\ dispatch' = IF consumer'.avail THEN "pop" ELSE "clear"
        /\ UNCHANGED <<Commands!uiVars, stagedData, failed, batch, log>>
    BY <1>2, CallsOfWorker DEF Commands!IsEmpty
  <2>2. Staging!TypeOK'
    BY <2>1, WorkerKeepsRingTyped
  <2>3. QueuesTyped'
    BY <2>1 DEF QueuesTyped, Commands!uiVars
  <2>p. PlacesTyped'
    BY <2>1 DEF PlacesTyped, Commands!uiVars
  <2>4. TransferInv' /\ DispatchInv'
    BY <2>1 DEF Staging!IsEmptyLoadHead, Staging!IsEmptyLoadTail, Staging!ProdSide,
                Commands!uiVars, TransferInv, DispatchInv, Staging!TypeOK
  <2> QED
    BY <2>p, <2>2, <2>3, <2>4
<1>3. CASE Commands!PopStaged
  <2>1. /\ dispatch = "pop"
        /\ \/ /\ Staging!PopLoadHead \/ Staging!PopLoadTail \/ Staging!PopMove
              /\ dispatch' = "pop"
           \/ (Staging!PopStoreHead \/ Staging!PopFails) /\ dispatch' = "execute"
        /\ UNCHANGED <<Commands!uiVars, stagedData, failed, batch, log>>
    BY <1>3, CallsOfWorker DEF Commands!PopStaged
  <2>2. Staging!TypeOK'
    BY <2>1, WorkerKeepsRingTyped
  <2>3. QueuesTyped'
    BY <2>1 DEF QueuesTyped, Commands!uiVars
  <2>p. PlacesTyped'
    BY <2>1 DEF PlacesTyped, Commands!uiVars
  <2>4. TransferInv' /\ DispatchInv'
    BY <2>1 DEF Staging!PopLoadHead, Staging!PopLoadTail, Staging!PopMove, Staging!PopStoreHead,
                Staging!PopFails, Staging!ProdSide, Commands!uiVars, TransferInv, DispatchInv,
                Staging!TypeOK
  <2> QED
    BY <2>p, <2>2, <2>3, <2>4
<1>4. ASSUME NEW well \in BOOLEAN, Commands!Execute(well) PROVE Commanded'
  <2> DEFINE entry == [cmd |-> taken,
                       data |-> IF stagedData = <<>> THEN Commands!NoData ELSE Head(stagedData),
                       ok |-> well, success |-> ~failed', batch |-> batch]
  <2>1. failed' \in BOOLEAN
    BY <1>4 DEF Commands!Execute, Commands!FailedAfter, PlacesTyped
  <2>2. entry \in Commands!Entry
    <3>1. (IF stagedData = <<>> THEN Commands!NoData ELSE Head(stagedData)) \in Images
      BY DataIsImages DEF QueuesTyped
    <3> QED
      BY <2>1, <3>1 DEF QueuesTyped, Staging!TypeOK, Commands!Entry, Images
  <2>3. log' = Append(log, entry)
    BY <1>4, Zenon DEF Commands!Execute
  <2> HIDE DEF entry
  <2>4. log' \in Seq(Commands!Entry)
    BY <2>2, <2>3 DEF QueuesTyped
  <2>5. /\ stagedData' \in Seq(Images) /\ Len(stagedData') <= QueueSize
        /\ dispatch' \in {"exit", "check"}
    BY <1>4, QueueSizes DEF Commands!Execute, QueuesTyped
  <2>6. dispatch = "execute" /\ UNCHANGED <<Commands!ringVars, Commands!uiVars, batch>>
    BY <1>4 DEF Commands!Execute
  <2>7. QueuesTyped'
    BY <2>1, <2>4, <2>5, <2>6 DEF QueuesTyped, Commands!uiVars
  <2>p. PlacesTyped'
    BY <2>1, <2>4, <2>5, <2>6 DEF PlacesTyped, Commands!uiVars
  <2>8. Staging!TypeOK' /\ TransferInv' /\ DispatchInv'
    BY <2>5, <2>6 DEF Commands!ringVars, Commands!uiVars, Staging!TypeOK, TransferInv, DispatchInv
  <2> QED
    BY <2>p, <2>7, <2>8
<1>5. CASE Commands!Clear
  <2>1. /\ dispatch \in {"clear", "exit"}
        /\ \/ Staging!ClearStoreTail /\ UNCHANGED <<dispatch, stopping>>
           \/ /\ Staging!ClearStoreHead
              /\ dispatch' = "parked"
              /\ stopping' = IF dispatch = "exit" THEN "no" ELSE stopping
        /\ UNCHANGED <<pending, pendingData, transfer, accepted, stagedData, failed, batch, log>>
    BY <1>5, CallsOfWorker DEF Commands!Clear
  <2>2. Staging!TypeOK'
    BY <2>1, WorkerKeepsRingTyped
  <2>3. QueuesTyped'
    BY <2>1 DEF QueuesTyped
  <2>p. PlacesTyped'
    BY <2>1 DEF PlacesTyped
  <2>4. TransferInv' /\ DispatchInv'
    BY <2>1 DEF Staging!ClearStoreTail, Staging!ClearStoreHead, Staging!ProdSide,
                TransferInv, DispatchInv, Staging!TypeOK
  <2> QED
    BY <2>p, <2>2, <2>3, <2>4
<1> QED
  BY <1>1, <1>2, <1>3, <1>4, <1>5 DEF Commands!Worker

LEMMA CommandsStart == Commands!Init => Commanded
<1> SUFFICES ASSUME Commands!Init PROVE Commanded
  OBVIOUS
<1> USE DEF Commands!Init
<1>1. Staging!Init
  BY RingOfCommands
<1>2. Staging!TypeOK
  BY <1>1, CommandsFit, Staging!InitIInv DEF Staging!IInv
<1>3. QueuesTyped
  BY QueueSizes DEF QueuesTyped
<1>4. PlacesTyped
  BY DEF PlacesTyped
<1>5. TransferInv /\ DispatchInv
  BY <1>1 DEF Staging!Init, TransferInv, DispatchInv
<1> QED
  BY <1>2, <1>3, <1>4, <1>5 DEF Commanded

LEMMA CommandsStay == Commanded /\ [Commands!Next]_(Commands!vars) => Commanded'
<1> SUFFICES ASSUME Commanded, [Commands!Next]_(Commands!vars) PROVE Commanded'
  OBVIOUS
<1>1. CASE Commands!Next
  <2>1. overlapped' \in BOOLEAN
    BY <1>1 DEF Commands!Next, Commanded, PlacesTyped
  <2> QED
    BY <1>1, <2>1, UIKeepsCommanded, WorkerKeepsCommanded DEF Commands!Next
<1>2. CASE UNCHANGED Commands!vars
  <2> USE <1>2 DEF Commanded, Commands!vars, Commands!ringVars, Commands!uiVars, Commands!workerVars
  <2>1. Staging!TypeOK' /\ TransferInv' /\ DispatchInv'
    BY DEF Staging!TypeOK, TransferInv, DispatchInv
  <2>2. QueuesTyped'
    BY DEF QueuesTyped
  <2>3. PlacesTyped'
    BY DEF PlacesTyped
  <2> QED
    BY <2>1, <2>2, <2>3
<1> QED
  BY <1>1, <1>2

LEMMA CommandsInvariant == Commands!Spec => []Commanded
BY CommandsStart, CommandsStay, PTL DEF Commands!Spec

(***************************************************************************)
(* The queues and what the threads hold between them stay within their     *)
(* types, however transfers and dispatches interleave.                     *)
(***************************************************************************)
THEOREM CommandsTypeCorrect == Commands!Spec => []Commands!TypeOK
BY CommandsInvariant, CommandTypes, PTL

--------------------------------------------------------------------------------
(* A batch is marked failed by a command of it that failed.                *)
FailedHasCause == failed => \E j \in DOMAIN log : ~log[j].ok /\ log[j].batch = batch

Honest == FailedHasCause /\ ResultsHonest

LEMMA ExecuteHonest ==
    ASSUME Commanded, Honest, NEW well \in BOOLEAN, Commands!Execute(well)
    PROVE  Honest'
<1> DEFINE entry == [cmd |-> taken,
                     data |-> IF stagedData = <<>> THEN Commands!NoData ELSE Head(stagedData),
                     ok |-> well, success |-> ~failed', batch |-> batch]
<1>1. log' = Append(log, entry) /\ batch' = batch
  BY Zenon DEF Commands!Execute
<1>2. failed' = Commands!FailedAfter(taken, well) /\ (taken.kind \in {"fallible", "save"} \/ well)
  BY DEF Commands!Execute
<1>3. entry.ok = well /\ entry.batch = batch
  OBVIOUS
<1>4. (entry.success => ~failed') /\ (~entry.success => failed')
  BY Zenon
<1> HIDE DEF entry
<1>5. failed' => ~well \/ failed
  BY <1>2 DEF Commands!FailedAfter
<1>6. ~well => failed'
  BY <1>2 DEF Commands!FailedAfter
<1>7. log \in Seq(Commands!Entry)
  BY DEF Commanded, QueuesTyped
<1>8. /\ Len(log') = Len(log) + 1 /\ Len(log) \in Nat
      /\ DOMAIN log = 1 .. Len(log) /\ DOMAIN log' = 1 .. Len(log) + 1
      /\ \A i \in DOMAIN log : log'[i] = log[i]
      /\ log'[Len(log) + 1] = entry
  BY <1>1, <1>7
<1>9. FailedHasCause'
  <2> SUFFICES ASSUME failed' PROVE \E j \in DOMAIN log' : ~log'[j].ok /\ log'[j].batch = batch
    BY <1>1 DEF FailedHasCause
  <2>1. CASE ~well
    BY <2>1, <1>3, <1>8
  <2>2. CASE failed
    BY <2>2, <1>8 DEF Honest, FailedHasCause
  <2> QED
    BY <1>5, <2>1, <2>2
<1>10. ResultsHonest'
  <2> SUFFICES ASSUME NEW i \in DOMAIN log'
               PROVE  /\ log'[i].success => log'[i].ok
                      /\ ~log'[i].success =>
                             \E j \in 1 .. i : ~log'[j].ok /\ log'[j].batch = log'[i].batch
    BY DEF ResultsHonest, Commands!ResultsHonest
  <2>1. CASE i \in DOMAIN log
    <3>1. log'[i] = log[i] /\ \A j \in 1 .. i : log'[j] = log[j]
      BY <2>1, <1>8
    <3> QED
      BY <2>1, <3>1 DEF Honest, ResultsHonest, Commands!ResultsHonest
  <2>2. CASE i = Len(log) + 1
    <3>1. log'[i].success => log'[i].ok
      BY <2>2, <1>3, <1>4, <1>6, <1>8
    <3>2. ASSUME ~log'[i].success
          PROVE  \E j \in 1 .. i : ~log'[j].ok /\ log'[j].batch = log'[i].batch
      <4>1. failed' /\ log'[i].batch = batch
        BY <3>2, <2>2, <1>3, <1>4, <1>8
      <4>2. PICK j \in DOMAIN log' : ~log'[j].ok /\ log'[j].batch = batch
        BY <4>1, <1>1, <1>9 DEF FailedHasCause
      <4> QED
        BY <4>1, <4>2, <2>2, <1>8
    <3> QED
      BY <3>1, <3>2
  <2> QED
    BY <2>1, <2>2, <1>8
<1> QED
  BY <1>9, <1>10 DEF Honest

(***************************************************************************)
(* What the UI is told of a command: success only if it succeeded, failure *)
(* only if it or a command before it in the same batch failed, however     *)
(* transfers and dispatches interleave.                                    *)
(***************************************************************************)
THEOREM ResultsAreHonest == Commands!Spec => []ResultsHonest
<1>1. Commands!Init => Honest
  BY DEF Commands!Init, Honest, FailedHasCause, ResultsHonest, Commands!ResultsHonest
<1>2. Commanded /\ Honest /\ [Commands!Next]_(Commands!vars) => Honest'
  <2> SUFFICES ASSUME Commanded, Honest, [Commands!Next]_(Commands!vars) PROVE Honest'
    OBVIOUS
  <2>1. ASSUME NEW well \in BOOLEAN, Commands!Execute(well) PROVE Honest'
    BY <2>1, ExecuteHonest
  <2>2. CASE Commands!BeginDispatch
    BY <2>2 DEF Commands!BeginDispatch, Honest, FailedHasCause, ResultsHonest,
                Commands!ResultsHonest
  <2>3. CASE UNCHANGED <<failed, batch, log>>
    BY <2>3 DEF Honest, FailedHasCause, ResultsHonest, Commands!ResultsHonest
  <2>4. CASE Commands!UI
    BY <2>3, <2>4 DEF Commands!UI, Commands!Queue, Commands!BeginTransfer, Commands!IsFull,
             Commands!PopOther, Commands!PushStaged, Commands!TransferData, Commands!workerVars
  <2>5. CASE Commands!IsEmpty \/ Commands!PopStaged \/ Commands!Clear \/ UNCHANGED Commands!vars
    BY <2>3, <2>5 DEF Commands!IsEmpty, Commands!PopStaged, Commands!Clear, Commands!vars,
                      Commands!workerVars
  <2> QED
    BY <2>1, <2>2, <2>4, <2>5 DEF Commands!Next, Commands!Worker
<1>3. Honest => ResultsHonest
  BY DEF Honest
<1> QED
  BY <1>1, <1>2, <1>3, CommandsInvariant, PTL DEF Commands!Spec

--------------------------------------------------------------------------------
(* What a command carries is in one place: dispatched, in a slot of the    *)
(* staged ring, waiting, or in the hands of the UI or of the worker.       *)
Places == {"log", "slot", "pending", "UI", "worker"}

Carried(cmd, n) == cmd.text = TRUE /\ cmd.id = n

Holds(place, i, n) ==
    \/ place = "log" /\ i \in DOMAIN log /\ Carried(log[i].cmd, n)
    \/ place = "slot" /\ i \in Staging!Slots /\ Carried(staged_array[i], n)
    \/ place = "pending" /\ i \in DOMAIN pending /\ Carried(pending[i], n)
    \/ place = "UI" /\ i = 0 /\ producer.pc \in {"push_head", "write"} /\ Carried(producer.item, n)
    \/ place = "worker" /\ i = 0 /\ \/ consumer.pc = "release" /\ Carried(consumer.item, n)
                                    \/ dispatch = "execute" /\ Carried(taken, n)

Once ==
    \A n \in Nat : \A p, q \in Places : \A i, j \in Nat :
        Holds(p, i, n) /\ Holds(q, j, n) => p = q /\ i = j

Issued == \A n \in Nat : \A p \in Places : \A i \in Nat : Holds(p, i, n) => n <= Len(accepted)

(* Nothing comes to a place where it was not.                              *)
Stays ==
    /\ accepted' = accepted
    /\ \A n \in Nat : \A p \in Places : \A i \in Nat : Holds(p, i, n)' => Holds(p, i, n)

LEMMA StaysOnce == Once /\ Issued /\ Stays => (Once /\ Issued)'
BY DEF Once, Issued, Stays

LEMMA NotCarried == \A n : ~Carried(Commands!NoCommand, n)
<1>1. Commands!NoCommand.text = FALSE
  BY Zenon DEF Commands!NoCommand
<1> QED
  BY <1>1 DEF Carried

LEMMA QueueOnce ==
    ASSUME Commanded, Once, Issued, NEW kind \in Kinds, Commands!Queue(kind)
    PROVE  (Once /\ Issued)'
<1> DEFINE cmd == [id |-> Len(accepted) + 1, kind |-> kind, text |-> TRUE]
<1>1. /\ pending' = Commands!Pushed(pending, cmd)
      /\ accepted' = IF Len(pending) < QueueSize THEN Append(accepted, cmd) ELSE accepted
      /\ UNCHANGED <<Commands!ringVars, Commands!workerVars>>
  BY DEF Commands!Queue
<1>2. cmd.id = Len(accepted) + 1
  OBVIOUS
<1> HIDE DEF cmd
<1>3. pending \in Seq(Commands!Command) /\ accepted \in Seq(Commands!Command)
  BY DEF Commanded, QueuesTyped
<1> USE DEF Commands!ringVars, Commands!workerVars
<1>4. CASE Len(pending) < QueueSize
  <2>1. pending' = Append(pending, cmd) /\ accepted' = Append(accepted, cmd)
    BY <1>1, <1>4 DEF Commands!Pushed
  <2>2. /\ Len(accepted') = Len(accepted) + 1 /\ Len(accepted) \in Nat /\ Len(pending) \in Nat
        /\ DOMAIN pending = 1 .. Len(pending) /\ DOMAIN pending' = 1 .. Len(pending) + 1
        /\ \A i \in DOMAIN pending : pending'[i] = pending[i]
        /\ pending'[Len(pending) + 1] = cmd
    BY <1>3, <2>1
  <2>3. ASSUME NEW n \in Nat, NEW p \in Places, NEW i \in Nat, Holds(p, i, n)'
        PROVE  \/ Holds(p, i, n)
               \/ p = "pending" /\ i = Len(pending) + 1 /\ n = Len(accepted) + 1
    BY <1>1, <1>2, <2>2, <2>3 DEF Holds, Carried
  <2>4. Once'
    BY <2>2, <2>3 DEF Once, Issued
  <2>5. Issued'
    BY <2>2, <2>3 DEF Issued
  <2> QED
    BY <2>4, <2>5
<1>5. CASE ~(Len(pending) < QueueSize)
  <2>1. pending' = pending /\ accepted' = accepted
    BY <1>1, <1>5 DEF Commands!Pushed
  <2>2. Stays
    BY <1>1, <2>1 DEF Stays, Holds
  <2> QED
    BY <2>2, StaysOnce
<1> QED
  BY <1>4, <1>5

LEMMA PopOtherOnce ==
    ASSUME Commanded, Once, Issued, Commands!PopOther
    PROVE  (Once /\ Issued)'
<1>1. /\ transfer = "push" /\ Staging!PushLoadTail(Head(pending)) /\ pending' = Tail(pending)
      /\ UNCHANGED <<Commands!workerVars, accepted>>
  BY CallsOfUI DEF Commands!PopOther
<1>2. /\ producer.pc = "idle" /\ producer'.pc = "push_head" /\ producer'.item = Head(pending)
      /\ UNCHANGED <<staged_array, consumer, taken>>
  BY <1>1 DEF Staging!PushLoadTail, Staging!ConsSide, Commanded, Staging!TypeOK
<1>3. pending # <<>> /\ pending \in Seq(Commands!Command)
  BY <1>1, <1>2 DEF Commanded, TransferInv, QueuesTyped
<1>4. /\ Len(pending) \in Nat /\ 1 \in DOMAIN pending /\ Head(pending) = pending[1]
      /\ \A i \in Nat : i \in DOMAIN pending' => /\ i + 1 \in DOMAIN pending /\ i # 0
                                                 /\ pending'[i] = pending[i + 1]
  BY <1>1, <1>3
<1>5. ASSUME NEW n \in Nat, NEW p \in Places, NEW i \in Nat, Holds(p, i, n)'
      PROVE  \/ p = "pending" /\ i # 0 /\ Holds("pending", i + 1, n)
             \/ p = "UI" /\ i = 0 /\ Holds("pending", 1, n)
             \/ p \notin {"pending", "UI"} /\ Holds(p, i, n)
  BY <1>1, <1>2, <1>4, <1>5 DEF Holds, Commands!workerVars
<1>6. "pending" \in Places /\ \A i \in Nat : i + 1 \in Nat
  BY DEF Places
<1>7. Once'
  BY <1>5, <1>6 DEF Once
<1>8. Issued'
  BY <1>1, <1>5, <1>6 DEF Issued
<1> QED
  BY <1>7, <1>8

LEMMA PushWriteOnce ==
    ASSUME Commanded, Once, Issued, Staging!PushWrite, UNCHANGED <<Commands!workerVars, pending, accepted>>
    PROVE  (Once /\ Issued)'
<1>1. /\ producer.pc = "write" /\ producer'.pc = "publish"
      /\ staged_array' = [staged_array EXCEPT ![producer.tail] = producer.item]
      /\ UNCHANGED <<consumer, taken>>
  BY DEF Staging!PushWrite, Staging!ConsSide, Commanded, Staging!TypeOK
<1>2. /\ producer.tail \in Staging!Slots
      /\ \A i \in Staging!Slots : staged_array'[i] = IF i = producer.tail THEN producer.item
                                                     ELSE staged_array[i]
  BY <1>1 DEF Commanded, Staging!TypeOK
<1>3. ASSUME NEW n \in Nat, NEW p \in Places, NEW i \in Nat, Holds(p, i, n)'
      PROVE  \/ p = "slot" /\ i = producer.tail /\ Holds("UI", 0, n)
             \/ p # "UI" /\ Holds(p, i, n)
  BY <1>1, <1>2, <1>3 DEF Holds, Commands!workerVars
<1>4. "UI" \in Places /\ 0 \in Nat
  BY DEF Places
<1>5. Once'
  BY <1>3, <1>4 DEF Once
<1>6. Issued'
  BY <1>3, <1>4 DEF Issued
<1> QED
  BY <1>5, <1>6

LEMMA PopMoveOnce ==
    ASSUME Commanded, Once, Issued, dispatch = "pop", Staging!PopMove,
           UNCHANGED <<dispatch, log, pending, accepted>>
    PROVE  (Once /\ Issued)'
<1>1. /\ consumer.pc = "move" /\ consumer'.pc = "release"
      /\ consumer'.item = staged_array[consumer.head] /\ consumer.head \in Staging!Slots
      /\ UNCHANGED producer
  BY DEF Staging!PopMove, Staging!ProdSide, Commanded, Staging!TypeOK
<1>2. \A i \in Staging!Slots :
          staged_array'[i] = IF i = consumer.head THEN Commands!OperandMoved(staged_array[i])
                             ELSE staged_array[i]
  BY <1>1 DEF Staging!PopMove, Commanded, Staging!TypeOK
<1>3. staged_array[consumer.head] \in Commands!Command \cup {Commands!NoCommand}
  BY <1>1 DEF Commanded, Staging!TypeOK
<1>4. \A n : ~Carried(Commands!OperandMoved(staged_array[consumer.head]), n)
  <2>1. \A c \in Commands!Command : Commands!OperandMoved(c).text = FALSE
    BY DEF Commands!OperandMoved, Commands!Command
  <2> QED
    BY <1>3, <2>1, NotCarried, NothingMoved DEF Carried
<1>5. ASSUME NEW n \in Nat, NEW p \in Places, NEW i \in Nat, Holds(p, i, n)'
      PROVE  \/ p = "worker" /\ i = 0 /\ Holds("slot", consumer.head, n)
             \/ p # "worker" /\ ~(p = "slot" /\ i = consumer.head) /\ Holds(p, i, n)
  BY <1>1, <1>2, <1>4, <1>5 DEF Holds
<1>6. "slot" \in Places /\ consumer.head \in Nat
  BY <1>1, CommandsFit DEF Places, Staging!Slots, Staging!kCapacity
<1>7. Once'
  BY <1>5, <1>6 DEF Once
<1>8. Issued'
  BY <1>5, <1>6 DEF Issued
<1> QED
  BY <1>7, <1>8

LEMMA ExecuteOnce ==
    ASSUME Commanded, Once, Issued, NEW well \in BOOLEAN, Commands!Execute(well)
    PROVE  (Once /\ Issued)'
<1>1. PICK entry : log' = Append(log, entry) /\ entry.cmd = taken
  <2> DEFINE entry == [cmd |-> taken,
                       data |-> IF stagedData = <<>> THEN Commands!NoData ELSE Head(stagedData),
                       ok |-> well, success |-> ~failed', batch |-> batch]
  <2>1. log' = Append(log, entry)
    BY Zenon DEF Commands!Execute
  <2>2. entry.cmd = taken
    OBVIOUS
  <2> QED
    BY <2>1, <2>2
<1>2. /\ dispatch = "execute" /\ dispatch' \in {"exit", "check"}
      /\ UNCHANGED <<Commands!ringVars, Commands!uiVars>>
  BY DEF Commands!Execute
<1>3. consumer.pc = "idle" /\ log \in Seq(Commands!Entry)
  BY <1>2 DEF Commanded, DispatchInv, QueuesTyped
<1>4. /\ Len(log) \in Nat /\ DOMAIN log = 1 .. Len(log) /\ DOMAIN log' = 1 .. Len(log) + 1
      /\ \A i \in DOMAIN log : log'[i] = log[i]
      /\ log'[Len(log) + 1].cmd = taken
  BY <1>1, <1>3
<1>5. ASSUME NEW n \in Nat, NEW p \in Places, NEW i \in Nat, Holds(p, i, n)'
      PROVE  \/ p = "log" /\ i = Len(log) + 1 /\ Holds("worker", 0, n)
             \/ p # "worker" /\ ~(p = "log" /\ i = Len(log) + 1) /\ Holds(p, i, n)
  BY <1>2, <1>3, <1>4, <1>5 DEF Holds, Commands!ringVars, Commands!uiVars
<1>6. "worker" \in Places /\ 0 \in Nat
  BY DEF Places
<1>7. Once'
  BY <1>5, <1>6 DEF Once
<1>8. Issued'
  BY <1>2, <1>5, <1>6 DEF Issued, Commands!uiVars
<1> QED
  BY <1>7, <1>8

LEMMA UIOnce ==
    ASSUME Commanded, Once, Issued, Commands!UI
    PROVE  (Once /\ Issued)'
<1>1. ASSUME NEW kind \in Kinds, Commands!Queue(kind) PROVE (Once /\ Issued)'
  BY <1>1, QueueOnce
<1>2. CASE Commands!BeginTransfer \/ Commands!TransferData
  <2>1. UNCHANGED <<Commands!ringVars, Commands!workerVars, pending, accepted>>
    BY <1>2 DEF Commands!BeginTransfer, Commands!TransferData
  <2>2. Stays
    BY <2>1 DEF Stays, Holds, Commands!ringVars, Commands!workerVars
  <2> QED
    BY <2>2, StaysOnce
<1>3. CASE Commands!IsFull
  <2>1. /\ Staging!IsFullLoadTail \/ Staging!IsFullLoadHead
        /\ UNCHANGED <<Commands!workerVars, pending, accepted>>
    BY <1>3, CallsOfUI DEF Commands!IsFull
  <2>2. producer'.pc \notin {"push_head", "write"} /\ UNCHANGED <<staged_array, consumer, taken>>
    BY <2>1 DEF Staging!IsFullLoadTail, Staging!IsFullLoadHead, Staging!ConsSide, Commanded,
                Staging!TypeOK
  <2>3. Stays
    BY <2>1, <2>2 DEF Stays, Holds, Commands!workerVars
  <2> QED
    BY <2>3, StaysOnce
<1>4. CASE Commands!PopOther
  BY <1>4, PopOtherOnce
<1>5. CASE Commands!PushStaged
  <2>1. /\ \/ Staging!PushLoadHead \/ Staging!PushWrite
           \/ Staging!PushStoreTail \/ Staging!PushFails
        /\ UNCHANGED <<Commands!workerVars, pending, accepted>>
    BY <1>5, CallsOfUI DEF Commands!PushStaged
  <2>2. CASE Staging!PushWrite
    BY <2>1, <2>2, PushWriteOnce
  <2>3. CASE Staging!PushLoadHead
    <3>1. /\ producer.pc = "push_head" /\ producer'.item = producer.item
          /\ UNCHANGED <<staged_array, consumer, taken>>
      BY <2>3 DEF Staging!PushLoadHead, Staging!ConsSide, Commanded, Staging!TypeOK
    <3>2. Stays
      BY <2>1, <3>1 DEF Stays, Holds, Commands!workerVars
    <3> QED
      BY <3>2, StaysOnce
  <2>4. CASE Staging!PushStoreTail \/ Staging!PushFails
    <3>1. producer'.pc = "idle" /\ UNCHANGED <<staged_array, consumer, taken>>
      BY <2>4 DEF Staging!PushStoreTail, Staging!PushFails, Staging!ConsSide, Commanded,
                  Staging!TypeOK
    <3>2. Stays
      BY <2>1, <3>1 DEF Stays, Holds, Commands!workerVars
    <3> QED
      BY <3>2, StaysOnce
  <2> QED
    BY <2>1, <2>2, <2>3, <2>4
<1> QED
  BY <1>1, <1>2, <1>3, <1>4, <1>5 DEF Commands!UI

LEMMA WorkerOnce ==
    ASSUME Commanded, Once, Issued, Commands!Worker
    PROVE  (Once /\ Issued)'
<1>1. CASE Commands!BeginDispatch
  <2>1. /\ dispatch' = "check"
        /\ UNCHANGED <<Commands!ringVars, Commands!uiVars, log>>
    BY <1>1 DEF Commands!BeginDispatch
  <2>2. Stays
    BY <2>1 DEF Stays, Holds, Commands!ringVars, Commands!uiVars
  <2> QED
    BY <2>2, StaysOnce
<1>2. CASE Commands!IsEmpty
  <2>1. /\ Staging!IsEmptyLoadHead \/ Staging!IsEmptyLoadTail
        /\ dispatch' # "execute" /\ UNCHANGED <<Commands!uiVars, log>>
    BY <1>2, CallsOfWorker DEF Commands!IsEmpty
  <2>2. consumer'.pc # "release" /\ UNCHANGED <<staged_array, producer>>
    BY <2>1 DEF Staging!IsEmptyLoadHead, Staging!IsEmptyLoadTail, Staging!ProdSide, Commanded,
                Staging!TypeOK
  <2>3. Stays
    BY <2>1, <2>2 DEF Stays, Holds, Commands!uiVars
  <2> QED
    BY <2>3, StaysOnce
<1>3. CASE Commands!PopStaged
  <2>1. /\ dispatch = "pop"
        /\ \/ /\ Staging!PopLoadHead \/ Staging!PopLoadTail \/ Staging!PopMove
              /\ dispatch' = "pop"
           \/ (Staging!PopStoreHead \/ Staging!PopFails) /\ dispatch' = "execute"
        /\ UNCHANGED <<Commands!uiVars, log>>
    BY <1>3, CallsOfWorker DEF Commands!PopStaged
  <2>2. CASE Staging!PopMove
    <3>1. dispatch' = "pop"
      BY <2>1, <2>2 DEF Staging!PopMove, Staging!PopStoreHead, Staging!PopFails
    <3> QED
      BY <2>1, <2>2, <3>1, PopMoveOnce DEF Commands!uiVars
  <2>3. CASE (Staging!PopLoadHead \/ Staging!PopLoadTail) /\ dispatch' = "pop"
    <3>1. consumer'.pc # "release" /\ UNCHANGED <<staged_array, producer>>
      BY <2>3 DEF Staging!PopLoadHead, Staging!PopLoadTail, Staging!ProdSide, Commanded,
                  Staging!TypeOK
    <3>2. Stays
      BY <2>1, <2>3, <3>1 DEF Stays, Holds, Commands!uiVars
    <3> QED
      BY <3>2, StaysOnce
  <2>4. CASE Staging!PopStoreHead /\ dispatch' = "execute"
    <3>1. /\ consumer.pc = "release" /\ taken' = consumer.item /\ consumer'.pc = "idle"
          /\ UNCHANGED <<staged_array, producer>>
      BY <2>4 DEF Staging!PopStoreHead, Staging!ProdSide, Commanded, Staging!TypeOK
    <3>2. Stays
      BY <2>1, <3>1 DEF Stays, Holds, Commands!uiVars
    <3> QED
      BY <3>2, StaysOnce
  <2>5. CASE Staging!PopFails /\ dispatch' = "execute"
    <3>1. /\ taken' = Commands!NoCommand /\ consumer'.pc = "idle"
          /\ UNCHANGED <<staged_array, producer>>
      BY <2>5 DEF Staging!PopFails, Staging!ProdSide, Commanded, Staging!TypeOK
    <3>2. Stays
      BY <2>1, <3>1, NotCarried DEF Stays, Holds, Commands!uiVars
    <3> QED
      BY <3>2, StaysOnce
  <2> QED
    BY <2>1, <2>2, <2>3, <2>4, <2>5
<1>4. ASSUME NEW well \in BOOLEAN, Commands!Execute(well) PROVE (Once /\ Issued)'
  BY <1>4, ExecuteOnce
<1>5. CASE Commands!Clear
  <2>1. /\ Staging!ClearStoreTail \/ Staging!ClearStoreHead
        /\ dispatch \in {"clear", "exit"} /\ dispatch' \in {"clear", "exit", "parked"}
        /\ UNCHANGED <<pending, accepted, log>>
    BY <1>5, CallsOfWorker DEF Commands!Clear
  <2>2. consumer'.pc # "release" /\ UNCHANGED <<staged_array, producer>>
    BY <2>1 DEF Staging!ClearStoreTail, Staging!ClearStoreHead, Staging!ProdSide, Commanded,
                Staging!TypeOK
  <2>3. Stays
    BY <2>1, <2>2 DEF Stays, Holds
  <2> QED
    BY <2>3, StaysOnce
<1> QED
  BY <1>1, <1>2, <1>3, <1>4, <1>5 DEF Commands!Worker

LEMMA CarriedOnce == Commands!Spec => [](Once /\ Issued)
<1>1. Commands!Init => Once /\ Issued
  <2> SUFFICES ASSUME Commands!Init PROVE Once /\ Issued
    OBVIOUS
  <2>1. Staging!Init
    BY RingOfCommands DEF Commands!Init
  <2>2. \A p \in Places : \A i, n \in Nat : ~Holds(p, i, n)
    BY <2>1, NotCarried DEF Commands!Init, Staging!Init, Holds
  <2> QED
    BY <2>2 DEF Once, Issued
<1>2. Commanded /\ (Once /\ Issued) /\ [Commands!Next]_(Commands!vars) => (Once /\ Issued)'
  <2> SUFFICES ASSUME Commanded, Once, Issued, [Commands!Next]_(Commands!vars)
               PROVE  (Once /\ Issued)'
    OBVIOUS
  <2>1. CASE Commands!Next
    BY <2>1, UIOnce, WorkerOnce DEF Commands!Next
  <2>2. CASE UNCHANGED Commands!vars
    <3>1. Stays
      BY <2>2 DEF Stays, Holds, Commands!vars, Commands!ringVars, Commands!uiVars,
                  Commands!workerVars
    <3> QED
      BY <3>1, StaysOnce
  <2> QED
    BY <2>1, <2>2
<1> QED
  BY <1>1, <1>2, CommandsInvariant, PTL DEF Commands!Spec

--------------------------------------------------------------------------------
(* Passing the front of one queue on to the end of the one before it.      *)
LEMMA HeadThenTail ==
    ASSUME NEW S, NEW q \in Seq(S), q # << >>
    PROVE  << Head(q) >> \o Tail(q) = q
<1>1. /\ Head(q) \in S /\ Tail(q) \in Seq(S) /\ Len(Tail(q)) = Len(q) - 1 /\ Len(q) \in Nat
      /\ \A i \in 1 .. Len(Tail(q)) : Tail(q)[i] = q[i + 1]
  BY HeadTailProperties
<1>2. << Head(q) >> \in Seq(S) /\ Len(<< Head(q) >>) = 1 /\ << Head(q) >>[1] = Head(q)
  BY <1>1
<1> DEFINE h == << Head(q) >>
           both == h \o Tail(q)
<1> HIDE DEF h
<1>3. /\ both \in Seq(S) /\ Len(both) = Len(h) + Len(Tail(q))
      /\ \A i \in 1 .. Len(h) + Len(Tail(q)) :
             both[i] = IF i <= Len(h) THEN h[i] ELSE Tail(q)[i - Len(h)]
  BY <1>1, <1>2, ConcatProperties DEF h
<1>4. Head(q) = q[1]
  OBVIOUS
<1>5. Len(both) = Len(q)
  BY <1>1, <1>2, <1>3 DEF h
<1>6. \A i \in 1 .. Len(both) : both[i] = q[i]
  <2> HIDE DEF both
  <2> SUFFICES ASSUME NEW i \in 1 .. Len(both) PROVE both[i] = q[i]
    OBVIOUS
  <2>1. CASE i = 1
    BY <2>1, <1>1, <1>2, <1>3, <1>4, <1>5 DEF h
  <2>2. CASE i # 1
    <3>1. i - 1 \in 1 .. Len(Tail(q)) /\ (i - 1) + 1 = i /\ ~(i <= 1)
      BY <2>2, <1>1, <1>5
    <3>2. both[i] = Tail(q)[i - 1]
      BY <3>1, <1>1, <1>2, <1>3, <1>5 DEF h
    <3> QED
      BY <3>1, <3>2, <1>1
  <2> QED
    BY <2>1, <2>2
<1>7. both = q
  <2> HIDE DEF both
  <2> QED
    BY <1>3, <1>5, <1>6, SeqEqual
<1> QED
  BY <1>7 DEF h

LEMMA OneMoves ==
    ASSUME NEW S, NEW p \in Seq(S), NEW q \in Seq(S), q # << >>
    PROVE  Append(p, Head(q)) \o Tail(q) = p \o q
<1>1. Head(q) \in S /\ Tail(q) \in Seq(S) /\ << Head(q) >> \in Seq(S)
  BY HeadTailProperties
<1>2. Append(p, Head(q)) = p \o << Head(q) >>
  BY <1>1, AppendIsConcat
<1>3. (p \o << Head(q) >>) \o Tail(q) = p \o (<< Head(q) >> \o Tail(q))
  BY <1>1, ConcatAssociative
<1> QED
  BY <1>2, <1>3, HeadThenTail

(* A line of four: in the hand of the worker, staged, in the hand of the   *)
(* UI, pending.                                                            *)
LEMMA LineIs ==
    ASSUME NEW S, NEW w \in Seq(S), NEW s \in Seq(S), NEW u \in Seq(S), NEW p \in Seq(S)
    PROVE  /\ w \o s \o u \o p \in Seq(S)
           /\ Len(w \o s \o u \o p) = Len(w) + Len(s) + Len(u) + Len(p)
           /\ Len(w) \in Nat /\ Len(s) \in Nat /\ Len(u) \in Nat /\ Len(p) \in Nat
<1>1. w \o s \in Seq(S) /\ Len(w \o s) = Len(w) + Len(s)
  BY ConcatProperties
<1>2. w \o s \o u \in Seq(S) /\ Len(w \o s \o u) = Len(w \o s) + Len(u)
  BY <1>1, ConcatProperties
<1>3. w \o s \o u \o p \in Seq(S) /\ Len(w \o s \o u \o p) = Len(w \o s \o u) + Len(p)
  BY <1>2, ConcatProperties
<1> QED
  BY <1>1, <1>2, <1>3, LenProperties

LEMMA UITakes ==
    ASSUME NEW S, NEW w, NEW s, NEW p, AreSeqs(S, w, s, p), p # << >>
    PROVE  w \o s \o << Head(p) >> \o Tail(p) = w \o s \o << >> \o p
<1>1. p \in Seq(S) /\ Joined(w, s) \in Seq(S)
  BY Regroup DEF AreSeqs
<1>2. Joined(<< Head(p) >>, Tail(p)) = p
  BY <1>1, HeadThenTail DEF Joined
<1>3. AreSeqs(S, Joined(w, s), << Head(p) >>, Tail(p))
  BY <1>1, HeadTailProperties DEF AreSeqs
<1>4. Joined(Joined(w, s), Joined(<< Head(p) >>, Tail(p)))
          = Joined(Joined(Joined(w, s), << Head(p) >>), Tail(p))
  BY <1>3, Regroup
<1>5. Joined(Joined(w, s), << >>) = Joined(w, s)
  BY <1>3, Regroup
<1>6. Joined(Joined(Joined(w, s), << Head(p) >>), Tail(p))
          = Joined(Joined(Joined(w, s), << >>), p)
  BY <1>2, <1>4, <1>5
<1> QED
  BY Zenon, <1>6 DEF Joined

LEMMA UIGives ==
    ASSUME NEW S, NEW w, NEW s, NEW u, AreSeqs(S, w, s, u), NEW p
    PROVE  w \o (s \o u) \o << >> \o p = w \o s \o u \o p
<1>1. Joined(s, u) \in Seq(S) /\ Joined(w, Joined(s, u)) = Joined(Joined(w, s), u)
  BY Regroup
<1>2. AreSeqs(S, w, Joined(s, u), << >>)
  BY <1>1, EmptySeq DEF AreSeqs
<1>3. Joined(w, Joined(s, u)) \in Seq(S)
  BY <1>2, Regroup
<1>4. AreSeqs(S, Joined(w, Joined(s, u)), << >>, << >>)
  BY <1>3, EmptySeq DEF AreSeqs
<1>5. Joined(Joined(w, Joined(s, u)), << >>) = Joined(w, Joined(s, u))
  BY <1>4, Regroup
<1>6. Joined(Joined(Joined(w, Joined(s, u)), << >>), p) = Joined(Joined(Joined(w, s), u), p)
  BY <1>1, <1>5
<1> QED
  BY Zenon, <1>6 DEF Joined

LEMMA WorkerTakes ==
    ASSUME NEW S, NEW s \in Seq(S), NEW u \in Seq(S), NEW p \in Seq(S), s # << >>
    PROVE  << Head(s) >> \o Tail(s) \o u \o p = << >> \o s \o u \o p
<1>1. << >> \o s = s
  BY ConcatEmptySeq
<1> QED
  BY <1>1, HeadThenTail

LEMMA WorkerGives ==
    ASSUME NEW S, NEW s, NEW u, NEW p, AreSeqs(S, s, u, p), NEW c \in S
    PROVE  /\ << c >> \o s \o u \o p # << >>
           /\ Head(<< c >> \o s \o u \o p) = c
           /\ Tail(<< c >> \o s \o u \o p) = << >> \o s \o u \o p
<1> DEFINE rest == s \o u \o p
<1>0. s \in Seq(S) /\ u \in Seq(S) /\ p \in Seq(S)
  BY DEF AreSeqs
<1>1. << c >> \in Seq(S) /\ s \o u \in Seq(S)
  BY <1>0, ConcatProperties
<1>2. rest \in Seq(S)
  BY <1>0, <1>1, ConcatProperties
<1>3. << >> \o s = s
  BY <1>0, ConcatEmptySeq
<1>4. << c >> \o s \o u \o p = << c >> \o rest
  <2>1. (<< c >> \o s) \o u = << c >> \o (s \o u)
    BY <1>0, <1>1, ConcatAssociative
  <2>2. (<< c >> \o (s \o u)) \o p = << c >> \o ((s \o u) \o p)
    BY <1>0, <1>1, ConcatAssociative
  <2> QED
    BY <2>1, <2>2
<1> DEFINE line == << c >> \o rest
<1> HIDE DEF rest
<1>5. /\ line \in Seq(S) /\ Len(line) = 1 + Len(rest) /\ Len(rest) \in Nat
      /\ \A i \in 1 .. 1 + Len(rest) : line[i] = IF i <= 1 THEN c ELSE rest[i - 1]
  <2> DEFINE one == << c >>
  <2>1. Len(one) = 1 /\ one[1] = c /\ one \in Seq(S)
    OBVIOUS
  <2> HIDE DEF one
  <2>2. /\ one \o rest \in Seq(S) /\ Len(one \o rest) = Len(one) + Len(rest)
        /\ \A i \in 1 .. Len(one) + Len(rest) :
               (one \o rest)[i] = IF i <= Len(one) THEN one[i] ELSE rest[i - Len(one)]
    BY <1>2, <2>1, ConcatProperties
  <2>3. Len(rest) \in Nat
    BY <1>2
  <2>4. \A i \in 1 .. 1 + Len(rest) : (one \o rest)[i] = IF i <= 1 THEN c ELSE rest[i - 1]
    BY <2>1, <2>2, <2>3
  <2> QED
    BY <2>1, <2>2, <2>3, <2>4 DEF one
<1> HIDE DEF line
<1>6. line # << >> /\ Head(line) = c
  BY <1>5
<1>7. Tail(line) = rest
  <2>1. /\ Tail(line) \in Seq(S) /\ Len(Tail(line)) = Len(rest)
        /\ \A i \in 1 .. Len(rest) : Tail(line)[i] = line[i + 1]
    BY <1>5, <1>6, HeadTailProperties
  <2>2. \A i \in 1 .. Len(rest) : Tail(line)[i] = rest[i]
    BY <2>1, <1>5
  <2> QED
    BY <2>1, <2>2, <1>2, SeqEqual
<1> QED
  BY <1>3, <1>4, <1>6, <1>7 DEF line, rest

LEMMA QueuedLast ==
    ASSUME NEW S, NEW q, NEW p, NEW c, AreSeqs(S, q, p, << c >>), c \in S
    PROVE  q \o Append(p, c) = Append(q \o p, c)
<1>1. p \in Seq(S) /\ Joined(q, p) \in Seq(S)
  BY Regroup DEF AreSeqs
<1>2. Append(p, c) = Joined(p, << c >>)
  BY <1>1, AppendIsConcat DEF Joined
<1>3. \A r \in Seq(S) : Append(r, c) = Joined(r, << c >>)
  BY AppendIsConcat DEF Joined
<1>4. Joined(q, Joined(p, << c >>)) = Joined(Joined(q, p), << c >>)
  BY Regroup
<1>5. Joined(q, Append(p, c)) = Append(Joined(q, p), c)
  BY <1>1, <1>2, <1>3, <1>4
<1> QED
  BY Zenon, <1>5 DEF Joined

--------------------------------------------------------------------------------
(* While transfers and dispatches take turns.  What the calls of the UI    *)
(* and of the worker do to what is staged.                                 *)
LEMMA UICallStutters ==
    ASSUME Staging!IInv, NEW c,
           \/ Staging!IsFullLoadTail \/ Staging!IsFullLoadHead
           \/ c \in Commands!Command /\ Staging!PushLoadTail(c)
           \/ Staging!PushLoadHead \/ Staging!PushWrite
    PROVE  Staging!IInv' /\ Staging!Contents' = Staging!Contents
<1>1. Staging!Producer
  BY DEF Staging!Producer
<1>2. Staging!IInv'
  BY <1>1, CommandsFit, Staging!ProducerIInv
<1>3. /\ staged_head' = staged_head /\ staged_tail' = staged_tail /\ consumer' = consumer
      /\ \A s \in Staging!Slots \ {staged_tail} : staged_array'[s] = staged_array[s]
  <2>1. CASE Staging!PushWrite
    BY <2>1 DEF Staging!PushWrite, Staging!ConsSide, Staging!IInv, Staging!ProdInv, Staging!TypeOK
  <2>2. CASE ~Staging!PushWrite
    BY <2>2 DEF Staging!IsFullLoadTail, Staging!IsFullLoadHead, Staging!PushLoadTail,
                Staging!PushLoadHead, Staging!ConsSide
  <2> QED
    BY <2>1, <2>2
<1> QED
  BY <1>2, <1>3, CommandsFit, Staging!ContentsStutter

LEMMA WorkerCallStutters ==
    ASSUME Staging!IInv,
           \/ Staging!IsEmptyLoadHead \/ Staging!IsEmptyLoadTail
           \/ Staging!PopLoadHead \/ Staging!PopLoadTail \/ Staging!PopMove
    PROVE  Staging!IInv' /\ Staging!Contents' = Staging!Contents
<1>1. Staging!Consumer
  BY DEF Staging!Consumer
<1>2. Staging!IInv'
  BY <1>1, CommandsFit, Staging!ConsumerIInv
<1>3. CASE Staging!PopMove
  BY <1>2, <1>3, CommandsFit, Staging!MoveStutter
<1>4. CASE ~Staging!PopMove
  <2>1. /\ staged_head' = staged_head /\ staged_tail' = staged_tail /\ staged_array' = staged_array
        /\ consumer.pc # "release" /\ consumer'.pc # "release"
    BY <1>4 DEF Staging!IsEmptyLoadHead, Staging!IsEmptyLoadTail, Staging!PopLoadHead,
                Staging!PopLoadTail, Staging!ProdSide, Staging!IInv, Staging!TypeOK
  <2> QED
    BY <1>2, <2>1, CommandsFit, Staging!ContentsStutter
<1> QED
  BY <1>2, <1>3, <1>4

LEMMA UIPublishes ==
    ASSUME Staging!IInv, Staging!PushStoreTail
    PROVE  /\ Staging!IInv' /\ Len(Staging!Contents) < QueueSize
           /\ Staging!Contents' = Append(Staging!Contents, producer.item)
<1>1. Staging!Producer
  BY DEF Staging!Producer
<1>2. Staging!IInv'
  BY <1>1, CommandsFit, Staging!ProducerIInv
<1> QED
  BY <1>2, CommandsFit, Staging!PublishAppends

LEMMA WorkerReleases ==
    ASSUME Staging!IInv, Staging!PopStoreHead
    PROVE  /\ Staging!IInv' /\ Staging!Contents # << >>
           /\ consumer.item = Head(Staging!Contents)
           /\ Staging!Contents' = Tail(Staging!Contents)
<1>1. Staging!Consumer
  BY DEF Staging!Consumer
<1>2. Staging!IInv'
  BY <1>1, CommandsFit, Staging!ConsumerIInv
<1> QED
  BY <1>2, CommandsFit, Staging!ReleaseRemoves

(* The ring is empty, or full, when its indices say so.                    *)
LEMMA RingIndices ==
    ASSUME Staging!IInv
    PROVE  /\ Staging!Contents \in Seq(Commands!Command)
           /\ staged_head = staged_tail <=> Staging!Contents = << >>
           /\ Staging!increment(staged_tail) = staged_head => Len(Staging!Contents) = QueueSize
<1>1. Staging!TypeOK
  BY DEF Staging!IInv
<1>2. /\ Staging!size \in 0 .. QueueSize
      /\ Staging!size = 0 <=> staged_head = staged_tail
      /\ Staging!size = QueueSize <=> Staging!increment(staged_tail) = staged_head
  BY <1>1, CommandsFit, Staging!SizeOf
<1>3. Staging!Contents \in Seq(Commands!Command) /\ Len(Staging!Contents) = Staging!size
  BY CommandsFit, Staging!ContentsType
<1>4. Staging!Contents = << >> <=> Len(Staging!Contents) = 0
  BY <1>3
<1> QED
  BY <1>2, <1>3, <1>4

LEMMA ClearedIsEmpty ==
    ASSUME Staging!TypeOK, staged_tail = 0, Staging!ClearStoreHead, producer.pc = "idle",
           Staging!TypeOK'
    PROVE  Staging!IInv' /\ Staging!Contents' = << >>
<1>1. /\ staged_head' = 0 /\ staged_tail' = 0 /\ consumer'.pc = "idle" /\ consumer'.avail = FALSE
      /\ producer' = producer
  BY DEF Staging!ClearStoreHead, Staging!ProdSide, Staging!TypeOK
<1>2. 0 \in Staging!Slots /\ Staging!increment(0) # 0
  <2>1. 0 \in Staging!Slots
    BY CommandsFit DEF Staging!Slots, Staging!kCapacity
  <2> QED
    BY <2>1, CommandsFit, Staging!Increment
<1>3. Staging!ProdInv'
  BY <1>1, <1>2 DEF Staging!ProdInv
<1>4. Staging!ConsInv'
  BY <1>1 DEF Staging!ConsInv
<1>5. Staging!SlotsInv'
  BY <1>1, CommandsFit DEF Staging!SlotsInv, Staging!Queued, Staging!Slots, Staging!kCapacity
<1>6. Staging!IInv'
  BY <1>3, <1>4, <1>5 DEF Staging!IInv
<1>7. Staging!size' = 0
  BY <1>1 DEF Staging!size
<1>8. Staging!Contents' = << >>
  BY <1>7 DEF Staging!Contents
<1> QED
  BY <1>6, <1>8
--------------------------------------------------------------------------------
(* The UI and the worker take turns; the ring is then in no call of both,  *)
(* and no call fails.                                                      *)
InTurn ==
    /\ transfer = "idle" \/ dispatch = "parked"
    /\ IF consumer.pc = "clear_head" THEN staged_tail = 0 ELSE Staging!IInv
    /\ transfer = "push" => Staging!increment(staged_tail) # staged_head
    /\ dispatch = "pop" => staged_head # staged_tail
    /\ dispatch = "execute" => taken \in Commands!Command
    /\ dispatch \in {"clear", "exit"} => Commands!Staged = << >>

(* The commands accepted and not yet dispatched, in order.                 *)
Undispatched == Commands!WorkerHand \o Commands!Staged \o Commands!UIHand \o pending

DataOf(cmd) == IF cmd.kind = "save" THEN cmd.id ELSE Commands!NoData

(* The data of a queue of commands, its numbers, its Terminate.            *)
DataAlong(q) == [i \in DOMAIN q |-> DataOf(q[i])]
Numbered(q) == \A i \in DOMAIN q : q[i].id = i /\ q[i].text = TRUE
EndsLast(q) == \A i \in DOMAIN q : q[i].kind = "terminate" => i = Len(q)
NeverEnds(q) == \A i \in DOMAIN q : q[i].kind # "terminate"
Paired(entries) == \A i \in DOMAIN entries : entries[i].data = DataOf(entries[i].cmd)

(* All that was accepted was dispatched or is on its way, in the order     *)
(* queued; its data are in that order too; and a Terminate is the last     *)
(* command until the thread has ended.                                     *)
Lined ==
    /\ accepted = Commands!Dispatched \o Undispatched
    /\ Numbered(accepted)
    /\ EndsLast(Undispatched)
    /\ stopping = "no" => NeverEnds(Undispatched)
    /\ dispatch = "exit" => pending = << >> /\ stopping # "no"
    /\ stagedData \o pendingData = DataAlong(Undispatched)
    /\ Paired(log)

(* Between transfers as many data are staged as commands.                  *)
DataInStep ==
    /\ transfer = "idle" => Len(stagedData) = Len(Commands!WorkerHand) + Len(Commands!Staged)
    /\ transfer # "idle" => Len(stagedData) <= Len(Commands!Staged)
    /\ transfer = "data" => pending = << >> \/ Len(Commands!Staged) = QueueSize

TurnInv == InTurn /\ Lined /\ DataInStep

(* The parts of the line are sequences of commands.                        *)
LEMMA PartsOfLine ==
    ASSUME Commanded, InTurn
    PROVE  /\ Commands!WorkerHand \in Seq(Commands!Command)
           /\ Commands!Staged \in Seq(Commands!Command)
           /\ Commands!UIHand \in Seq(Commands!Command)
           /\ pending \in Seq(Commands!Command)
           /\ Undispatched \in Seq(Commands!Command)
           /\ Len(Undispatched) = Len(Commands!WorkerHand) + Len(Commands!Staged)
                                      + Len(Commands!UIHand) + Len(pending)
<1>1. Commands!WorkerHand \in Seq(Commands!Command)
  BY DEF Commands!WorkerHand, InTurn
<1>2. Commands!Staged \in Seq(Commands!Command)
  BY RingIndices, RingOfCommands DEF Commands!Staged, InTurn
<1>3. Commands!UIHand \in Seq(Commands!Command)
  <2>1. CASE consumer.pc = "clear_head"
    <3>1. producer.pc = "idle"
      BY <2>1 DEF InTurn, Commanded, DispatchInv, TransferInv
    <3> QED
      BY <3>1 DEF Commands!UIHand
  <2>2. CASE consumer.pc # "clear_head"
    BY <2>2 DEF Commands!UIHand, InTurn, Staging!IInv, Staging!ProdInv
  <2> QED
    BY <2>1, <2>2
<1>4. pending \in Seq(Commands!Command)
  BY DEF Commanded, QueuesTyped
<1> QED
  BY <1>1, <1>2, <1>3, <1>4, LineIs DEF Undispatched

(* Nobody is at the queues.                                                *)
LEMMA IdleUI ==
    ASSUME Commanded, transfer \in {"idle", "data"}
    PROVE  producer.pc = "idle" /\ Commands!UIHand = << >>
BY DEF Commanded, TransferInv, Commands!UIHand

LEMMA ParkedWorker ==
    ASSUME Commanded, dispatch = "parked"
    PROVE  consumer.pc = "idle" /\ Commands!WorkerHand = << >>
BY DEF Commanded, DispatchInv, Commands!WorkerHand

(* A step that hands a command on leaves the line as it is.                *)
LEMMA LineStays ==
    ASSUME Lined, Undispatched' = Undispatched,
           (stagedData \o pendingData)' = stagedData \o pendingData,
           UNCHANGED <<accepted, log>>,
           stopping' = stopping \/ stopping' # "no",
           dispatch' = "exit" => dispatch = "exit" /\ UNCHANGED <<pending, stopping>>
    PROVE  Lined'
<1>1. Commands!Dispatched' = Commands!Dispatched
  BY DEF Commands!Dispatched
<1>2. /\ Numbered(accepted)' = Numbered(accepted) /\ Paired(log)' = Paired(log)
  BY DEF Numbered, Paired
<1>3. /\ EndsLast(Undispatched)' = EndsLast(Undispatched)
      /\ NeverEnds(Undispatched)' = NeverEnds(Undispatched)
      /\ DataAlong(Undispatched)' = DataAlong(Undispatched)
  BY Zenon DEF EndsLast, NeverEnds, DataAlong
<1> QED
  BY <1>1, <1>2, <1>3 DEF Lined

LEMMA DataGrows ==
    ASSUME NEW q \in Seq(Commands!Command), NEW c \in Commands!Command
    PROVE  DataAlong(Append(q, c)) = Append(DataAlong(q), DataOf(c))
<1> DEFINE r == Append(q, c)
<1>1. /\ Len(q) \in Nat /\ DOMAIN q = 1 .. Len(q) /\ DOMAIN r = 1 .. Len(q) + 1
      /\ \A i \in 1 .. Len(q) : r[i] = q[i]
      /\ r[Len(q) + 1] = c
  OBVIOUS
<1> HIDE DEF r
<1>2. \A d \in Commands!Command : DataOf(d) \in Images
  BY QueueSizes DEF Commands!Command, DataOf, Images, Commands!NoData
<1>3. DataAlong(q) \in Seq(Images) /\ Len(DataAlong(q)) = Len(q)
  <2>1. \A i \in 1 .. Len(q) : DataOf(q[i]) \in Images
    BY <1>2
  <2> QED
    BY <1>1, <2>1 DEF DataAlong
<1>4. DataAlong(r) \in Seq(Images) /\ Len(DataAlong(r)) = Len(q) + 1
  <2>1. \A i \in 1 .. Len(q) + 1 : DataOf(r[i]) \in Images
    BY <1>1, <1>2
  <2> QED
    BY <1>1, <2>1 DEF DataAlong
<1> DEFINE s == Append(DataAlong(q), DataOf(c))
<1>5. /\ s \in Seq(Images) /\ Len(s) = Len(q) + 1
      /\ \A i \in 1 .. Len(q) : s[i] = DataAlong(q)[i]
      /\ s[Len(q) + 1] = DataOf(c)
  BY <1>2, <1>3
<1> HIDE DEF s
<1>6. \A i \in 1 .. Len(q) + 1 : DataAlong(r)[i] = s[i]
  <2> SUFFICES ASSUME NEW i \in 1 .. Len(q) + 1 PROVE DataAlong(r)[i] = s[i]
    OBVIOUS
  <2>1. DataAlong(r)[i] = DataOf(r[i])
    BY <1>1 DEF DataAlong
  <2>2. CASE i \in 1 .. Len(q)
    BY <2>1, <2>2, <1>1, <1>5 DEF DataAlong
  <2>3. CASE i = Len(q) + 1
    BY <2>1, <2>3, <1>1, <1>5
  <2> QED
    BY <1>1, <2>2, <2>3
<1>7. DataAlong(r) = s
  BY <1>4, <1>5, <1>6, SeqEqual
<1> QED
  BY <1>7 DEF r, s

LEMMA DataShrinks ==
    ASSUME NEW q \in Seq(Commands!Command), q # << >>
    PROVE  /\ DataAlong(q) # << >> /\ Head(DataAlong(q)) = DataOf(Head(q))
           /\ Tail(DataAlong(q)) = DataAlong(Tail(q))
<1> DEFINE r == Tail(q)
<1>1. /\ Len(q) \in Nat \ {0} /\ DOMAIN q = 1 .. Len(q)
      /\ r \in Seq(Commands!Command) /\ DOMAIN r = 1 .. Len(q) - 1
      /\ \A i \in 1 .. Len(q) - 1 : r[i] = q[i + 1]
      /\ Head(q) = q[1]
  OBVIOUS
<1> HIDE DEF r
<1>2. \A d \in Commands!Command : DataOf(d) \in Images
  BY QueueSizes DEF Commands!Command, DataOf, Images, Commands!NoData
<1>3. DataAlong(q) \in Seq(Images) /\ Len(DataAlong(q)) = Len(q)
  <2>1. \A i \in 1 .. Len(q) : DataOf(q[i]) \in Images
    BY <1>2
  <2> QED
    BY <1>1, <2>1 DEF DataAlong
<1>4. DataAlong(r) \in Seq(Images) /\ Len(DataAlong(r)) = Len(q) - 1
  <2>1. \A i \in 1 .. Len(q) - 1 : DataOf(r[i]) \in Images
    BY <1>1, <1>2
  <2> QED
    BY <1>1, <2>1 DEF DataAlong
<1>5. /\ \A i \in 1 .. Len(q) : DataAlong(q)[i] = DataOf(q[i])
      /\ \A i \in 1 .. Len(q) - 1 : DataAlong(r)[i] = DataOf(q[i + 1])
  BY <1>1 DEF DataAlong
<1> DEFINE s == DataAlong(q)
<1> HIDE DEF s
<1>6. s # << >> /\ Head(s) = s[1]
  BY <1>1, <1>3 DEF s
<1>7. /\ Tail(s) \in Seq(Images) /\ Len(Tail(s)) = Len(q) - 1
      /\ \A i \in 1 .. Len(q) - 1 : Tail(s)[i] = s[i + 1]
  BY <1>1, <1>3, <1>6, HeadTailProperties DEF s
<1>8. \A i \in 1 .. Len(q) - 1 : Tail(s)[i] = DataAlong(r)[i]
  BY <1>1, <1>5, <1>7 DEF s
<1>9. Tail(s) = DataAlong(r)
  BY <1>1, <1>4, <1>7, <1>8, SeqEqual
<1> QED
  BY <1>1, <1>5, <1>6, <1>9 DEF s, r

LEMMA EndGrows ==
    ASSUME NEW q \in Seq(Commands!Command), NEW c \in Commands!Command, NeverEnds(q)
    PROVE  /\ EndsLast(Append(q, c))
           /\ c.kind # "terminate" => NeverEnds(Append(q, c))
<1> DEFINE r == Append(q, c)
<1>1. /\ Len(q) \in Nat /\ DOMAIN q = 1 .. Len(q) /\ DOMAIN r = 1 .. Len(q) + 1
      /\ Len(r) = Len(q) + 1
      /\ \A i \in 1 .. Len(q) : r[i] = q[i]
      /\ r[Len(q) + 1] = c
  OBVIOUS
<1> HIDE DEF r
<1>2. EndsLast(r) /\ (c.kind # "terminate" => NeverEnds(r))
  BY <1>1 DEF EndsLast, NeverEnds
<1> QED
  BY <1>2 DEF r

LEMMA EndShrinks ==
    ASSUME NEW q \in Seq(Commands!Command), q # << >>, EndsLast(q)
    PROVE  /\ EndsLast(Tail(q)) /\ (NeverEnds(q) => NeverEnds(Tail(q)))
           /\ Head(q).kind = "terminate" => Tail(q) = << >> /\ ~NeverEnds(q)
<1> DEFINE r == Tail(q)
<1>1. /\ Len(q) \in Nat \ {0} /\ DOMAIN q = 1 .. Len(q)
      /\ r \in Seq(Commands!Command) /\ DOMAIN r = 1 .. Len(q) - 1 /\ Len(r) = Len(q) - 1
      /\ \A i \in 1 .. Len(q) - 1 : r[i] = q[i + 1]
      /\ Head(q) = q[1]
  OBVIOUS
<1> HIDE DEF r
<1>2. EndsLast(r) /\ (NeverEnds(q) => NeverEnds(r))
  <2>1. ASSUME NEW i \in DOMAIN r PROVE i + 1 \in DOMAIN q /\ r[i] = q[i + 1] /\ i \in Nat
    BY <1>1
  <2>2. NeverEnds(q) => NeverEnds(r)
    BY <2>1 DEF NeverEnds
  <2>3. ASSUME NEW i \in DOMAIN r, r[i].kind = "terminate" PROVE i = Len(r)
    <3>1. i + 1 = Len(q)
      BY <2>1, <2>3 DEF EndsLast
    <3> QED
      BY <1>1, <2>1, <3>1
  <2> QED
    BY <2>2, <2>3 DEF EndsLast
<1>3. Head(q).kind = "terminate" => r = << >> /\ ~NeverEnds(q)
  <2> SUFFICES ASSUME Head(q).kind = "terminate" PROVE r = << >> /\ ~NeverEnds(q)
    OBVIOUS
  <2>1. 1 \in DOMAIN q /\ q[1].kind = "terminate"
    BY <1>1
  <2>2. ~NeverEnds(q)
    BY <2>1 DEF NeverEnds
  <2>3. 1 = Len(q)
    BY <2>1 DEF EndsLast
  <2>4. Len(r) = 0
    BY <1>1, <2>3
  <2>5. r = << >>
    BY <1>1, <2>4, EmptySeq
  <2> QED
    BY <2>2, <2>5
<1> QED
  BY <1>2, <1>3 DEF r

LEMMA NumbersGrow ==
    ASSUME NEW q \in Seq(Commands!Command), NEW c \in Commands!Command, Numbered(q),
           c.id = Len(q) + 1, c.text = TRUE
    PROVE  Numbered(Append(q, c))
BY DEF Numbered

(* What was dispatched are commands, some of type Undefined.               *)
LEMMA DispatchedIs ==
    ASSUME Commanded
    PROVE  Commands!Dispatched \in Seq(Commands!Command \cup {Commands!NoCommand})
<1>1. log \in Seq(Commands!Entry)
  BY DEF Commanded, QueuesTyped
<1>2. Commands!Dispatched = [i \in 1 .. Len(log) |-> log[i].cmd] /\ Len(log) \in Nat
  BY <1>1 DEF Commands!Dispatched
<1>3. \A e \in Commands!Entry : e.cmd \in Commands!Command \cup {Commands!NoCommand}
  BY DEF Commands!Entry
<1>4. \A i \in 1 .. Len(log) : log[i].cmd \in Commands!Command \cup {Commands!NoCommand}
  BY <1>1, <1>3
<1> QED
  BY <1>2, <1>4

LEMMA RingStays ==
    ASSUME UNCHANGED Commands!ringVars
    PROVE  /\ Staging!IInv' = Staging!IInv /\ Commands!Staged' = Commands!Staged
           /\ Commands!UIHand' = Commands!UIHand
           /\ Staging!increment(staged_tail)' = Staging!increment(staged_tail)
           /\ UNCHANGED <<staged_head, staged_tail, producer, consumer, taken>>
<1> USE DEF Commands!ringVars
<1>1. Staging!IInv' = Staging!IInv
  BY DEF Staging!IInv, Staging!TypeOK, Staging!ProdInv, Staging!ConsInv, Staging!SlotsInv,
         Staging!Queued, Staging!increment
<1>2. Commands!Staged' = Commands!Staged
  <2>1. Commands!Ring!Contents' = Commands!Ring!Contents
    BY DEF Commands!Ring!Contents, Commands!Ring!at, Commands!Ring!size
  <2> QED
    BY <2>1 DEF Commands!Staged
<1>4. Commands!UIHand' = Commands!UIHand
  BY DEF Commands!UIHand
<1>5. Staging!increment(staged_tail)' = Staging!increment(staged_tail)
  BY DEF Staging!increment
<1> QED
  BY <1>1, <1>2, <1>4, <1>5

(* With the same ring and the worker where it was.                         *)
LEMMA TurnStays ==
    ASSUME InTurn, UNCHANGED <<Commands!ringVars, dispatch>>,
           transfer' = "idle" \/ dispatch' = "parked", transfer' # "push"
    PROVE  InTurn' /\ Commands!WorkerHand' = Commands!WorkerHand
<1>1. Commands!WorkerHand' = Commands!WorkerHand
  BY RingStays DEF Commands!WorkerHand
<1>2. InTurn'
  BY RingStays DEF InTurn
<1> QED
  BY <1>1, <1>2

(* Queue(kind): the command and its data join the end, or neither does.    *)
LEMMA QueueInTurn ==
    ASSUME Commanded, TurnInv, NEW kind \in Kinds, Commands!Queue(kind)
    PROVE  TurnInv'
<1> USE DEF TurnInv
<1> DEFINE cmd == [id |-> Len(accepted) + 1, kind |-> kind, text |-> TRUE]
           data == IF kind = "save" THEN cmd.id ELSE Commands!NoData
<1>1. /\ transfer = "idle" /\ stopping = "no" /\ Len(accepted) < MaxSent
      /\ pending' = Commands!Pushed(pending, cmd)
      /\ pendingData' = Commands!Pushed(pendingData, data)
      /\ accepted' = IF Len(pending) < QueueSize THEN Append(accepted, cmd) ELSE accepted
      /\ stopping' = IF kind = "terminate" THEN "sync" ELSE "no"
      /\ UNCHANGED <<Commands!ringVars, Commands!workerVars, transfer, stagedData>>
  BY DEF Commands!Queue
<1>2. /\ cmd \in Commands!Command /\ data \in Images /\ data = DataOf(cmd)
      /\ cmd.id = Len(accepted) + 1 /\ cmd.text = TRUE /\ cmd.kind = kind
  <2>1. Len(accepted) \in Nat
    BY DEF Commanded, QueuesTyped
  <2>2. cmd \in Commands!Command
    BY <1>1, <2>1, QueueSizes DEF Commands!Command
  <2>3. data \in Images
    BY <1>1, <2>1, QueueSizes DEF Images, Commands!NoData
  <2>4. cmd.id = Len(accepted) + 1 /\ cmd.text = TRUE /\ cmd.kind = kind
    BY Zenon
  <2>5. data = DataOf(cmd)
    BY <2>4 DEF DataOf
  <2> QED
    BY <2>2, <2>3, <2>4, <2>5
<1> HIDE DEF cmd, data
<1>3. /\ Commands!UIHand = << >> /\ dispatch' = dispatch /\ log' = log
      /\ dispatch # "exit"
  BY <1>1, IdleUI DEF Commands!workerVars, Lined
<1>4. InTurn' /\ Commands!WorkerHand' = Commands!WorkerHand /\ Commands!Staged' = Commands!Staged
      /\ Commands!UIHand' = Commands!UIHand
  BY <1>1, <1>3, TurnStays, RingStays DEF InTurn
<1>5. DataInStep'
  BY <1>1, <1>4 DEF DataInStep
<1> DEFINE front == Commands!WorkerHand \o Commands!Staged \o Commands!UIHand
           line == Undispatched
           given == stagedData \o pendingData
<1>6. /\ front \in Seq(Commands!Command) /\ pending \in Seq(Commands!Command)
      /\ line \in Seq(Commands!Command) /\ line = front \o pending
      /\ stagedData \in Seq(Images) /\ pendingData \in Seq(Images)
  <2>1. /\ Commands!WorkerHand \in Seq(Commands!Command) /\ Commands!Staged \in Seq(Commands!Command)
        /\ Commands!UIHand \in Seq(Commands!Command) /\ pending \in Seq(Commands!Command)
        /\ Undispatched \in Seq(Commands!Command)
    BY PartsOfLine
  <2>2. Commands!WorkerHand \o Commands!Staged \in Seq(Commands!Command)
    BY <2>1, ConcatProperties
  <2>3. front \in Seq(Commands!Command)
    BY <2>1, <2>2, ConcatProperties
  <2> QED
    BY <2>1, <2>3 DEF Undispatched, Commanded, QueuesTyped
<1>7. Undispatched' = front \o pending'
  BY <1>4 DEF Undispatched
<1>8. Len(pendingData) = Len(pending) /\ Len(pending) \in Nat
  <2>1. Len(line) = Len(Commands!WorkerHand) + Len(Commands!Staged) + 0 + Len(pending)
    <3>1. Len(<< >>) = 0
      OBVIOUS
    <3> QED
      BY <3>1, <1>3, PartsOfLine
  <2>2. Len(given) = Len(stagedData) + Len(pendingData)
    BY <1>6, ConcatProperties
  <2>3. Len(given) = Len(line)
    <3>1. given = DataAlong(line)
      BY DEF Lined
    <3>2. DOMAIN line = 1 .. Len(line) /\ Len(line) \in Nat
      BY <1>6
    <3>3. given \in Seq(Images)
      BY <1>6, ConcatProperties
    <3> HIDE DEF given, line
    <3> QED
      BY <3>1, <3>2, <3>3 DEF DataAlong
  <2>4. Len(stagedData) = Len(Commands!WorkerHand) + Len(Commands!Staged)
    BY <1>1 DEF DataInStep
  <2>5. /\ Len(stagedData) \in Nat /\ Len(pendingData) \in Nat /\ Len(pending) \in Nat
    BY <1>6
  <2> QED
    BY <2>1, <2>2, <2>3, <2>4, <2>5
<1>9. CASE Len(pending) < QueueSize
  <2>1. /\ pending' = Append(pending, cmd) /\ pendingData' = Append(pendingData, data)
        /\ accepted' = Append(accepted, cmd)
    BY <1>1, <1>8, <1>9 DEF Commands!Pushed
  <2>2. Undispatched' = Append(line, cmd)
    <3>1. AreSeqs(Commands!Command, front, pending, << cmd >>)
      BY <1>2, <1>6 DEF AreSeqs
    <3>2. front \o Append(pending, cmd) = Append(front \o pending, cmd)
      BY <1>2, <3>1, QueuedLast
    <3> QED
      BY <1>6, <1>7, <2>1, <3>2
  <2>3. (stagedData \o pendingData)' = Append(given, data)
    <3>1. (stagedData \o pendingData)' = stagedData \o Append(pendingData, data)
      BY <1>1, <2>1
    <3>2. AreSeqs(Images, stagedData, pendingData, << data >>)
      BY <1>2, <1>6 DEF AreSeqs
    <3>3. stagedData \o Append(pendingData, data) = Append(stagedData \o pendingData, data)
      BY <1>2, <3>2, QueuedLast
    <3> QED
      BY <3>1, <3>3
  <2> DEFINE put == Commands!Dispatched
  <2>4. put' = put
    BY <1>3 DEF Commands!Dispatched
  <2>5. /\ accepted = put \o line /\ Numbered(accepted) /\ NeverEnds(line)
        /\ given = DataAlong(line) /\ Paired(log)
    BY <1>1 DEF Lined
  <2>6. accepted \in Seq(Commands!Command)
    BY DEF Commanded, QueuesTyped
  <2>7. accepted' = put \o Append(line, cmd)
    <3> DEFINE both == Commands!Command \cup {Commands!NoCommand}
    <3>1. line \in Seq(both) /\ cmd \in both
      BY <1>2, <1>6, SeqMonotonic
    <3>2. put \in Seq(both)
      BY DispatchedIs
    <3> HIDE DEF both, line, put
    <3>3. put \o Append(line, cmd) = Append(put \o line, cmd)
      BY <3>1, <3>2, QueuedLast
    <3> QED
      BY <2>1, <2>5, <3>3
  <2>8. Numbered(accepted')
    BY <1>2, <2>1, <2>5, <2>6, NumbersGrow
  <2>9. EndsLast(Append(line, cmd)) /\ (stopping' = "no" => NeverEnds(Append(line, cmd)))
    BY <1>1, <1>2, <1>6, <2>5, EndGrows
  <2>10. Append(given, data) = DataAlong(Append(line, cmd))
    BY <1>2, <1>6, <2>5, DataGrows
  <2> HIDE DEF line, given, put
  <2>11. Lined'
    BY <1>3, <2>2, <2>3, <2>4, <2>5, <2>7, <2>8, <2>9, <2>10 DEF Lined, put
  <2> QED
    BY <1>4, <1>5, <2>11
<1>10. CASE ~(Len(pending) < QueueSize)
  <2>1. /\ pending' = pending /\ pendingData' = pendingData /\ accepted' = accepted
    BY <1>1, <1>8, <1>10 DEF Commands!Pushed
  <2>2. Undispatched' = Undispatched /\ (stagedData \o pendingData)' = given
    BY <1>1, <1>7, <2>1 DEF Undispatched
  <2>3. Lined'
    BY <1>1, <1>3, <2>1, <2>2, LineStays
  <2> QED
    BY <1>4, <1>5, <2>3
<1> QED
  BY <1>9, <1>10

LEMMA StagedFits == Staging!IInv => Len(Staging!Contents) <= QueueSize
<1> SUFFICES ASSUME Staging!IInv PROVE Len(Staging!Contents) <= QueueSize
  OBVIOUS
<1>1. Staging!TypeOK
  BY DEF Staging!IInv
<1>2. Staging!size \in 0 .. QueueSize
  BY <1>1, CommandsFit, Staging!SizeOf
<1>3. Len(Staging!Contents) = Staging!size
  BY CommandsFit, Staging!ContentsType
<1> QED
  BY <1>2, <1>3, CommandsFit


(* A transfer, while the worker is parked: what the UI takes from one      *)
(* queue and puts in the other stays in line.                              *)
LEMMA TransferParked ==
    ASSUME Commanded, InTurn, transfer # "idle"
    PROVE  /\ dispatch = "parked" /\ consumer.pc = "idle" /\ Staging!IInv
           /\ Commands!WorkerHand = << >> /\ Commands!Staged = Staging!Contents
<1>1. dispatch = "parked"
  BY DEF InTurn
<1>2. consumer.pc = "idle" /\ Commands!WorkerHand = << >>
  BY <1>1, ParkedWorker
<1> QED
  BY <1>1, <1>2, RingOfCommands DEF InTurn, Commands!Staged

LEMMA StillParked ==
    ASSUME Commanded, InTurn, transfer # "idle", UNCHANGED <<Commands!workerVars, consumer>>
    PROVE  /\ dispatch' = "parked" /\ Commands!WorkerHand' = Commands!WorkerHand
           /\ Commands!Staged' = Staging!Contents'
<1>1. dispatch = "parked" /\ consumer.pc = "idle" /\ Commands!WorkerHand = << >>
  BY TransferParked
<1>2. dispatch' = "parked" /\ consumer'.pc = "idle"
  BY <1>1 DEF Commands!workerVars
<1>3. Commands!Ring!Contents' = Staging!Contents'
  BY DEF Commands!Ring!Contents, Staging!Contents, Commands!Ring!at, Staging!at, Commands!Ring!size,
         Staging!size, Commands!Ring!kCapacity, Staging!kCapacity
<1> QED
  BY <1>1, <1>2, <1>3 DEF Commands!WorkerHand, Commands!Staged

LEMMA BeginTransferInTurn ==
    ASSUME Commanded, TurnInv, Commands!BeginTransfer, transfer' = "idle" \/ dispatch' = "parked"
    PROVE  TurnInv'
<1> USE DEF TurnInv
<1>1. /\ transfer = "idle" /\ transfer' = "check"
      /\ UNCHANGED <<Commands!ringVars, Commands!workerVars, pending, pendingData, stopping,
                     accepted, stagedData>>
  BY DEF Commands!BeginTransfer
<1>2. dispatch' = dispatch /\ dispatch = "parked" /\ log' = log
  BY <1>1 DEF Commands!workerVars
<1>3. /\ InTurn' /\ Commands!WorkerHand' = Commands!WorkerHand
      /\ Commands!Staged' = Commands!Staged /\ Commands!UIHand' = Commands!UIHand
  BY <1>1, <1>2, TurnStays, RingStays
<1>4. Lined'
  <2>1. Undispatched' = Undispatched /\ (stagedData \o pendingData)' = stagedData \o pendingData
    BY <1>1, <1>3 DEF Undispatched
  <2> QED
    BY <1>1, <1>2, <2>1, LineStays
<1>5. DataInStep'
  <2>1. Len(Commands!WorkerHand) = 0
    BY <1>2, ParkedWorker
  <2>2. Len(Commands!Staged) \in Nat /\ Len(stagedData) \in Nat
    BY PartsOfLine DEF Commanded, QueuesTyped
  <2> QED
    BY <1>1, <1>3, <2>1, <2>2 DEF DataInStep
<1> QED
  BY <1>3, <1>4, <1>5

LEMMA IsFullInTurn ==
    ASSUME Commanded, TurnInv, Commands!IsFull
    PROVE  TurnInv'
<1> USE DEF TurnInv
<1>1. /\ transfer = "check"
      /\ \/ Staging!IsFullLoadTail /\ transfer' = "check"
         \/ /\ Staging!IsFullLoadHead
            /\ transfer' = IF producer'.room /\ pending # <<>> THEN "push" ELSE "data"
      /\ UNCHANGED <<Commands!workerVars, pending, pendingData, stopping, accepted, stagedData>>
  BY CallsOfUI DEF Commands!IsFull
<1>2. /\ Staging!IInv /\ Commands!Staged = Staging!Contents /\ consumer.pc = "idle"
  BY <1>1, TransferParked
<1>3. Staging!IInv' /\ Staging!Contents' = Staging!Contents
  BY <1>1, <1>2, CommandsFit, UICallStutters
<1>4. /\ consumer' = consumer /\ staged_tail' = staged_tail /\ staged_head' = staged_head
      /\ producer.pc \in {"idle", "full_head"} /\ producer'.pc \in {"idle", "full_head"}
  BY <1>1 DEF Staging!IsFullLoadTail, Staging!IsFullLoadHead, Staging!ConsSide, Commanded,
              Staging!TypeOK
<1>5. /\ dispatch' = "parked" /\ Commands!WorkerHand' = Commands!WorkerHand
      /\ Commands!Staged' = Commands!Staged
  BY <1>1, <1>2, <1>3, <1>4, StillParked
<1>6. Commands!UIHand = << >> /\ Commands!UIHand' = << >>
  BY <1>4 DEF Commands!UIHand
<1>7. InTurn'
  <2>1. transfer' = "push" => Staging!increment(staged_tail') # staged_head'
    BY <1>1, <1>3 DEF Staging!IInv, Staging!ProdInv
  <2> QED
    BY <1>2, <1>3, <1>4, <1>5, <2>1 DEF InTurn
<1>8. Lined'
  <2>1. Undispatched' = Undispatched /\ (stagedData \o pendingData)' = stagedData \o pendingData
    BY <1>1, <1>5, <1>6 DEF Undispatched
  <2> QED
    BY <1>1, <1>5, <2>1, LineStays DEF Commands!workerVars
<1>9. DataInStep'
  <2>1. transfer' = "data" => pending = << >> \/ Len(Commands!Staged) = QueueSize
    <3> SUFFICES ASSUME transfer' = "data", pending # << >>
                 PROVE  Len(Commands!Staged) = QueueSize
      OBVIOUS
    <3>1. Staging!IsFullLoadHead /\ ~producer'.room
      BY <1>1
    <3>2. Staging!increment(producer.tail) = staged_head /\ producer.pc = "full_head"
      BY <3>1 DEF Staging!IsFullLoadHead, Commanded, Staging!TypeOK
    <3>3. producer.tail = staged_tail
      BY <1>2, <3>2 DEF Staging!IInv, Staging!ProdInv
    <3> QED
      BY <1>2, <3>2, <3>3, RingIndices
  <2> QED
    BY <1>1, <1>5, <2>1 DEF DataInStep
<1> QED
  BY <1>7, <1>8, <1>9

LEMMA PopOtherInTurn ==
    ASSUME Commanded, TurnInv, Commands!PopOther
    PROVE  TurnInv'
<1> USE DEF TurnInv
<1>1. /\ transfer = "push" /\ transfer' = transfer
      /\ Staging!PushLoadTail(Head(pending)) /\ pending' = Tail(pending)
      /\ UNCHANGED <<Commands!workerVars, pendingData, stopping, accepted, stagedData>>
  BY CallsOfUI DEF Commands!PopOther
<1>2. /\ Staging!IInv /\ Commands!Staged = Staging!Contents /\ consumer.pc = "idle"
  BY <1>1, TransferParked
<1>3. /\ consumer' = consumer /\ staged_tail' = staged_tail /\ staged_head' = staged_head
      /\ producer.pc = "idle" /\ producer'.pc = "push_head" /\ producer'.item = Head(pending)
  BY <1>1 DEF Staging!PushLoadTail, Staging!ConsSide, Commanded, Staging!TypeOK
<1>4. pending # << >> /\ pending \in Seq(Commands!Command)
  BY <1>1, <1>3 DEF Commanded, TransferInv, QueuesTyped
<1>5. Head(pending) \in Commands!Command
  BY <1>4
<1>6. Staging!IInv' /\ Staging!Contents' = Staging!Contents
  BY <1>1, <1>2, <1>5, UICallStutters
<1>7. /\ dispatch' = "parked" /\ Commands!WorkerHand' = Commands!WorkerHand
      /\ Commands!Staged' = Commands!Staged
  BY <1>1, <1>2, <1>3, <1>6, StillParked
<1>8. Commands!UIHand = << >> /\ Commands!UIHand' = << Head(pending) >>
  BY <1>3 DEF Commands!UIHand
<1>9. InTurn'
  BY <1>1, <1>2, <1>3, <1>6, <1>7 DEF InTurn, Staging!increment, Staging!kCapacity
<1>10. Lined'
  <2>1. Undispatched' = Commands!WorkerHand \o Commands!Staged \o << Head(pending) >> \o Tail(pending)
    BY <1>1, <1>7, <1>8 DEF Undispatched
  <2>2. Undispatched = Commands!WorkerHand \o Commands!Staged \o << >> \o pending
    BY <1>8 DEF Undispatched
  <2>3. Commands!WorkerHand \in Seq(Commands!Command) /\ Commands!Staged \in Seq(Commands!Command)
    BY PartsOfLine
  <2>4. Undispatched' = Undispatched
    <3>1. AreSeqs(Commands!Command, Commands!WorkerHand, Commands!Staged, pending)
      BY <1>4, <2>3 DEF AreSeqs
    <3> QED
      BY <1>4, <2>1, <2>2, <3>1, UITakes
  <2>5. (stagedData \o pendingData)' = stagedData \o pendingData
    BY <1>1
  <2> QED
    BY <1>1, <1>7, <2>4, <2>5, LineStays DEF Commands!workerVars
<1>11. DataInStep'
  BY <1>1, <1>7 DEF DataInStep
<1> QED
  BY <1>9, <1>10, <1>11

LEMMA PushStagedInTurn ==
    ASSUME Commanded, TurnInv, Commands!PushStaged
    PROVE  TurnInv'
<1> USE DEF TurnInv
<1>1. /\ transfer = "push"
      /\ \/ (Staging!PushLoadHead \/ Staging!PushWrite) /\ transfer' = "push"
         \/ (Staging!PushStoreTail \/ Staging!PushFails) /\ transfer' = "check"
      /\ UNCHANGED <<Commands!workerVars, pending, pendingData, stopping, accepted, stagedData>>
  BY CallsOfUI DEF Commands!PushStaged
<1>2. /\ Staging!IInv /\ Commands!Staged = Staging!Contents /\ consumer.pc = "idle"
  BY <1>1, TransferParked
<1>3. ~Staging!PushFails
  BY <1>1, <1>2 DEF Staging!PushFails, InTurn, Staging!IInv, Staging!ProdInv
<1>4. CASE (Staging!PushLoadHead \/ Staging!PushWrite) /\ transfer' = "push"
  <2>1. Staging!IInv' /\ Staging!Contents' = Staging!Contents
    BY <1>2, <1>4, CommandsFit, UICallStutters
  <2>2. /\ consumer' = consumer /\ staged_tail' = staged_tail /\ staged_head' = staged_head
        /\ producer.pc \in {"push_head", "write", "publish"} /\ producer'.item = producer.item
        /\ producer'.pc \in {"push_head", "write", "publish"}
    BY <1>4 DEF Staging!PushLoadHead, Staging!PushWrite, Staging!ConsSide, Commanded,
                Staging!TypeOK
  <2>3. /\ dispatch' = "parked" /\ Commands!WorkerHand' = Commands!WorkerHand
        /\ Commands!Staged' = Commands!Staged
    BY <1>1, <1>2, <2>1, <2>2, StillParked
  <2>4. Commands!UIHand' = Commands!UIHand
    BY <2>2 DEF Commands!UIHand
  <2>5. InTurn'
    BY <1>1, <1>2, <2>1, <2>2, <2>3 DEF InTurn, Staging!increment, Staging!kCapacity
  <2>6. Lined'
    <3>1. Undispatched' = Undispatched /\ (stagedData \o pendingData)' = stagedData \o pendingData
      BY <1>1, <2>3, <2>4 DEF Undispatched
    <3> QED
      BY <1>1, <2>3, <3>1, LineStays DEF Commands!workerVars
  <2>7. DataInStep'
    BY <1>1, <1>4, <2>3 DEF DataInStep
  <2> QED
    BY <2>5, <2>6, <2>7
<1>5. CASE Staging!PushStoreTail /\ transfer' = "check"
  <2>1. /\ Staging!IInv' /\ Staging!Contents' = Append(Staging!Contents, producer.item)
    BY <1>2, <1>5, UIPublishes
  <2>2. /\ consumer' = consumer /\ producer.pc = "publish" /\ producer'.pc = "idle"
        /\ producer.item \in Commands!Command
    BY <1>2, <1>5 DEF Staging!PushStoreTail, Staging!ConsSide, Staging!IInv, Staging!ProdInv,
                      Staging!TypeOK
  <2>3. /\ dispatch' = "parked" /\ Commands!WorkerHand' = Commands!WorkerHand
        /\ Commands!Staged' = Append(Commands!Staged, producer.item)
    BY <1>1, <1>2, <2>1, <2>2, StillParked
  <2>4. Commands!UIHand = << producer.item >> /\ Commands!UIHand' = << >>
    BY <2>2 DEF Commands!UIHand
  <2>5. InTurn'
    BY <1>2, <1>5, <2>1, <2>2, <2>3 DEF InTurn
  <2>6. /\ Commands!WorkerHand \in Seq(Commands!Command) /\ Commands!Staged \in Seq(Commands!Command)
        /\ pending \in Seq(Commands!Command)
    BY PartsOfLine
  <2>7. Lined'
    <3>1. Undispatched' = Commands!WorkerHand \o Commands!Staged' \o << >> \o pending
      BY <1>1, <2>3, <2>4 DEF Undispatched
    <3>2. Undispatched = Commands!WorkerHand \o Commands!Staged \o Commands!UIHand \o pending
      BY DEF Undispatched
    <3>3. Undispatched' = Undispatched
      <4>1. Commands!Staged' = Commands!Staged \o Commands!UIHand
        BY <2>2, <2>3, <2>4, <2>6, AppendIsConcat
      <4>2. Commands!UIHand \in Seq(Commands!Command)
        BY PartsOfLine
      <4>3. AreSeqs(Commands!Command, Commands!WorkerHand, Commands!Staged, Commands!UIHand)
        BY <2>6, <4>2 DEF AreSeqs
      <4> QED
        BY <3>1, <3>2, <4>1, <4>3, UIGives
    <3>4. (stagedData \o pendingData)' = stagedData \o pendingData
      BY <1>1
    <3> QED
      BY <1>1, <2>3, <3>3, <3>4, LineStays DEF Commands!workerVars
  <2>8. DataInStep'
    <3>1. Len(Commands!Staged') = Len(Commands!Staged) + 1 /\ Len(Commands!Staged) \in Nat
      BY <2>2, <2>3, <2>6, AppendProperties, LenProperties
    <3>2. Len(stagedData) \in Nat
      BY DEF Commanded, QueuesTyped
    <3> QED
      BY <1>1, <1>5, <3>1, <3>2 DEF DataInStep
  <2> QED
    BY <2>5, <2>7, <2>8
<1> QED
  BY <1>1, <1>3, <1>4, <1>5

LEMMA TransferDataInTurn ==
    ASSUME Commanded, TurnInv, Commands!TransferData
    PROVE  TurnInv'
<1> USE DEF TurnInv
<1>1. /\ transfer = "data" /\ dispatch' = dispatch /\ log' = log
      /\ UNCHANGED <<Commands!ringVars, Commands!workerVars, pending, accepted>>
  BY DEF Commands!TransferData, Commands!workerVars
<1>2. /\ dispatch = "parked" /\ Commands!WorkerHand = << >> /\ Commands!UIHand = << >>
  BY <1>1, TransferParked, IdleUI
<1>3. transfer' \in {"data", "idle"}
  BY <1>1 DEF Commands!TransferData
<1>4. /\ InTurn' /\ Commands!WorkerHand' = Commands!WorkerHand
      /\ Commands!Staged' = Commands!Staged /\ Commands!UIHand' = Commands!UIHand
  BY <1>1, <1>2, <1>3, TurnStays, RingStays
<1>5. /\ stagedData \in Seq(Images) /\ pendingData \in Seq(Images)
      /\ Len(stagedData) \in Nat /\ Len(pendingData) \in Nat
      /\ Commands!Staged \in Seq(Commands!Command) /\ Len(Commands!Staged) \in Nat
      /\ Len(pending) \in Nat /\ Len(stagedData) <= QueueSize
  BY PartsOfLine DEF Commanded, QueuesTyped
<1>6. Undispatched' = Undispatched
  BY <1>1, <1>4 DEF Undispatched
<1>7. Len(stagedData) + Len(pendingData) = Len(Commands!Staged) + Len(pending)
  <2>1. stagedData \o pendingData = DataAlong(Undispatched)
    BY DEF Lined
  <2>2. /\ Undispatched \in Seq(Commands!Command)
        /\ Len(Undispatched) = 0 + Len(Commands!Staged) + 0 + Len(pending)
    <3>1. Len(<< >>) = 0
      OBVIOUS
    <3> QED
      BY <3>1, <1>2, PartsOfLine
  <2>3. /\ stagedData \o pendingData \in Seq(Images)
        /\ Len(stagedData \o pendingData) = Len(stagedData) + Len(pendingData)
    BY <1>5, ConcatProperties
  <2>4. Len(DataAlong(Undispatched)) = Len(Undispatched)
    <3>1. DOMAIN Undispatched = 1 .. Len(Undispatched) /\ Len(Undispatched) \in Nat
      BY <2>2
    <3>2. DataAlong(Undispatched) \in Seq(Images)
      BY <2>1, <2>3
    <3> QED
      BY <3>1, <3>2 DEF DataAlong
  <2>5. Len(stagedData \o pendingData) = Len(Undispatched)
    BY Zenon, <2>1, <2>4
  <2> QED
    BY <1>5, <2>2, <2>3, <2>5
<1>8. CASE Len(stagedData) < QueueSize /\ pendingData # <<>>
  <2>1. /\ stagedData' = Append(stagedData, Head(pendingData)) /\ pendingData' = Tail(pendingData)
        /\ UNCHANGED <<transfer, stopping>>
    BY <1>8 DEF Commands!TransferData
  <2>2. (stagedData \o pendingData)' = stagedData \o pendingData
    BY <1>5, <1>8, <2>1, OneMoves
  <2>3. Lined'
    BY <1>1, <1>2, <1>6, <2>1, <2>2, LineStays
  <2>4. DataInStep'
    <3>1. Len(stagedData') = Len(stagedData) + 1
      BY <1>5, <1>8, <2>1
    <3>2. Len(pendingData) > 0
      BY <1>5, <1>8
    <3>3. pending = << >> => Len(pending) = 0
      OBVIOUS
    <3>4. Len(stagedData) + 1 <= Len(Commands!Staged)
      BY <1>1, <1>5, <1>7, <1>8, <3>2, <3>3, QueueSizes DEF DataInStep
    <3> QED
      BY <1>1, <1>4, <2>1, <3>1, <3>4 DEF DataInStep
  <2> QED
    BY <1>4, <2>3, <2>4
<1>9. CASE ~(Len(stagedData) < QueueSize /\ pendingData # <<>>)
  <2>1. /\ stagedData' = stagedData /\ pendingData' = pendingData /\ transfer' = "idle"
        /\ stopping' = IF stopping = "sync" THEN "join" ELSE stopping
    BY <1>1, <1>9 DEF Commands!TransferData
  <2>2. (stagedData \o pendingData)' = stagedData \o pendingData
    BY <2>1
  <2>3. Lined'
    BY <1>1, <1>2, <1>6, <2>1, <2>2, LineStays
  <2>4. Len(stagedData) = Len(Commands!Staged)
    <3>1. Len(stagedData) <= Len(Commands!Staged)
      BY <1>1 DEF DataInStep
    <3>2. Len(Commands!Staged) <= QueueSize
      <4>1. Staging!IInv /\ Commands!Staged = Staging!Contents
        BY <1>1, TransferParked
      <4> QED
        BY <4>1, StagedFits
    <3>3. pendingData = << >> => Len(pendingData) = 0
      OBVIOUS
    <3> QED
      BY <1>5, <1>7, <1>9, <3>1, <3>2, <3>3, QueueSizes
  <2>5. DataInStep'
    <3>1. Len(Commands!WorkerHand') = 0
      BY <1>2, <1>4
    <3> QED
      BY <1>4, <1>5, <2>1, <2>4, <3>1 DEF DataInStep
  <2> QED
    BY <1>4, <2>3, <2>5
<1> QED
  BY <1>8, <1>9

(* A dispatch, while the UI is idle.                                       *)
LEMMA DispatchAlone ==
    ASSUME Commanded, InTurn, dispatch # "parked"
    PROVE  /\ transfer = "idle" /\ producer.pc = "idle" /\ Commands!UIHand = << >>
           /\ consumer.pc = "clear_head" => dispatch \in {"clear", "exit"} /\ staged_tail = 0
           /\ consumer.pc # "clear_head" => Staging!IInv /\ Commands!Staged = Staging!Contents
<1>1. transfer = "idle"
  BY DEF InTurn
<1>2. producer.pc = "idle" /\ Commands!UIHand = << >>
  BY <1>1, IdleUI
<1>3. consumer.pc = "clear_head" => dispatch \in {"clear", "exit"} /\ staged_tail = 0
  BY DEF Commanded, DispatchInv, PlacesTyped, InTurn
<1>4. consumer.pc # "clear_head" => Staging!IInv /\ Commands!Staged = Staging!Contents
  BY RingOfCommands DEF InTurn, Commands!Staged
<1> QED
  BY <1>1, <1>2, <1>3, <1>4

LEMMA StagedNext ==
    Commands!Staged' = IF consumer'.pc = "clear_head" THEN << >> ELSE Staging!Contents'
<1>1. Commands!Ring!Contents' = Staging!Contents'
  BY DEF Commands!Ring!Contents, Staging!Contents, Commands!Ring!at, Staging!at, Commands!Ring!size,
         Staging!size, Commands!Ring!kCapacity, Staging!kCapacity
<1> QED
  BY <1>1 DEF Commands!Staged

LEMMA WorkerMoves ==
    ASSUME Lined, DataInStep, transfer = "idle", UNCHANGED <<Commands!uiVars, stagedData, log>>,
           Undispatched' = Undispatched, dispatch' # "exit",
           Len(Commands!WorkerHand') + Len(Commands!Staged')
               = Len(Commands!WorkerHand) + Len(Commands!Staged)
    PROVE  Lined' /\ DataInStep'
<1>1. UNCHANGED <<transfer, stopping, accepted, pending, pendingData>>
  BY DEF Commands!uiVars
<1>2. (stagedData \o pendingData)' = stagedData \o pendingData
  BY <1>1
<1>3. Lined'
  BY <1>1, <1>2, LineStays
<1>4. DataInStep'
  BY <1>1 DEF DataInStep
<1> QED
  BY <1>3, <1>4

LEMMA BeginDispatchInTurn ==
    ASSUME Commanded, TurnInv, Commands!BeginDispatch, transfer' = "idle" \/ dispatch' = "parked"
    PROVE  TurnInv'
<1> USE DEF TurnInv
<1>1. /\ dispatch = "parked" /\ dispatch' = "check"
      /\ UNCHANGED <<Commands!ringVars, Commands!uiVars, stagedData, log>>
  BY DEF Commands!BeginDispatch
<1>2. transfer = "idle" /\ transfer' = "idle"
  BY <1>1 DEF Commands!uiVars
<1>3. /\ Commands!Staged' = Commands!Staged /\ Commands!UIHand' = Commands!UIHand
      /\ Staging!IInv' = Staging!IInv /\ UNCHANGED <<staged_tail, staged_head, consumer>>
  BY <1>1, RingStays
<1>4. Commands!WorkerHand = << >> /\ Commands!WorkerHand' = << >>
  BY <1>1 DEF Commands!WorkerHand
<1>5. InTurn'
  BY <1>1, <1>2, <1>3 DEF InTurn
<1>6. Undispatched' = Undispatched
  BY <1>1, <1>3, <1>4 DEF Undispatched, Commands!uiVars
<1> QED
  BY <1>1, <1>2, <1>3, <1>4, <1>5, <1>6, WorkerMoves

LEMMA IsEmptyInTurn ==
    ASSUME Commanded, TurnInv, Commands!IsEmpty
    PROVE  TurnInv'
<1> USE DEF TurnInv
<1>1. /\ dispatch = "check"
      /\ \/ Staging!IsEmptyLoadHead /\ dispatch' = "check"
         \/ /\ Staging!IsEmptyLoadTail
            /\ dispatch' = IF consumer'.avail THEN "pop" ELSE "clear"
      /\ UNCHANGED <<Commands!uiVars, stagedData, log>>
  BY CallsOfWorker DEF Commands!IsEmpty
<1>2. /\ transfer = "idle" /\ Commands!UIHand = << >> /\ producer.pc = "idle"
      /\ consumer.pc # "clear_head" /\ Staging!IInv /\ Commands!Staged = Staging!Contents
  BY <1>1, DispatchAlone
<1>3. Staging!IInv' /\ Staging!Contents' = Staging!Contents
  BY <1>1, <1>2, WorkerCallStutters
<1>4. /\ UNCHANGED <<staged_head, staged_tail, producer>> /\ consumer'.pc # "clear_head"
  BY <1>1 DEF Staging!IsEmptyLoadHead, Staging!IsEmptyLoadTail, Staging!ProdSide, Commanded,
              Staging!TypeOK
<1>5. /\ Commands!WorkerHand = << >> /\ Commands!WorkerHand' = << >>
      /\ Commands!Staged' = Commands!Staged /\ Commands!UIHand' = << >>
  BY <1>1, <1>2, <1>3, <1>4, StagedNext DEF Commands!WorkerHand, Commands!UIHand
<1>6. InTurn'
  <2>1. dispatch' = "pop" => staged_head # staged_tail
    <3> SUFFICES ASSUME dispatch' = "pop" PROVE staged_head # staged_tail
      OBVIOUS
    <3>1. Staging!IsEmptyLoadTail /\ consumer'.avail
      BY <1>1
    <3>2. consumer.head # staged_tail /\ consumer.pc = "empty_tail"
      BY <3>1 DEF Staging!IsEmptyLoadTail, Commanded, Staging!TypeOK
    <3> QED
      BY <1>2, <3>2 DEF Staging!IInv, Staging!ConsInv
  <2>2. dispatch' = "clear" => Commands!Staged = << >>
    <3> SUFFICES ASSUME dispatch' = "clear" PROVE Commands!Staged = << >>
      OBVIOUS
    <3>1. Staging!IsEmptyLoadTail /\ ~consumer'.avail
      BY <1>1
    <3>2. consumer.head = staged_tail /\ consumer.pc = "empty_tail"
      BY <3>1 DEF Staging!IsEmptyLoadTail, Commanded, Staging!TypeOK
    <3>3. staged_head = staged_tail
      BY <1>2, <3>2 DEF Staging!IInv, Staging!ConsInv
    <3> QED
      BY <1>2, <3>3, RingIndices
  <2>3. transfer' = "idle" /\ dispatch' \in {"check", "pop", "clear"}
    BY <1>1, <1>2 DEF Commands!uiVars
  <2> QED
    BY <1>3, <1>4, <1>5, <2>1, <2>2, <2>3 DEF InTurn
<1>7. Undispatched' = Undispatched
  BY <1>1, <1>2, <1>5 DEF Undispatched, Commands!uiVars
<1>8. dispatch' # "exit"
  BY <1>1
<1> QED
  BY <1>1, <1>2, <1>5, <1>6, <1>7, <1>8, WorkerMoves

LEMMA PopStagedInTurn ==
    ASSUME Commanded, TurnInv, Commands!PopStaged
    PROVE  TurnInv'
<1> USE DEF TurnInv
<1>1. /\ dispatch = "pop"
      /\ \/ /\ Staging!PopLoadHead \/ Staging!PopLoadTail \/ Staging!PopMove
            /\ dispatch' = "pop"
         \/ (Staging!PopStoreHead \/ Staging!PopFails) /\ dispatch' = "execute"
      /\ UNCHANGED <<Commands!uiVars, stagedData, log>>
  BY CallsOfWorker DEF Commands!PopStaged
<1>2. /\ transfer = "idle" /\ Commands!UIHand = << >> /\ producer.pc = "idle"
      /\ consumer.pc # "clear_head" /\ Staging!IInv /\ Commands!Staged = Staging!Contents
      /\ transfer' = "idle" /\ pending' = pending
  BY <1>1, DispatchAlone DEF Commands!uiVars
<1>3. ~Staging!PopFails
  BY <1>1, <1>2 DEF Staging!PopFails, InTurn, Staging!IInv, Staging!ConsInv
<1>4. Commands!WorkerHand = << >> /\ Len(Commands!WorkerHand) = 0
  <2>1. Commands!WorkerHand = << >>
    BY <1>1 DEF Commands!WorkerHand
  <2> QED
    BY <2>1
<1>5. CASE (Staging!PopLoadHead \/ Staging!PopLoadTail \/ Staging!PopMove) /\ dispatch' = "pop"
  <2>1. Staging!IInv' /\ Staging!Contents' = Staging!Contents
    BY <1>2, <1>5, WorkerCallStutters
  <2>2. UNCHANGED <<staged_head, staged_tail, producer>> /\ consumer'.pc # "clear_head"
    BY <1>5 DEF Staging!PopLoadHead, Staging!PopLoadTail, Staging!PopMove, Staging!ProdSide,
                Commanded, Staging!TypeOK
  <2>3. /\ Commands!WorkerHand' = << >> /\ Commands!Staged' = Commands!Staged
        /\ Commands!UIHand' = << >>
    BY <1>2, <1>5, <2>1, <2>2, StagedNext DEF Commands!WorkerHand, Commands!UIHand
  <2>4. InTurn'
    BY <1>1, <1>2, <1>5, <2>1, <2>2 DEF InTurn
  <2>5. Undispatched' = Undispatched
    BY <1>2, <1>4, <2>3 DEF Undispatched
  <2>6. dispatch' # "exit"
    BY <1>5
  <2> QED
    BY <1>1, <1>2, <1>4, <2>3, <2>4, <2>5, <2>6, WorkerMoves
<1>6. CASE Staging!PopStoreHead /\ dispatch' = "execute"
  <2>1. /\ Staging!IInv' /\ Staging!Contents # << >>
        /\ consumer.item = Head(Staging!Contents)
        /\ Staging!Contents' = Tail(Staging!Contents)
    BY <1>2, <1>6, WorkerReleases
  <2>2. /\ taken' = consumer.item /\ consumer'.pc # "clear_head" /\ producer' = producer
    BY <1>6 DEF Staging!PopStoreHead, Staging!ProdSide, Commanded, Staging!TypeOK
  <2>3. /\ Commands!Staged \in Seq(Commands!Command) /\ Commands!UIHand \in Seq(Commands!Command)
        /\ pending \in Seq(Commands!Command)
    BY PartsOfLine
  <2>4. /\ Commands!Staged # << >> /\ Commands!Staged' = Tail(Commands!Staged)
        /\ Commands!WorkerHand' = << Head(Commands!Staged) >> /\ Commands!UIHand' = << >>
        /\ taken' = Head(Commands!Staged)
    BY <1>2, <1>6, <2>1, <2>2, StagedNext DEF Commands!WorkerHand, Commands!UIHand
  <2>5. taken' \in Commands!Command
    BY <2>3, <2>4, HeadTailProperties
  <2>6. InTurn'
    BY <1>2, <1>6, <2>1, <2>2, <2>5 DEF InTurn
  <2>7. Undispatched' = Undispatched
    <3>1. Undispatched' = << Head(Commands!Staged) >> \o Tail(Commands!Staged)
                              \o Commands!UIHand \o pending
      BY <1>2, <2>4 DEF Undispatched
    <3>2. Undispatched = << >> \o Commands!Staged \o Commands!UIHand \o pending
      BY <1>4 DEF Undispatched
    <3> QED
      BY <2>3, <2>4, <3>1, <3>2, WorkerTakes
  <2>8. Len(Commands!WorkerHand') + Len(Commands!Staged') = 0 + Len(Commands!Staged)
    <3>1. Len(Tail(Commands!Staged)) = Len(Commands!Staged) - 1 /\ Len(Commands!Staged) \in Nat
      BY <2>3, <2>4, HeadTailProperties, LenProperties
    <3>2. Len(Commands!WorkerHand') = 1
      BY <2>4
    <3> QED
      BY <2>4, <3>1, <3>2
  <2>9. dispatch' # "exit"
    BY <1>6
  <2> QED
    BY <1>1, <1>2, <1>4, <2>6, <2>7, <2>8, <2>9, WorkerMoves
<1> QED
  BY <1>1, <1>3, <1>5, <1>6

(* The first of two queues one after the other.                            *)
LEMMA FrontIs ==
    ASSUME NEW S, NEW p \in Seq(S), NEW q \in Seq(S), p # << >>
    PROVE  Head(p \o q) = Head(p) /\ Tail(p \o q) = Tail(p) \o q
<1> DEFINE both == p \o q
<1>1. /\ both \in Seq(S) /\ Len(both) = Len(p) + Len(q)
      /\ \A i \in 1 .. Len(p) + Len(q) : both[i] = IF i <= Len(p) THEN p[i] ELSE q[i - Len(p)]
  BY ConcatProperties
<1>2. /\ Tail(p) \in Seq(S) /\ Len(Tail(p)) = Len(p) - 1 /\ Len(p) \in Nat \ {0} /\ Len(q) \in Nat
      /\ \A i \in 1 .. Len(Tail(p)) : Tail(p)[i] = p[i + 1]
      /\ Head(p) = p[1]
  BY HeadTailProperties, EmptySeq, LenProperties
<1> DEFINE rest == Tail(p) \o q
<1>3. /\ rest \in Seq(S) /\ Len(rest) = Len(Tail(p)) + Len(q)
      /\ \A i \in 1 .. Len(Tail(p)) + Len(q) :
             rest[i] = IF i <= Len(Tail(p)) THEN Tail(p)[i] ELSE q[i - Len(Tail(p))]
  BY <1>2, ConcatProperties
<1> HIDE DEF both, rest
<1>4. both # << >> /\ Head(both) = both[1]
  BY <1>1, <1>2
<1>5. /\ Tail(both) \in Seq(S) /\ Len(Tail(both)) = Len(both) - 1
      /\ \A i \in 1 .. Len(Tail(both)) : Tail(both)[i] = both[i + 1]
  BY <1>1, <1>4, HeadTailProperties
<1>6. Head(both) = Head(p)
  BY <1>1, <1>2, <1>4
<1>7. Len(Tail(both)) = Len(rest)
  BY <1>1, <1>2, <1>3, <1>5
<1>8. \A i \in 1 .. Len(rest) : Tail(both)[i] = rest[i]
  <2> SUFFICES ASSUME NEW i \in 1 .. Len(rest) PROVE Tail(both)[i] = rest[i]
    OBVIOUS
  <2>1. i \in 1 .. Len(Tail(both)) /\ i + 1 \in 1 .. Len(p) + Len(q)
    BY <1>1, <1>2, <1>3, <1>7
  <2>2. Tail(both)[i] = both[i + 1]
    BY <1>5, <2>1
  <2>3. both[i + 1] = IF i + 1 <= Len(p) THEN p[i + 1] ELSE q[(i + 1) - Len(p)]
    BY <1>1, <2>1
  <2>4. CASE i <= Len(Tail(p))
    <3>1. i \in 1 .. Len(Tail(p)) /\ i + 1 <= Len(p) /\ i \in 1 .. Len(Tail(p)) + Len(q)
      BY <1>2, <2>4
    <3>2. rest[i] = Tail(p)[i]
      BY <1>3, <2>4, <3>1
    <3>3. Tail(p)[i] = p[i + 1]
      BY <1>2, <3>1
    <3> QED
      BY Zenon, <2>2, <2>3, <3>1, <3>2, <3>3
  <2>5. CASE ~(i <= Len(Tail(p)))
    <3>1. (i + 1) - Len(p) = i - Len(Tail(p)) /\ ~(i + 1 <= Len(p))
      BY <1>2, <2>5
    <3> QED
      BY <1>3, <2>2, <2>3, <2>5, <3>1
  <2> QED
    BY <2>4, <2>5
<1>9. Tail(both) = rest
  BY <1>3, <1>5, <1>7, <1>8, SeqEqual
<1> QED
  BY <1>6, <1>9 DEF both, rest

(* Execute: the first of the line leaves it, with the first of the data.   *)
LEMMA ExecuteInTurn ==
    ASSUME Commanded, TurnInv, NEW well \in BOOLEAN, Commands!Execute(well)
    PROVE  TurnInv'
<1> USE DEF TurnInv
<1>1. /\ dispatch = "execute"
      /\ \E good, data : /\ log' = Append(log, [cmd |-> taken, data |-> data, ok |-> well,
                                                success |-> good, batch |-> batch])
                         /\ data = IF stagedData = << >> THEN Commands!NoData ELSE Head(stagedData)
      /\ stagedData' = IF stagedData = <<>> THEN <<>> ELSE Tail(stagedData)
      /\ dispatch' = IF taken.kind = "terminate" THEN "exit" ELSE "check"
      /\ UNCHANGED <<Commands!ringVars, Commands!uiVars>>
  BY Zenon DEF Commands!Execute
<1>2. /\ transfer = "idle" /\ Commands!UIHand = << >> /\ producer.pc = "idle"
      /\ consumer.pc = "idle" /\ Staging!IInv /\ taken \in Commands!Command
  BY <1>1, DispatchAlone DEF InTurn, Commanded, DispatchInv
<1>3. UNCHANGED <<transfer, pending, pendingData, accepted, stopping>>
  BY <1>1 DEF Commands!uiVars
<1>4. /\ Staging!IInv' = Staging!IInv /\ Commands!Staged' = Commands!Staged
      /\ Commands!UIHand' = Commands!UIHand
      /\ UNCHANGED <<staged_head, staged_tail, producer, consumer, taken>>
  BY <1>1, RingStays
<1>5. Commands!WorkerHand = << taken >> /\ Commands!WorkerHand' = << >>
  BY <1>1 DEF Commands!WorkerHand
<1> DEFINE line == Undispatched
           given == stagedData \o pendingData
<1>6. /\ line \in Seq(Commands!Command) /\ line # << >> /\ Head(line) = taken
      /\ Undispatched' = Tail(line) /\ Len(line) = 1 + Len(Commands!Staged) + Len(pending)
      /\ Len(Commands!Staged) \in Nat /\ Len(pending) \in Nat
  <2>1. /\ Commands!Staged \in Seq(Commands!Command) /\ Commands!UIHand \in Seq(Commands!Command)
        /\ pending \in Seq(Commands!Command) /\ Undispatched \in Seq(Commands!Command)
        /\ Len(Undispatched) = Len(Commands!WorkerHand) + Len(Commands!Staged)
                                   + Len(Commands!UIHand) + Len(pending)
    BY PartsOfLine
  <2>2. Undispatched = << taken >> \o Commands!Staged \o Commands!UIHand \o pending
    BY <1>5 DEF Undispatched
  <2>3. Undispatched' = << >> \o Commands!Staged \o Commands!UIHand \o pending
    BY <1>3, <1>4, <1>5 DEF Undispatched
  <2>4. Undispatched # << >> /\ Head(Undispatched) = taken /\ Undispatched' = Tail(Undispatched)
    <3>1. AreSeqs(Commands!Command, Commands!Staged, Commands!UIHand, pending)
      BY <2>1 DEF AreSeqs
    <3> QED
      BY <1>2, <2>2, <2>3, <3>1, WorkerGives
  <2>5. Len(Commands!WorkerHand) = 1 /\ Len(Commands!UIHand) = 0
    BY <1>2, <1>5
  <2>6. Len(Commands!Staged) \in Nat /\ Len(pending) \in Nat
    BY <2>1
  <2> QED
    BY <2>1, <2>4, <2>5, <2>6
<1>7. /\ stagedData \in Seq(Images) /\ pendingData \in Seq(Images)
      /\ Len(stagedData) = 1 + Len(Commands!Staged) /\ stagedData # << >>
  <2>1. stagedData \in Seq(Images) /\ pendingData \in Seq(Images)
    BY DEF Commanded, QueuesTyped
  <2>2. Len(Commands!WorkerHand) = 1
    BY <1>5
  <2>3. Len(stagedData) = 1 + Len(Commands!Staged)
    BY <1>2, <2>2 DEF DataInStep
  <2> QED
    BY <1>6, <2>1, <2>3
<1>8. /\ accepted = Commands!Dispatched \o line /\ Numbered(accepted) /\ EndsLast(line)
      /\ stopping = "no" => NeverEnds(line)
      /\ given = DataAlong(line) /\ Paired(log)
  BY DEF Lined
<1>9. /\ Head(given) = Head(stagedData) /\ Tail(given) = Tail(stagedData) \o pendingData
  BY <1>7, FrontIs
<1> HIDE DEF line, given
<1>10. Head(given) = DataOf(taken) /\ Tail(given) = DataAlong(Tail(line))
  BY <1>6, <1>8, DataShrinks
<1>11. (stagedData \o pendingData)' = DataAlong(Undispatched)'
  <2>1. stagedData' = Tail(stagedData)
    BY <1>1, <1>7
  <2>2. (stagedData \o pendingData)' = DataAlong(Tail(line))
    BY <1>3, <1>9, <1>10, <2>1
  <2>3. DataAlong(Undispatched)' = DataAlong(Tail(line))
    BY Zenon, <1>6 DEF DataAlong
  <2> QED
    BY <2>2, <2>3
<1>12. Paired(log)' /\ Commands!Dispatched' = Append(Commands!Dispatched, taken)
  <2>1. PICK good, data :
            /\ log' = Append(log, [cmd |-> taken, data |-> data, ok |-> well,
                                   success |-> good, batch |-> batch])
            /\ data = IF stagedData = << >> THEN Commands!NoData ELSE Head(stagedData)
    BY <1>1
  <2>2. data = DataOf(taken)
    BY <1>7, <1>9, <1>10, <2>1
  <2> DEFINE entry == [cmd |-> taken, data |-> data, ok |-> well, success |-> good,
                       batch |-> batch]
  <2>3. entry.cmd = taken /\ entry.data = data
    OBVIOUS
  <2> HIDE DEF entry
  <2>4. log \in Seq(Commands!Entry)
    BY DEF Commanded, QueuesTyped
  <2>5. /\ Len(log) \in Nat /\ DOMAIN log = 1 .. Len(log) /\ DOMAIN log' = 1 .. Len(log) + 1
        /\ \A i \in 1 .. Len(log) : log'[i] = log[i]
        /\ log'[Len(log) + 1] = entry
    BY <2>1, <2>4 DEF entry
  <2>6. Paired(log)'
    <3> SUFFICES ASSUME NEW i \in DOMAIN log' PROVE log'[i].data = DataOf(log'[i].cmd)
      BY DEF Paired, DataOf
    <3>1. CASE i \in 1 .. Len(log)
      BY <1>8, <2>5, <3>1 DEF Paired
    <3>2. CASE i = Len(log) + 1
      BY <2>2, <2>3, <2>5, <3>2
    <3> QED
      BY <2>5, <3>1, <3>2
  <2>7. Commands!Dispatched' = Append(Commands!Dispatched, taken)
    <3> DEFINE before == Commands!Dispatched
               all == Commands!Command \cup {Commands!NoCommand}
    <3>1. before \in Seq(all)
      BY DispatchedIs
    <3>2. Commands!Dispatched' = [i \in 1 .. Len(log) + 1 |-> log'[i].cmd]
      BY <2>5 DEF Commands!Dispatched
    <3>3. DOMAIN before = 1 .. Len(log) /\ Len(before) = Len(log)
          /\ \A i \in 1 .. Len(log) : before[i] = log[i].cmd
      <4>1. before = [i \in 1 .. Len(log) |-> log[i].cmd]
        BY <2>5 DEF Commands!Dispatched
      <4> QED
        BY <2>5, <4>1
    <3>4. taken \in all
      BY <1>2
    <3> HIDE DEF before, all
    <3>5. /\ Append(before, taken) \in Seq(all) /\ Len(Append(before, taken)) = Len(log) + 1
          /\ \A i \in 1 .. Len(log) : Append(before, taken)[i] = before[i]
          /\ Append(before, taken)[Len(log) + 1] = taken
      BY <3>1, <3>3, <3>4, AppendProperties
    <3> DEFINE longer == Append(before, taken)
    <3> HIDE DEF longer
    <3>6. /\ longer \in Seq(all) /\ Len(longer) = Len(log) + 1
          /\ \A i \in 1 .. Len(log) : longer[i] = log[i].cmd
          /\ longer[Len(log) + 1] = taken
      BY <3>3, <3>5 DEF longer
    <3>7. longer = [i \in 1 .. Len(log) + 1 |-> longer[i]]
      BY <3>6
    <3>8. \A i \in 1 .. Len(log) + 1 : longer[i] = log'[i].cmd
      <4> SUFFICES ASSUME NEW i \in 1 .. Len(log) + 1 PROVE longer[i] = log'[i].cmd
        OBVIOUS
      <4>1. CASE i \in 1 .. Len(log)
        BY <2>5, <3>6, <4>1
      <4>2. CASE i = Len(log) + 1
        BY <2>3, <2>5, <3>6, <4>2
      <4>3. i \in 1 .. Len(log) \/ i = Len(log) + 1
        BY <2>5
      <4> QED
        BY <4>1, <4>2, <4>3
    <3> QED
      BY <3>2, <3>7, <3>8 DEF before, longer
  <2> QED
    BY <2>6, <2>7
<1>13. accepted' = Commands!Dispatched' \o Undispatched'
  <2> DEFINE before == Commands!Dispatched
             all == Commands!Command \cup {Commands!NoCommand}
  <2>1. before \in Seq(all) /\ line \in Seq(all)
    <3>1. before \in Seq(all)
      BY DispatchedIs
    <3>2. \A i \in 1 .. Len(line) : line[i] \in all
      BY <1>6
    <3>3. line \in Seq(all)
      BY <1>6, <3>2
    <3> QED
      BY <3>1, <3>3
  <2> HIDE DEF before, all
  <2>2. Append(before, Head(line)) \o Tail(line) = before \o line
    BY <1>6, <2>1, OneMoves
  <2>3. Commands!Dispatched' = Append(before, Head(line)) /\ Undispatched' = Tail(line)
    BY <1>6, <1>12 DEF before
  <2>4. accepted = before \o line
    BY <1>8 DEF before
  <2> QED
    BY <1>3, <2>2, <2>3, <2>4
<1>14. EndsLast(Undispatched)' /\ (stopping' = "no" => NeverEnds(Undispatched)')
  <2>1. EndsLast(Tail(line)) /\ (stopping = "no" => NeverEnds(Tail(line)))
    BY <1>6, <1>8, EndShrinks
  <2>2. EndsLast(Undispatched)' = EndsLast(Tail(line)) /\ NeverEnds(Undispatched)' = NeverEnds(Tail(line))
    BY Zenon, <1>6 DEF EndsLast, NeverEnds
  <2> QED
    BY <1>3, <2>1, <2>2
<1>15. dispatch' = "exit" => pending = << >> /\ Commands!Staged = << >> /\ stopping # "no"
  <2> SUFFICES ASSUME dispatch' = "exit"
               PROVE  pending = << >> /\ Commands!Staged = << >> /\ stopping # "no"
    OBVIOUS
  <2>1. taken.kind = "terminate"
    BY <1>1
  <2>2. Tail(line) = << >> /\ ~NeverEnds(line)
    BY <1>6, <1>8, <2>1, EndShrinks
  <2>3. Len(line) = 1
    <3>1. Len(Tail(line)) = Len(line) - 1 /\ Len(line) \in Nat
      BY <1>6, HeadTailProperties, LenProperties
    <3>2. Len(<< >>) = 0
      OBVIOUS
    <3>3. Len(Tail(line)) = 0
      BY Zenon, <2>2, <3>2
    <3> QED
      BY <3>1, <3>3
  <2>4. Len(Commands!Staged) = 0 /\ Len(pending) = 0
    BY <1>6, <2>3
  <2>5. Commands!Staged \in Seq(Commands!Command) /\ pending \in Seq(Commands!Command)
    BY PartsOfLine
  <2>6. Commands!Staged = << >> /\ pending = << >>
    BY <2>4, <2>5, EmptySeq
  <2> QED
    BY <1>8, <2>2, <2>6
<1>16. Lined'
  <2>1. Numbered(accepted)'
    BY <1>3, <1>8 DEF Numbered
  <2> QED
    BY <1>3, <1>11, <1>12, <1>13, <1>14, <1>15, <2>1 DEF Lined
<1>17. InTurn'
  BY <1>1, <1>2, <1>3, <1>4, <1>15 DEF InTurn
<1>18. DataInStep'
  <2>1. Len(stagedData') = Len(Commands!Staged)
    <3>1. stagedData' = Tail(stagedData)
      BY <1>1, <1>7
    <3>2. Len(Tail(stagedData)) = Len(stagedData) - 1
      BY <1>7, HeadTailProperties
    <3> QED
      BY <1>6, <1>7, <3>1, <3>2
  <2>2. Len(Commands!WorkerHand') = 0
    BY <1>5
  <2> QED
    BY <1>2, <1>3, <1>4, <1>6, <2>1, <2>2 DEF DataInStep
<1> QED
  BY <1>16, <1>17, <1>18

(* Clear: nothing is staged when the worker comes to it.                   *)
LEMMA ClearInTurn ==
    ASSUME Commanded, TurnInv, Commands!Clear
    PROVE  TurnInv'
<1> USE DEF TurnInv
<1>1. /\ dispatch \in {"clear", "exit"}
      /\ \/ Staging!ClearStoreTail /\ UNCHANGED <<dispatch, stopping>>
         \/ /\ Staging!ClearStoreHead /\ dispatch' = "parked"
            /\ stopping' = IF dispatch = "exit" THEN "no" ELSE stopping
      /\ UNCHANGED <<pending, pendingData, transfer, accepted, stagedData, log>>
  BY CallsOfWorker DEF Commands!Clear
<1>2. /\ transfer = "idle" /\ Commands!UIHand = << >> /\ producer.pc = "idle"
      /\ Commands!Staged = << >> /\ Commands!WorkerHand = << >>
  BY <1>1, DispatchAlone DEF InTurn, Commands!WorkerHand
<1>3. /\ producer' = producer /\ dispatch' # "execute"
  BY <1>1 DEF Staging!ClearStoreTail, Staging!ClearStoreHead, Staging!ProdSide
<1>4. Commands!UIHand' = << >> /\ Commands!WorkerHand' = << >>
  BY <1>2, <1>3 DEF Commands!UIHand, Commands!WorkerHand
<1>5. CASE Staging!ClearStoreTail /\ UNCHANGED <<dispatch, stopping>>
  <2>1. consumer'.pc = "clear_head" /\ staged_tail' = 0
    BY <1>5 DEF Staging!ClearStoreTail, Commanded, Staging!TypeOK
  <2>2. Commands!Staged' = << >>
    BY <2>1, StagedNext
  <2>3. InTurn'
    BY <1>1, <1>2, <1>5, <2>1, <2>2 DEF InTurn
  <2>4. Undispatched' = Undispatched /\ (stagedData \o pendingData)' = stagedData \o pendingData
    BY <1>1, <1>2, <1>4, <2>2 DEF Undispatched
  <2>5. Lined'
    BY <1>1, <1>5, <2>4, LineStays
  <2>6. DataInStep'
    BY <1>1, <1>2, <1>4, <2>2 DEF DataInStep
  <2> QED
    BY <2>3, <2>5, <2>6
<1>6. CASE Staging!ClearStoreHead /\ dispatch' = "parked"
           /\ stopping' = IF dispatch = "exit" THEN "no" ELSE stopping
  <2>1. consumer.pc = "clear_head" /\ consumer'.pc = "idle"
    BY <1>6 DEF Staging!ClearStoreHead, Commanded, Staging!TypeOK
  <2>2. staged_tail = 0 /\ Staging!TypeOK
    BY <2>1 DEF InTurn, Commanded
  <2>3. Staging!TypeOK'
    BY <1>6, <2>2, WorkerKeepsRingTyped
  <2>4. Staging!IInv' /\ Staging!Contents' = << >>
    BY <1>2, <1>6, <2>2, <2>3, ClearedIsEmpty
  <2>5. Commands!Staged' = << >>
    BY <2>1, <2>4, StagedNext
  <2>6. InTurn'
    BY <1>1, <1>2, <1>6, <2>1, <2>4 DEF InTurn
  <2>7. Undispatched' = Undispatched /\ (stagedData \o pendingData)' = stagedData \o pendingData
    BY <1>1, <1>2, <1>4, <2>5 DEF Undispatched
  <2>8. Lined'
    <3>1. CASE dispatch = "clear"
      BY <1>1, <1>6, <2>7, <3>1, LineStays
    <3>2. CASE dispatch = "exit"
      <4>1. pending = << >>
        BY <3>2 DEF Lined
      <4>2. Undispatched = << >>
        BY <1>2, <4>1 DEF Undispatched
      <4>3. Commands!Dispatched' = Commands!Dispatched
        BY <1>1 DEF Commands!Dispatched
      <4>4. EndsLast(<< >>) /\ NeverEnds(<< >>)
        BY DEF EndsLast, NeverEnds
      <4>5. EndsLast(Undispatched)' /\ NeverEnds(Undispatched)'
        BY Zenon, <2>7, <4>2, <4>4 DEF EndsLast, NeverEnds
      <4>6. DataAlong(Undispatched)' = DataAlong(Undispatched)
        BY Zenon, <2>7 DEF DataAlong
      <4>7. Numbered(accepted)' /\ Paired(log)'
        BY <1>1 DEF Lined, Numbered, Paired
      <4> QED
        BY <1>1, <1>6, <2>7, <4>3, <4>5, <4>6, <4>7 DEF Lined
    <3> QED
      BY <1>1, <3>1, <3>2
  <2>9. DataInStep'
    BY <1>1, <1>2, <1>4, <2>5 DEF DataInStep
  <2> QED
    BY <2>6, <2>8, <2>9
<1> QED
  BY <1>1, <1>5, <1>6

(* Whatever they do, as long as they take turns.                           *)
LEMMA StepInTurn ==
    ASSUME Commanded, TurnInv, [Commands!Next]_(Commands!vars), ~overlapped'
    PROVE  TurnInv'
<1>1. CASE Commands!Next
  <2>1. transfer' = "idle" \/ dispatch' = "parked"
    BY Zenon, <1>1 DEF Commands!Next
  <2>2. CASE Commands!UI
    BY <2>1, <2>2, QueueInTurn, BeginTransferInTurn, IsFullInTurn, PopOtherInTurn,
       PushStagedInTurn, TransferDataInTurn DEF Commands!UI
  <2>3. CASE Commands!Worker
    BY <2>1, <2>3, BeginDispatchInTurn, IsEmptyInTurn, PopStagedInTurn, ExecuteInTurn,
       ClearInTurn DEF Commands!Worker
  <2> QED
    BY <1>1, <2>2, <2>3 DEF Commands!Next
<1>2. CASE UNCHANGED Commands!vars
  <2>1. /\ UNCHANGED Commands!ringVars /\ UNCHANGED <<transfer, dispatch, stagedData, pendingData,
                                                      pending, accepted, log, stopping>>
    BY <1>2 DEF Commands!vars, Commands!uiVars, Commands!workerVars
  <2>2. /\ Commands!Staged' = Commands!Staged /\ Commands!UIHand' = Commands!UIHand
        /\ Commands!WorkerHand' = Commands!WorkerHand
    BY <2>1, RingStays DEF Commands!WorkerHand
  <2>3. InTurn'
    BY <2>1, <2>2, RingStays DEF InTurn, TurnInv
  <2>4. Undispatched' = Undispatched /\ (stagedData \o pendingData)' = stagedData \o pendingData
    BY <2>1, <2>2 DEF Undispatched
  <2>5. Lined'
    BY <2>1, <2>4, LineStays DEF TurnInv
  <2>6. DataInStep'
    BY <2>1, <2>2 DEF DataInStep, TurnInv
  <2> QED
    BY <2>3, <2>5, <2>6 DEF TurnInv
<1> QED
  BY <1>1, <1>2

LEMMA StartInTurn == Commands!Init => TurnInv
<1> SUFFICES ASSUME Commands!Init PROVE TurnInv
  OBVIOUS
<1>1. Staging!Init
  BY RingOfCommands DEF Commands!Init
<1>2. Staging!IInv
  BY <1>1, CommandsFit, Staging!InitIInv
<1>3. /\ transfer = "idle" /\ dispatch = "parked" /\ stopping = "no" /\ pending = << >>
      /\ pendingData = << >> /\ stagedData = << >> /\ accepted = << >> /\ log = << >>
      /\ consumer.pc = "idle" /\ producer.pc = "idle" /\ staged_head = staged_tail
  BY <1>1 DEF Commands!Init, Staging!Init
<1>4. Commands!WorkerHand = << >> /\ Commands!UIHand = << >> /\ Commands!Staged = << >>
  <2>1. Staging!Contents = << >>
    BY <1>2, <1>3, RingIndices
  <2> QED
    BY <1>3, <2>1, RingOfCommands DEF Commands!WorkerHand, Commands!UIHand, Commands!Staged
<1>5. InTurn
  BY <1>2, <1>3 DEF InTurn
<1>6. Undispatched = << >> /\ Commands!Dispatched = << >>
  BY <1>3, <1>4 DEF Undispatched, Commands!Dispatched
<1>7. Lined
  <2>1. EndsLast(<< >>) /\ NeverEnds(<< >>) /\ Numbered(<< >>) /\ Paired(<< >>)
    BY DEF EndsLast, NeverEnds, Numbered, Paired
  <2>2. DataAlong(<< >>) = << >>
    BY DEF DataAlong
  <2>3. << >> \o << >> = << >>
    OBVIOUS
  <2> QED
    BY <1>3, <1>6, <2>1, <2>2, <2>3 DEF Lined
<1>8. DataInStep
  BY <1>3, <1>4 DEF DataInStep
<1> QED
  BY <1>5, <1>7, <1>8 DEF TurnInv

(* Once a transfer and a dispatch overlapped, they have for good.          *)
LEMMA TakingTurns == Commands!Spec => [](~overlapped => TurnInv)
<1> DEFINE Inv == ~overlapped => TurnInv
<1>1. Commands!Init => Inv
  BY StartInTurn
<1>2. Commanded /\ Inv /\ [Commands!Next]_(Commands!vars) => Inv'
  <2> SUFFICES ASSUME Commanded, Inv, [Commands!Next]_(Commands!vars), ~overlapped'
               PROVE  TurnInv'
    OBVIOUS
  <2>1. ~overlapped
    <3>1. CASE Commands!Next
      BY Zenon, <3>1 DEF Commands!Next
    <3>2. CASE UNCHANGED Commands!vars
      BY Zenon, <3>2 DEF Commands!vars
    <3> QED
      BY <3>1, <3>2
  <2> QED
    BY <2>1, StepInTurn
<1> QED
  BY <1>1, <1>2, CommandsInvariant, PTL DEF Commands!Spec

(* Five queues, the first of what was dispatched.                          *)
FiveOf(S, b, w, s, u, p) ==
    b \in Seq(S) /\ w \in Seq(S) /\ s \in Seq(S) /\ u \in Seq(S) /\ p \in Seq(S)

LEMMA LineAfter ==
    ASSUME NEW S, NEW b, NEW w, NEW s, NEW u, NEW p, FiveOf(S, b, w, s, u, p)
    PROVE  b \o (w \o s \o u \o p) = b \o w \o s \o u \o p
<1>0. b \in Seq(S) /\ w \in Seq(S) /\ s \in Seq(S) /\ u \in Seq(S) /\ p \in Seq(S)
  BY DEF FiveOf
<1>1. AreSeqs(S, b, w, s)
  BY <1>0 DEF AreSeqs
<1>2. Joined(w, s) \in Seq(S) /\ Joined(b, Joined(w, s)) = Joined(Joined(b, w), s)
  BY <1>1, Regroup
<1>3. AreSeqs(S, b, Joined(w, s), u)
  BY <1>0, <1>2 DEF AreSeqs
<1>4. /\ Joined(Joined(w, s), u) \in Seq(S)
      /\ Joined(b, Joined(Joined(w, s), u)) = Joined(Joined(b, Joined(w, s)), u)
  BY <1>3, Regroup
<1>5. AreSeqs(S, b, Joined(Joined(w, s), u), p)
  BY <1>0, <1>4 DEF AreSeqs
<1>6. Joined(b, Joined(Joined(Joined(w, s), u), p)) = Joined(Joined(b, Joined(Joined(w, s), u)), p)
  BY <1>5, Regroup
<1>7. Joined(b, Joined(Joined(Joined(w, s), u), p)) = Joined(Joined(Joined(Joined(b, w), s), u), p)
  BY <1>2, <1>4, <1>6
<1> QED
  BY Zenon, <1>7 DEF Joined

(* In turn, the commands dispatched are the first of those accepted.       *)
LEMMA DispatchedFirst ==
    ASSUME Commanded, TurnInv
    PROVE  /\ \A i \in DOMAIN log : /\ log[i].cmd.id = i /\ log[i].cmd.text = TRUE
                                    /\ log[i].data = DataOf(log[i].cmd)
           /\ accepted = Commands!Dispatched \o Commands!WorkerHand \o Commands!Staged
                             \o Commands!UIHand \o pending
<1> DEFINE all == Commands!Command \cup {Commands!NoCommand}
           before == Commands!Dispatched
           line == Undispatched
<1>1. /\ accepted = before \o line /\ Numbered(accepted) /\ Paired(log)
  BY DEF TurnInv, Lined
<1>2. \A q \in Seq(Commands!Command) : q \in Seq(all)
  <2> SUFFICES ASSUME NEW q \in Seq(Commands!Command) PROVE q \in Seq(all)
    OBVIOUS
  <2>1. \A i \in 1 .. Len(q) : q[i] \in all
    OBVIOUS
  <2> QED
    BY <2>1
<1>3. /\ before \in Seq(all) /\ line \in Seq(all) /\ Commands!WorkerHand \in Seq(all)
      /\ Commands!Staged \in Seq(all) /\ Commands!UIHand \in Seq(all) /\ pending \in Seq(all)
  BY <1>2, DispatchedIs, PartsOfLine DEF TurnInv
<1>4. log \in Seq(Commands!Entry)
  BY DEF Commanded, QueuesTyped
<1>5. /\ DOMAIN log = 1 .. Len(log) /\ Len(log) \in Nat /\ Len(before) = Len(log)
      /\ \A i \in 1 .. Len(log) : before[i] = log[i].cmd
  <2>1. before = [i \in 1 .. Len(log) |-> log[i].cmd]
    BY <1>4 DEF Commands!Dispatched
  <2> QED
    BY <1>4, <2>1
<1> HIDE DEF all, before, line
<1>6. \A i \in DOMAIN log : log[i].cmd.id = i /\ log[i].cmd.text = TRUE
  <2> SUFFICES ASSUME NEW i \in DOMAIN log PROVE log[i].cmd.id = i /\ log[i].cmd.text = TRUE
    OBVIOUS
  <2>1. /\ before \o line \in Seq(all) /\ Len(before \o line) = Len(before) + Len(line)
        /\ \A j \in 1 .. Len(before) + Len(line) :
               (before \o line)[j] = IF j <= Len(before) THEN before[j] ELSE line[j - Len(before)]
    BY <1>3, ConcatProperties
  <2> DEFINE both == before \o line
  <2> HIDE DEF both
  <2>2. Len(line) \in Nat
    BY <1>3
  <2>3. i \in 1 .. Len(both) /\ both[i] = log[i].cmd
    BY <1>5, <2>1, <2>2 DEF both
  <2>4. i \in DOMAIN both /\ Numbered(both)
    BY <1>1, <2>1, <2>3 DEF both
  <2> QED
    BY <2>3, <2>4 DEF Numbered
<1>7. before \o line = before \o Commands!WorkerHand \o Commands!Staged \o Commands!UIHand \o pending
  <2> DEFINE w == Commands!WorkerHand
             s == Commands!Staged
             u == Commands!UIHand
  <2>0. /\ w \in Seq(all) /\ s \in Seq(all) /\ u \in Seq(all) /\ line = w \o s \o u \o pending
    BY <1>3 DEF line, Undispatched
  <2> HIDE DEF w, s, u
  <2>1. before \o (w \o s \o u \o pending) = before \o w \o s \o u \o pending
    <3>1. FiveOf(all, before, w, s, u, pending)
      BY <1>3, <2>0 DEF FiveOf
    <3> QED
      BY <3>1, LineAfter
  <2> QED
    BY <2>0, <2>1 DEF w, s, u
<1>8. \A i \in DOMAIN log : log[i].data = DataOf(log[i].cmd)
  BY <1>1 DEF Paired
<1> QED
  BY <1>1, <1>6, <1>7, <1>8 DEF before

(***************************************************************************)
(* Commands are dispatched at most once and in the order they were queued, *)
(* with their operand, as long as no transfer overlaps a dispatch; however *)
(* they overlap, what a command carries is used at most once.              *)
(***************************************************************************)
THEOREM CommandsInOrderOnce == Commands!Spec => []InOrderOnce
<1>1. Commanded /\ Once /\ (~overlapped => TurnInv) => InOrderOnce
  <2> SUFFICES ASSUME Commanded, Once, ~overlapped => TurnInv,
                      NEW i \in DOMAIN log, NEW j \in DOMAIN log
               PROVE  /\ i < j /\ log[i].cmd.text /\ log[j].cmd.text
                             => log[i].cmd.id # log[j].cmd.id
                      /\ ~overlapped => /\ log[i].cmd.text
                                        /\ i < j => log[i].cmd.id < log[j].cmd.id
    BY DEF InOrderOnce, Commands!InOrderOnce
  <2>1. /\ i \in Nat /\ j \in Nat
        /\ log[i].cmd.id \in Nat /\ log[i].cmd.text \in BOOLEAN /\ log[j].cmd.text \in BOOLEAN
    <3>1. log \in Seq(Commands!Entry)
      BY DEF Commanded, QueuesTyped
    <3>2. \A c \in Commands!Command \cup {Commands!NoCommand} : c.id \in Nat /\ c.text \in BOOLEAN
      <4>1. \A c \in Commands!Command : c.id \in Nat /\ c.text \in BOOLEAN
        BY QueueSizes DEF Commands!Command
      <4>2. Commands!NoCommand.id = 0 /\ Commands!NoCommand.text = FALSE
        BY DEF Commands!NoCommand
      <4>3. ASSUME NEW c \in Commands!Command \cup {Commands!NoCommand}
            PROVE  c.id \in Nat /\ c.text \in BOOLEAN
        <5>1. CASE c \in Commands!Command
          BY <4>1, <5>1
        <5>2. CASE c = Commands!NoCommand
          <6>1. c.id \in Nat
            BY <4>2, <5>2
          <6>2. c.text \in BOOLEAN
            BY Zenon, <4>2, <5>2
          <6> QED
            BY <6>1, <6>2
        <5> QED
          BY <4>3, <5>1, <5>2
      <4> QED
        BY <4>3
    <3>3. \A e \in Commands!Entry : e.cmd \in Commands!Command \cup {Commands!NoCommand}
      BY DEF Commands!Entry
    <3> QED
      BY <3>1, <3>2, <3>3
  <2>2. i < j /\ log[i].cmd.text /\ log[j].cmd.text => log[i].cmd.id # log[j].cmd.id
    <3> SUFFICES ASSUME i < j, log[i].cmd.text, log[j].cmd.text, log[i].cmd.id = log[j].cmd.id
                 PROVE  FALSE
      OBVIOUS
    <3> DEFINE n == log[i].cmd.id
    <3>1. n \in Nat /\ log[i].cmd.text = TRUE /\ log[j].cmd.text = TRUE
      BY <2>1
    <3>2. Holds("log", i, n) /\ Holds("log", j, n)
      BY <3>1 DEF Holds, Carried
    <3>3. i = j
      BY <2>1, <3>1, <3>2 DEF Once, Places
    <3> QED
      BY <2>1, <3>3
  <2>3. ~overlapped => /\ log[i].cmd.text
                       /\ i < j => log[i].cmd.id < log[j].cmd.id
    BY <2>1, DispatchedFirst
  <2> QED
    BY <2>2, <2>3
<1> QED
  BY <1>1, CommandsInvariant, CarriedOnce, TakingTurns, PTL

(***************************************************************************)
(* As long as no transfer overlaps a dispatch, every command backendQueue_ *)
(* took has been dispatched or is on its way, until the machine is         *)
(* terminated.                                                             *)
(***************************************************************************)
THEOREM NothingIsLostInTurn == Commands!Spec => []NothingLostInTurn
<1>1. Commanded /\ (~overlapped => TurnInv) => NothingLostInTurn
  <2> SUFFICES ASSUME Commanded, TurnInv PROVE Commands!NothingLost
    BY DEF NothingLostInTurn, Commands!NothingLostInTurn
  <2> QED
    BY DispatchedFirst DEF Commands!NothingLost
<1> QED
  BY <1>1, CommandsInvariant, TakingTurns, PTL

(***************************************************************************)
(* As long as no transfer overlaps a dispatch, a save is dispatched with   *)
(* the image it was queued with, and no other command takes an image.      *)
(***************************************************************************)
THEOREM DataStayPaired == Commands!Spec => []DataPaired
<1>1. Commanded /\ (~overlapped => TurnInv) => DataPaired
  <2> SUFFICES ASSUME Commanded, TurnInv, NEW i \in DOMAIN log
               PROVE  log[i].data = IF log[i].cmd.kind = "save" THEN log[i].cmd.id
                                                                ELSE Commands!NoData
    BY DEF DataPaired, Commands!DataPaired
  <2> QED
    BY DispatchedFirst DEF DataOf
<1> QED
  BY <1>1, CommandsInvariant, TakingTurns, PTL
=============================================================================
