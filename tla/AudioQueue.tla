---------------------------- MODULE AudioQueue ----------------------------
(***************************************************************************)
(* ClemensAudioDevice (host/clem_audio.cpp): the emulator thread queues    *)
(* what the machine has mixed, the thread of the sound system takes what   *)
(* it is about to play.  The queue is a flat buffer that is pushed to the  *)
(* front when a batch does not fit behind what is there.  Each operation   *)
(* holds queuedFrameMutex_ from start to end.                              *)
(***************************************************************************)
EXTENDS Integers, Sequences

CONSTANTS Frames,      \* a frame of sound
          Silence,     \* what the buffer holds before anything is queued
          queuedFrameLimit

ASSUME AudioAssumption == queuedFrameLimit \in Nat \ {0} /\ Silence \notin Frames

VARIABLES
    queuedFrameBuffer,
    queuedFrameHead, queuedFrameTail,
    offered,     \* the argument of the last queue()
    played       \* what the last mixClemensAudio() played, but for the silence after it

audioVars == <<queuedFrameBuffer, queuedFrameHead, queuedFrameTail, offered, played>>

(* Between head and tail there are frames that were queued.                *)
AudioTypeOK ==
    /\ queuedFrameBuffer \in [0 .. queuedFrameLimit - 1 -> Frames \union {Silence}]
    /\ queuedFrameTail \in 0 .. queuedFrameLimit
    /\ queuedFrameHead \in 0 .. queuedFrameTail
    /\ \A i \in queuedFrameHead .. queuedFrameTail - 1 : queuedFrameBuffer[i] \in Frames
    /\ offered \in Seq(Frames) /\ played \in Seq(Frames)

AudioInit ==
    /\ queuedFrameBuffer = [i \in 0 .. queuedFrameLimit - 1 |-> Silence]
    /\ queuedFrameHead = 0 /\ queuedFrameTail = 0
    /\ offered = << >> /\ played = << >>

Lesser(a, b) == IF a < b THEN a ELSE b

(* What has been played makes room when it is needed.                      *)
(* Mutant of Compacts: only when everything has been played. *)
CompactsEmpty(n) == n > queuedFrameLimit - queuedFrameTail /\ queuedFrameHead = queuedFrameTail
Compacts(n) == n > queuedFrameLimit - queuedFrameTail /\ queuedFrameHead > 0

queue(batch) ==
    LET moved == Compacts(Len(batch))
        end == IF moved THEN queuedFrameTail - queuedFrameHead ELSE queuedFrameTail
        count == Lesser(Len(batch), queuedFrameLimit - end)
    IN /\ queuedFrameBuffer' = [i \in 0 .. queuedFrameLimit - 1 |->
             IF end <= i /\ i < end + count THEN batch[i - end + 1]
             ELSE IF moved /\ i < end THEN queuedFrameBuffer[queuedFrameHead + i]
             ELSE queuedFrameBuffer[i]]
       /\ queuedFrameHead' = IF moved THEN 0 ELSE queuedFrameHead
       /\ queuedFrameTail' = end + count
       /\ offered' = batch /\ played' = << >>

flush ==
    /\ queuedFrameHead' = 0 /\ queuedFrameTail' = 0
    /\ offered' = << >> /\ played' = << >>
    /\ UNCHANGED queuedFrameBuffer

mixClemensAudio(num_frames) ==
    LET n == Lesser(num_frames, queuedFrameTail - queuedFrameHead)
    IN /\ played' = [i \in 1 .. n |-> queuedFrameBuffer[queuedFrameHead + i - 1]]
       /\ queuedFrameHead' = queuedFrameHead + n
       /\ offered' = << >>
       /\ UNCHANGED <<queuedFrameBuffer, queuedFrameTail>>

AudioNext ==
    \/ \E batch \in Seq(Frames) : queue(batch)
    \/ flush
    \/ \E n \in Nat : mixClemensAudio(n)

AudioSpec == AudioInit /\ [][AudioNext]_audioVars
-----------------------------------------------------------------------------
(* The frames that wait to be played.                                      *)
Waiting ==
    [i \in 1 .. queuedFrameTail - queuedFrameHead |-> queuedFrameBuffer[queuedFrameHead + i - 1]]

FlatQueue == INSTANCE FrameFifo
            WITH Limit <- queuedFrameLimit, waiting <- Waiting, taken <- played

(* Whatever is queued and whenever the sound system asks, the flat buffer  *)
(* is a bounded first-in first-out queue: no frame is played twice, out of *)
(* order or after it was overwritten, and none is dropped while there is   *)
(* room for it anywhere in the buffer.                                     *)
ImplementsFrameFifo == FlatQueue!Spec
=============================================================================
