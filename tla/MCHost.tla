------------------------------- MODULE MCHost -------------------------------
(* What the threads of the host share: the ring, the path of a command     *)
(* through two pairs of rings, the path of the sound, and the handshake of *)
(* frames, each on its own: a behaviour is about one of them.              *)
EXTENDS CircularBuffer, AudioPath, BackendSync

CONSTANTS Paths,
          Kinds                       \* of the commands

VARIABLES path,
          pending, pendingData, stagedData, staged_tail, staged_head, staged_array,
          producer, consumer, staged, taken, transfer, stopping, dispatch,
          failed, batch, accepted, overlapped, log

Commands == INSTANCE CommandQueue
                WITH tail <- staged_tail, head <- staged_head, array <- staged_array,
                     prod <- producer, cons <- consumer, pushed <- staged, popped <- taken

ASSUME CommandsAssumption == Commands!QueueAssumption

commandVars ==
    <<pending, pendingData, stagedData, staged_tail, staged_head, staged_array, producer,
      consumer, staged, taken, transfer, stopping, dispatch, failed, batch, accepted,
      overlapped, log>>

MCInit == path \in Paths /\ Init /\ PathInit /\ Commands!Init /\ SyncInit

(* Where the users have sent and edited all they may, and the thread has   *)
(* ended, the handshake may stop, and nothing else anywhere.               *)
MCNext ==
    /\ UNCHANGED path
    /\ \/ path = "ring" /\ Next /\ UNCHANGED <<allVars, commandVars, syncVars>>
       \/ path = "sound" /\ PathNext /\ UNCHANGED <<vars, commandVars, syncVars>>
       \/ path = "commands" /\ Commands!Next /\ UNCHANGED <<vars, allVars, syncVars>>
       \/ path = "frames" /\ SyncNext /\ UNCHANGED <<vars, allVars, commandVars>>
       \/ path = "frames" /\ UNCHANGED <<vars, allVars, commandVars, syncVars>>

MCSpec ==
    /\ MCInit /\ [][MCNext]_<<path, vars, allVars, commandVars, syncVars>>
    /\ WF_syncVars(path = "frames" /\ SyncTick) /\ WF_syncVars(path = "frames" /\ Sync)
    /\ SF_syncVars(path = "frames" /\ SyncLock) /\ WF_syncVars(path = "frames" /\ Worker)
    /\ SF_syncVars(path = "frames" /\ Lock) /\ SF_syncVars(path = "frames" /\ Relock)
    /\ SF_syncVars(path = "frames" /\ Exit)

InOrderOnce == Commands!InOrderOnce
NothingLostInTurn == Commands!NothingLostInTurn
DataPaired == Commands!DataPaired
ResultsHonest == Commands!ResultsHonest
-----------------------------------------------------------------------------
(* A ring of owning pointers: moving out of a slot leaves null behind.     *)
Null(v) == NoItem

SomeFrames == 1 .. MaxMixed

(* Four commands, of all kinds, while transfers and dispatches take turns; *)
(* when some overlap, which is where the states are, two of any kind or    *)
(* three of different kinds.  One frame may come again, any number of      *)
(* times.                                                                  *)
Sent(kind) == Cardinality({i \in DOMAIN accepted : accepted[i].kind = kind})

Bound ==
    /\ Cardinality(replayed) <= 1
    /\ Len(accepted) > 3 => ~overlapped /\ \A kind \in Kinds : Sent(kind) \in {1, 2}
    /\ Len(accepted) > 2 /\ overlapped => \A kind \in Kinds : Sent(kind) = 1
=============================================================================
