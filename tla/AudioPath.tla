----------------------------- MODULE AudioPath -----------------------------
(***************************************************************************)
(* The way of the sound from the emulated machine to the loudspeaker, by   *)
(* way of the emulator thread's loop (ClemensFrontend::runBackend): post   *)
(* the last frame, which also gives back its sound, step the machine, do   *)
(* what the user has commanded, queue what is mixed.  Frames are numbered  *)
(* as they are mixed.                                                      *)
(***************************************************************************)
EXTENDS AudioQueue, FiniteSets

CONSTANTS MixLimit,     \* mix_buffer.frame_count
          MaxMixed,     \* bound: frames mixed in a behaviour
          MaxHeard,     \* bound: frames played in a behaviour
          MaxSaved,     \* bound: snapshots that differ in what is mixed
          Played        \* how much the sound system may ask for at once

ASSUME PathAssumption ==
    /\ MixLimit \in Nat /\ MaxMixed \in Nat /\ Frames = 1 .. MaxMixed
    /\ MaxHeard \in Nat /\ MaxSaved \in Nat /\ Played \subseteq Nat

VARIABLES
    worker,     \* where the loop is
    ok,         \* isOk(): the machine has not stopped its processor
    mixed,      \* the mix buffer up to mix_frame_index
    fastEnds,   \* runSampler_.fastModeDisabledThisFrame
    snapshots,  \* the mix buffers of the snapshots the user has
    made,       \* history: the last frame mixed
    heard,      \* history: all that was played
    dropped,    \* history: what was not queued, was flushed or replaced
    replayed    \* history: what may be queued again

pathVars == <<worker, ok, mixed, fastEnds, snapshots, made, heard, dropped, replayed>>
allVars == <<audioVars, pathVars>>

(* There is a snapshot of a machine that was paused, with nothing mixed.   *)
PathInit ==
    /\ AudioInit
    /\ worker = "post" /\ ok = TRUE /\ mixed = << >> /\ fastEnds = FALSE
    /\ snapshots = {<< >>}
    /\ made = 0 /\ heard = << >> /\ dropped = {} /\ replayed = {}

Elements(s) == {s[i] : i \in DOMAIN s}

(* finishFrame: as many as getFrame found.  Neither does anything for a    *)
(* machine that is not ok, whose frames stay.                              *)
(* Mutant of Consumed: a single frame is given back. *)
ConsumedOne == IF ok THEN SubSeq(mixed, 2, Len(mixed)) ELSE mixed
Consumed == IF ok THEN << >> ELSE mixed

post ==
    /\ worker = "post" /\ worker' = "step"
    /\ mixed' = Consumed /\ fastEnds' = FALSE
    /\ replayed' = IF ok THEN replayed ELSE replayed \union Elements(mixed)
    /\ UNCHANGED <<audioVars, ok, snapshots, made, heard, dropped>>

(* The machine mixes some frames, as long as there is room, and may stop.  *)
step ==
    /\ worker = "step" /\ worker' = "dispatch"
    /\ IF ~ok THEN UNCHANGED <<mixed, made, ok, fastEnds>>
       ELSE \E n \in 0 .. Lesser(MixLimit - Len(mixed), MaxMixed - made) :
              /\ mixed' = mixed \o [i \in 1 .. n |-> made + i]
              /\ made' = made + n
              /\ fastEnds' \in BOOLEAN
              /\ ok' \in BOOLEAN
    /\ UNCHANGED <<audioVars, snapshots, heard, dropped, replayed>>

(* The commands of the user come after the machine's step and before its   *)
(* sound is queued.  A snapshot has the mix buffer with all that is in it. *)
save ==
    /\ worker = "dispatch" /\ ok
    /\ snapshots' = snapshots \union {mixed} /\ Cardinality(snapshots') <= MaxSaved
    /\ UNCHANGED <<audioVars, worker, ok, mixed, fastEnds, made, heard, dropped, replayed>>

(* Another machine, whose frames are queued at once, and so again if they  *)
(* were when it was saved.  What the old one has mixed goes with it.       *)
load ==
    /\ worker = "dispatch"
    /\ \E s \in snapshots :
          /\ mixed' = s /\ replayed' = replayed \union Elements(s)
    /\ ok' = TRUE
    /\ dropped' = dropped \union Elements(mixed)
    /\ UNCHANGED <<audioVars, worker, fastEnds, snapshots, made, heard>>

(* A machine that was paused is to run: the sampler starts anew.           *)
run ==
    /\ worker = "dispatch" /\ fastEnds' = FALSE
    /\ UNCHANGED <<audioVars, worker, ok, mixed, snapshots, made, heard, dropped, replayed>>

QueueFrames ==
    /\ worker = "dispatch" /\ worker' = "post"
    /\ IF fastEnds
       THEN flush /\ dropped' = dropped \union Elements(Waiting) \union Elements(mixed)
       ELSE /\ IF mixed = << >> THEN UNCHANGED audioVars ELSE queue(mixed)
            /\ dropped' = dropped \union (Elements(mixed) \ Elements(Waiting'))
    /\ UNCHANGED <<ok, mixed, fastEnds, snapshots, made, heard, replayed>>

(* The sound system's own thread, at any time.                             *)
Plays ==
    /\ \E n \in Played : mixClemensAudio(n)
    /\ heard' = heard \o played' /\ Len(heard') <= MaxHeard
    /\ UNCHANGED <<worker, ok, mixed, fastEnds, snapshots, made, dropped, replayed>>

PathNext == post \/ step \/ save \/ load \/ run \/ QueueFrames \/ Plays

PathSpec == PathInit /\ [][PathNext]_allVars
-----------------------------------------------------------------------------
(* Each frame but those of a set is larger than all before it.             *)
InOrderBut(s, again) ==
    \A i, j \in DOMAIN s : i < j => s[i] < s[j] \/ s[i] \in again \/ s[j] \in again

(* What was heard, what waits for it, and what is about to be queued.      *)
Sounding == (heard \o Waiting) \o (IF worker = "dispatch" THEN mixed ELSE << >>)

(* Every frame the machine mixes is heard once and in order, and what is   *)
(* not heard was dropped for want of room, by the end of fast mode or with *)
(* its machine.  Only two kinds of frames may come again, and no other     *)
(* suffers by it: those that were mixed in a snapshot that was loaded, and *)
(* the last ones of a machine that stopped its processor, for which        *)
(* finishFrame() does not advance the buffer, as clem_apple2gs.hpp:82 says *)
(* it does: they are queued with every frame of the host.                  *)
HeardOnce ==
    /\ InOrderBut(Sounding, replayed)
    /\ Elements(Sounding) \union dropped = 1 .. made
=============================================================================
