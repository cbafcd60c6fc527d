------------------------------ MODULE BackendSync ------------------------------
(***************************************************************************)
(* The handshake between the UI thread (ClemensFrontend::frame) and the    *)
(* emulator thread (ClemensFrontend::runBackend), host/clem_front.cpp:     *)
(* one mutex, one condition variable, two frame counters, the shared       *)
(* backendState_ and lastCommandState_, and the staged command queue,      *)
(* which the worker dispatches without the mutex.                          *)
(*                                                                         *)
(* The queues are sequences that transfers and dispatches take elements    *)
(* from one at a time; module CommandQueue has their rings.                *)
(***************************************************************************)
EXTENDS Naturals, Sequences

CONSTANTS SeqMod,     \* the frame counters wrap at SeqMod (2^64 in the code)
          QueueSize,  \* 16 in the code
          MaxSent,    \* bound: how many commands are queued
          MaxEdits    \* bound: how often a configuration changes

ASSUME SeqModAssumption == SeqMod \in Nat /\ SeqMod >= 2
ASSUME BoundsAssumption == QueueSize \in Nat /\ MaxSent \in Nat /\ MaxEdits \in Nat

VARIABLES
    mutex,          \* frameMutex_: who holds it
    frameSeqNo, frameLastSeqNo,
    backendState,   \* backendState_: does it hold a frame, and which config
    results,        \* what the worker's last dispatchAll returned
    terminated,     \* ... and its second member
    reported,       \* lastCommandState_.results
    gsConfig,       \* lastCommandState_.gsConfig, a version; NoConfig: empty
    backendQueue, stagedQueue,
    uiPC, copyState,        \* the UI thread, in syncBackend(copyState)
    workerPC,               \* the emulator thread; "off": not joinable
    config,         \* config_.gs, a version
    machineConfig, configUpdated,   \* the machine's own, not yet posted
    edits,          \* how many versions there have been
    sent,           \* history: how many commands were queued
    executed,       \* history: the commands dispatched, but for the batches
                    \* that ended the thread
    delivered       \* history: the results processed by the UI

uiVars == <<uiPC, copyState, backendQueue, config, delivered, sent>>
workerVars == <<workerPC, results, terminated, machineConfig, configUpdated, executed>>
sharedVars == <<backendState, reported, gsConfig>>
syncVars ==
    <<mutex, frameSeqNo, frameLastSeqNo, stagedQueue, edits, uiVars, workerVars, sharedVars>>

Command == [id : 1 .. MaxSent, terminate : BOOLEAN]
Ids == 1 .. MaxSent
Version == 1 .. MaxEdits + 1
NoConfig == 0
EmptyState == [posted |-> FALSE, config |-> NoConfig]

UIPCs == {"frame", "lock", "copy", "stage", "notify", "join"}
WorkerPCs == {"off", "reset", "lock", "post", "wait", "waiting", "relock", "run",
              "dispatch", "clear", "audio", "exit", "done"}

SyncTypeOK ==
    /\ mutex \in {"free", "ui", "worker"}
    /\ frameSeqNo \in 0 .. SeqMod - 1 /\ frameLastSeqNo \in 0 .. SeqMod - 1
    /\ backendState \in [posted : BOOLEAN, config : Version \cup {NoConfig}]
    /\ results \in Seq(Ids) /\ reported \in Seq(Ids) /\ delivered \in Seq(Ids)
    /\ terminated \in BOOLEAN
    /\ gsConfig \in Version \cup {NoConfig}
    /\ backendQueue \in Seq(Command) /\ stagedQueue \in Seq(Command)
    /\ uiPC \in UIPCs /\ copyState \in BOOLEAN
    /\ workerPC \in WorkerPCs
    /\ config \in Version /\ machineConfig \in Version /\ configUpdated \in BOOLEAN
    /\ edits \in Version /\ sent \in 0 .. MaxSent
    /\ executed \in Seq(Ids)

(* Both counters start at kFrameSeqNoInvalid, the largest value. *)
SyncInit ==
    /\ mutex = "free"
    /\ frameSeqNo = SeqMod - 1 /\ frameLastSeqNo = SeqMod - 1
    /\ backendState = EmptyState
    /\ results = <<>> /\ terminated = FALSE
    /\ reported = <<>> /\ gsConfig = NoConfig
    /\ backendQueue = <<>> /\ stagedQueue = <<>>
    /\ uiPC = "frame" /\ copyState = TRUE
    /\ workerPC = "off"
    /\ config = 1 /\ machineConfig = 1 /\ configUpdated = FALSE /\ edits = 1
    /\ sent = 0 /\ executed = <<>> /\ delivered = <<>>

(* push on a full ring drops the element. *)
Pushed(queue, cmd) == IF Len(queue) < QueueSize THEN Append(queue, cmd) ELSE queue

AppliedConfig(stored) == IF stored = NoConfig THEN config ELSE stored

--------------------------------------------------------------------------------
(* The UI thread: what the user does between two syncs. *)

QueueCommand ==
    /\ uiPC = "frame"
    /\ sent < MaxSent
    /\ sent' = sent + 1
    /\ backendQueue' = Pushed(backendQueue, [id |-> sent', terminate |-> FALSE])
    /\ UNCHANGED <<mutex, frameSeqNo, frameLastSeqNo, stagedQueue, edits, uiPC, copyState,
                   config, delivered, workerVars, sharedVars>>

(* insertDisk, insertSmartDisk and the settings while the machine is off. *)
EditConfig ==
    /\ uiPC = "frame" /\ workerPC = "off"
    /\ edits <= MaxEdits
    /\ edits' = edits + 1
    /\ config' = edits'
    /\ UNCHANGED <<mutex, frameSeqNo, frameLastSeqNo, stagedQueue, uiPC, copyState,
                   backendQueue, delivered, sent, workerVars, sharedVars>>

(* Mutant of StartBackend: mount() does not publish its configuration. *)
StartBackendUnsaved ==
    /\ uiPC = "frame" /\ workerPC = "off"
    /\ sent < MaxSent
    /\ sent' = sent + 1
    /\ backendQueue' = Pushed(backendQueue, [id |-> sent', terminate |-> FALSE])
    /\ machineConfig' = config
    /\ configUpdated' = FALSE
    /\ results' = <<>>
    /\ terminated' = FALSE
    /\ workerPC' = "reset"
    /\ UNCHANGED <<mutex, frameSeqNo, frameLastSeqNo, stagedQueue, edits, uiPC, copyState,
                   config, delivered, executed, sharedVars>>

(* startBackend: mount the machine with config_.gs, start the thread, then *)
(* queue a reset and a run (here one command).                             *)
StartBackend ==
    /\ uiPC = "frame" /\ workerPC = "off"
    /\ sent < MaxSent
    /\ sent' = sent + 1
    /\ backendQueue' = Pushed(backendQueue, [id |-> sent', terminate |-> FALSE])
    /\ machineConfig' = config
    /\ configUpdated' = TRUE
    /\ results' = <<>>
    /\ terminated' = FALSE
    /\ workerPC' = "reset"
    /\ UNCHANGED <<mutex, frameSeqNo, frameLastSeqNo, stagedQueue, edits, uiPC, copyState,
                   config, delivered, executed, sharedVars>>

(* stopBackend while a thread runs: queue a Terminate, sync without copying. *)
StopBackend ==
    /\ uiPC = "frame" /\ workerPC # "off"
    /\ sent < MaxSent
    /\ sent' = sent + 1
    /\ backendQueue' = Pushed(backendQueue, [id |-> sent', terminate |-> TRUE])
    /\ uiPC' = "lock" /\ copyState' = FALSE
    /\ UNCHANGED <<mutex, frameSeqNo, frameLastSeqNo, stagedQueue, edits, config, delivered,
                   workerVars, sharedVars>>

(* stopBackend again, from the destructor or the Shutdown menu action. *)
StopStoppedBackend ==
    /\ uiPC = "frame" /\ workerPC = "off"
    /\ config' = AppliedConfig(gsConfig)
    /\ UNCHANGED <<mutex, frameSeqNo, frameLastSeqNo, stagedQueue, edits, uiPC, copyState,
                   backendQueue, delivered, sent, workerVars, sharedVars>>

(* The frame timer: syncBackend(true). *)
SyncTick ==
    /\ uiPC = "frame"
    /\ uiPC' = "lock" /\ copyState' = TRUE
    /\ UNCHANGED <<mutex, frameSeqNo, frameLastSeqNo, stagedQueue, edits, backendQueue,
                   config, delivered, sent, workerVars, sharedVars>>

--------------------------------------------------------------------------------
(* The UI thread, in syncBackend. *)

(* Mutant of SyncLock: copies whether or not there is a new frame. *)
SyncLockUnchecked ==
    /\ uiPC = "lock" /\ mutex = "free"
    /\ mutex' = "ui"
    /\ uiPC' = IF copyState THEN "copy" ELSE "stage"
    /\ UNCHANGED <<frameSeqNo, frameLastSeqNo, stagedQueue, edits, copyState, backendQueue,
                   config, delivered, sent, workerVars, sharedVars>>

SyncLock ==
    /\ uiPC = "lock" /\ mutex = "free"
    /\ mutex' = "ui"
    /\ uiPC' = IF frameLastSeqNo # frameSeqNo /\ copyState THEN "copy" ELSE "stage"
    /\ UNCHANGED <<frameSeqNo, frameLastSeqNo, stagedQueue, edits, copyState, backendQueue,
                   config, delivered, sent, workerVars, sharedVars>>

(* Mutant of SyncCopy: results.clear() is forgotten. *)
SyncCopyKeeps ==
    /\ uiPC = "copy"
    /\ backendState' = EmptyState
    /\ delivered' = delivered \o reported
    /\ reported' = reported
    /\ config' = AppliedConfig(IF backendState.config # NoConfig
                               THEN backendState.config ELSE gsConfig)
    /\ gsConfig' = NoConfig
    /\ uiPC' = "stage"
    /\ UNCHANGED <<mutex, frameSeqNo, frameLastSeqNo, stagedQueue, edits, copyState,
                   backendQueue, sent, workerVars>>

(* The end of the copy: read the frame through backendState_'s pointers, *)
(* process the results, take over a changed configuration.               *)
SyncCopy ==
    /\ uiPC = "copy"
    /\ backendState' = EmptyState
    /\ delivered' = delivered \o reported
    /\ reported' = <<>>
    /\ config' = AppliedConfig(IF backendState.config # NoConfig
                               THEN backendState.config ELSE gsConfig)
    /\ gsConfig' = NoConfig
    /\ uiPC' = "stage"
    /\ UNCHANGED <<mutex, frameSeqNo, frameLastSeqNo, stagedQueue, edits, copyState,
                   backendQueue, sent, workerVars>>

(* stagedBackendQueue_.queue(backendQueue_), one command... *)
SyncStage ==
    /\ uiPC = "stage"
    /\ backendQueue # <<>> /\ Len(stagedQueue) < QueueSize
    /\ stagedQueue' = Append(stagedQueue, Head(backendQueue))
    /\ backendQueue' = Tail(backendQueue)
    /\ UNCHANGED <<mutex, frameSeqNo, frameLastSeqNo, edits, uiPC, copyState, config,
                   delivered, sent, workerVars, sharedVars>>

(* ... and when it is done, acknowledge the frame and unlock. *)
SyncAcknowledge ==
    /\ uiPC = "stage"
    /\ backendQueue = <<>> \/ Len(stagedQueue) >= QueueSize
    /\ frameLastSeqNo' = frameSeqNo
    /\ mutex' = "free"
    /\ uiPC' = "notify"
    /\ UNCHANGED <<frameSeqNo, stagedQueue, edits, copyState, backendQueue, config,
                   delivered, sent, workerVars, sharedVars>>

(* Mutant of SyncNotify: notify_one() is forgotten. *)
SyncNotifyNobody ==
    /\ uiPC = "notify"
    /\ workerPC' = workerPC
    /\ uiPC' = IF copyState THEN "frame" ELSE "join"
    /\ UNCHANGED <<mutex, frameSeqNo, frameLastSeqNo, stagedQueue, edits, copyState,
                   backendQueue, config, delivered, sent, results, terminated,
                   machineConfig, configUpdated, executed, sharedVars>>

(* readyForFrame_.notify_one(); stopBackend joins next. *)
SyncNotify ==
    /\ uiPC = "notify"
    /\ workerPC' = IF workerPC = "waiting" THEN "relock" ELSE workerPC
    /\ uiPC' = IF copyState THEN "frame" ELSE "join"
    /\ UNCHANGED <<mutex, frameSeqNo, frameLastSeqNo, stagedQueue, edits, copyState,
                   backendQueue, config, delivered, sent, results, terminated,
                   machineConfig, configUpdated, executed, sharedVars>>

(* backendThread_.join() returns. lastCommandState_.gsConfig is kept. *)
Join ==
    /\ uiPC = "join" /\ workerPC = "done"
    /\ workerPC' = "off"
    /\ config' = AppliedConfig(gsConfig)
    /\ uiPC' = "frame"
    /\ UNCHANGED <<mutex, frameSeqNo, frameLastSeqNo, stagedQueue, edits, copyState,
                   backendQueue, delivered, sent, results, terminated, machineConfig,
                   configUpdated, executed, sharedVars>>

Sync == SyncLock \/ SyncCopy \/ SyncStage \/ SyncAcknowledge \/ SyncNotify \/ Join

User == QueueCommand \/ EditConfig \/ StartBackend \/ StopBackend \/ StopStoppedBackend

UI == User \/ SyncTick \/ Sync

--------------------------------------------------------------------------------
(* The emulator thread, runBackend. *)

(* backendState_.reset(), without the mutex. *)
Reset ==
    /\ workerPC = "reset"
    /\ backendState' = EmptyState
    /\ workerPC' = "lock"
    /\ UNCHANGED <<mutex, frameSeqNo, frameLastSeqNo, stagedQueue, edits, uiVars, results,
                   terminated, machineConfig, configUpdated, executed, reported, gsConfig>>

Lock ==
    /\ workerPC = "lock" /\ mutex = "free"
    /\ mutex' = "worker"
    /\ workerPC' = "post"
    /\ UNCHANGED <<frameSeqNo, frameLastSeqNo, stagedQueue, edits, uiVars, results,
                   terminated, machineConfig, configUpdated, executed, sharedVars>>

(* post a frame, with the configuration if it changed; append the results. *)
Post ==
    /\ workerPC = "post"
    /\ backendState' = [posted |-> TRUE,
                        config |-> IF configUpdated THEN machineConfig ELSE backendState.config]
    /\ configUpdated' = FALSE
    /\ reported' = reported \o results
    /\ frameSeqNo' = (frameSeqNo + 1) % SeqMod
    /\ workerPC' = "wait"
    /\ UNCHANGED <<mutex, frameLastSeqNo, stagedQueue, edits, uiVars, results, terminated,
                   machineConfig, executed, gsConfig>>

(* readyForFrame_.wait: test the predicate with the mutex held; leave, or *)
(* release the mutex and block.                                           *)
Wait ==
    /\ workerPC = "wait"
    /\ mutex' = "free"
    /\ workerPC' = IF frameLastSeqNo = frameSeqNo THEN "run" ELSE "waiting"
    /\ UNCHANGED <<frameSeqNo, frameLastSeqNo, stagedQueue, edits, uiVars, results,
                   terminated, machineConfig, configUpdated, executed, sharedVars>>

SpuriousWakeup ==
    /\ workerPC = "waiting"
    /\ workerPC' = "relock"
    /\ UNCHANGED <<mutex, frameSeqNo, frameLastSeqNo, stagedQueue, edits, uiVars, results,
                   terminated, machineConfig, configUpdated, executed, sharedVars>>

(* Mutant of Relock: any wake-up counts, without a second test of the predicate. *)
RelockRuns ==
    /\ workerPC = "relock" /\ mutex = "free"
    /\ mutex' = "free"
    /\ workerPC' = "run"
    /\ UNCHANGED <<frameSeqNo, frameLastSeqNo, stagedQueue, edits, uiVars, results,
                   terminated, machineConfig, configUpdated, executed, sharedVars>>

Relock ==
    /\ workerPC = "relock" /\ mutex = "free"
    /\ mutex' = "worker"
    /\ workerPC' = "wait"
    /\ UNCHANGED <<frameSeqNo, frameLastSeqNo, stagedQueue, edits, uiVars, results,
                   terminated, machineConfig, configUpdated, executed, sharedVars>>

(* step: the machine runs a frame, then dispatchAll begins. *)
Run ==
    /\ workerPC = "run"
    /\ results' = <<>>
    /\ terminated' = FALSE
    /\ workerPC' = "dispatch"
    /\ UNCHANGED <<mutex, frameSeqNo, frameLastSeqNo, stagedQueue, edits, uiVars,
                   machineConfig, configUpdated, executed, sharedVars>>

(* One command; it may change the machine's configuration (a disk). *)
Dispatch(changesConfig) ==
    /\ workerPC = "dispatch" /\ ~terminated /\ stagedQueue # <<>>
    /\ changesConfig => edits <= MaxEdits /\ ~Head(stagedQueue).terminate
    /\ stagedQueue' = Tail(stagedQueue)
    /\ executed' = Append(executed, Head(stagedQueue).id)
    /\ results' = Append(results, Head(stagedQueue).id)
    /\ terminated' = Head(stagedQueue).terminate
    /\ edits' = IF changesConfig THEN edits + 1 ELSE edits
    /\ machineConfig' = IF changesConfig THEN edits' ELSE machineConfig
    /\ configUpdated' = (configUpdated \/ changesConfig)
    /\ UNCHANGED <<mutex, frameSeqNo, frameLastSeqNo, uiVars, workerPC, sharedVars>>

DispatchEnd ==
    /\ workerPC = "dispatch"
    /\ terminated \/ stagedQueue = <<>>
    /\ workerPC' = "clear"
    /\ UNCHANGED <<mutex, frameSeqNo, frameLastSeqNo, stagedQueue, edits, uiVars, results,
                   terminated, machineConfig, configUpdated, executed, sharedVars>>

(* queue_.clear(), which takes what was staged since along. *)
Clear ==
    /\ workerPC = "clear"
    /\ stagedQueue' = <<>>
    /\ workerPC' = "audio"
    /\ UNCHANGED <<mutex, frameSeqNo, frameLastSeqNo, edits, uiVars, results, terminated,
                   machineConfig, configUpdated, executed, sharedVars>>

(* Render and queue the audio of the frame; loop, or leave with the results *)
(* of the batch unreported.                                                 *)
Audio ==
    /\ workerPC = "audio"
    /\ workerPC' = IF terminated THEN "exit" ELSE "lock"
    /\ executed' = IF terminated THEN SubSeq(executed, 1, Len(executed) - Len(results))
                   ELSE executed
    /\ UNCHANGED <<mutex, frameSeqNo, frameLastSeqNo, stagedQueue, edits, uiVars, results,
                   terminated, machineConfig, configUpdated, sharedVars>>

(* queryConfig under a lock_guard; the thread and its machine end. *)
Exit ==
    /\ workerPC = "exit" /\ mutex = "free"
    /\ gsConfig' = machineConfig
    /\ workerPC' = "done"
    /\ UNCHANGED <<mutex, frameSeqNo, frameLastSeqNo, stagedQueue, edits, uiVars, results,
                   terminated, machineConfig, configUpdated, executed, backendState,
                   reported>>

Worker ==
    \/ Reset \/ Lock \/ Post \/ Wait \/ Relock \/ Run
    \/ \E changesConfig \in BOOLEAN : Dispatch(changesConfig)
    \/ DispatchEnd \/ Clear \/ Audio \/ Exit

SyncNext == UI \/ Worker \/ SpuriousWakeup

(* Frames keep coming and both threads keep running; a thread blocked on the *)
(* mutex gets it in the end, since the other holds it for a small part of a  *)
(* frame only. Users and spurious wakeups owe nothing.                       *)
Fairness ==
    /\ WF_syncVars(SyncTick) /\ WF_syncVars(Sync) /\ SF_syncVars(SyncLock)
    /\ WF_syncVars(Worker) /\ SF_syncVars(Lock) /\ SF_syncVars(Relock) /\ SF_syncVars(Exit)

SyncSpec == SyncInit /\ [][SyncNext]_syncVars

FairSpec == SyncSpec /\ Fairness

--------------------------------------------------------------------------------
(***************************************************************************)
(* backendState_ "is guaranteed to remain untouched until the last frame   *)
(* sequence number is updated" (clem_front.cpp:1158): while the UI reads   *)
(* the machine through it, it holds a posted frame and the worker is       *)
(* blocked, neither running the machine nor destroying it.                 *)
(***************************************************************************)
FrameStable ==
    uiPC = "copy" => /\ mutex = "ui"
                     /\ workerPC \in {"waiting", "relock"}
                     /\ backendState.posted

(***************************************************************************)
(* The worker is at most one frame ahead of the UI, whatever wraps.        *)
(***************************************************************************)
AtMostOneAhead ==
    frameSeqNo \in {frameLastSeqNo, (frameLastSeqNo + 1) % SeqMod}

(***************************************************************************)
(* No frame, and no configuration change posted with it, is replaced by    *)
(* the next one before the UI has copied it, except while powering off.    *)
(***************************************************************************)
NoFrameSkipped ==
    [][frameSeqNo' # frameSeqNo =>
        ~backendState.posted \/ (~copyState /\ uiPC \in {"notify", "join"})]_syncVars

(***************************************************************************)
(* LastCommandState "sticks around until processed by the UI frame"        *)
(* (clem_frame_state.hpp:124): outside the batches that end the thread,    *)
(* the result of every command dispatched is delivered once, in order, or  *)
(* still on its way.                                                       *)
(***************************************************************************)
(* The results dispatchAll returned that are not yet appended. *)
Unposted ==
    IF workerPC \in {"dispatch", "clear", "audio", "lock", "post"} THEN results ELSE <<>>

ResultsAccounted == executed = delivered \o reported \o Unposted

(***************************************************************************)
(* A configuration is never replaced by an older one: neither a disk       *)
(* inserted while the machine ran nor an edit made while it was off is     *)
(* undone by the handshake, since mount() publishes what it mounted before *)
(* a stale gsConfig of the last session can be applied.  A stopBackend of  *)
(* a backend that has stopped is the exception: it applies gsConfig again. *)
(***************************************************************************)
ConfigMonotone == [][config' >= config \/ StopStoppedBackend]_syncVars

(***************************************************************************)
(* A worker that waits runs its next frame, unless the UI joins it: no     *)
(* wake-up is lost between the predicate and the notification.             *)
(***************************************************************************)
WaitingRuns == workerPC = "waiting" ~> workerPC = "run" \/ uiPC = "join"

(***************************************************************************)
(* "Most commands are processed on the next execution frame"               *)
(* (clem_command_queue.hpp:82), the Terminate of stopBackend too: the      *)
(* thread ends and the join returns.                                       *)
(***************************************************************************)
PowerOffCompletes == uiPC = "join" ~> uiPC = "frame"
================================================================================
