----------------------------- MODULE CommandQueue ------------------------------
(***************************************************************************)
(* The path of a command from the UI thread to the emulator thread         *)
(* (host/clem_command_queue.cpp).  The UI queues it on backendQueue_, each *)
(* UI frame transfers backendQueue_ to stagedBackendQueue_, and the worker *)
(* dispatches stagedBackendQueue_ once per emulated frame.  A queue is two *)
(* rings, one of commands and one of the data that belongs to them.        *)
(*                                                                         *)
(* The staged command ring is the ring of module CircularBuffer, load by   *)
(* load, because dispatchAll clears it as the consumer.  The other three   *)
(* rings are only pushed and popped and appear as the FIFOs that module    *)
(* CircularBufferProofs shows them to be.                                  *)
(*                                                                         *)
(* A transfer and a dispatch may overlap, as syncBackend and runBackend do *)
(* when a frame takes the emulator longer than the UI.  As long as every   *)
(* UI frame finds the worker waiting they do not; overlapped tells which.  *)
(***************************************************************************)
EXTENDS Naturals, Sequences

CONSTANTS QueueSize,    \* 16 in the code
          Kinds,        \* which kinds of command the UI queues
          MaxSent       \* bound: how many commands the UI queues

(* What dispatchAll distinguishes: Terminate, SaveMachine (overwrites        *)
(* commandFailed), those that may set commandFailed (InsertDisk,             *)
(* AddBreakpoint, LoadMachine...) and those that cannot (Break, Run...).     *)
AllKinds == {"terminate", "save", "fallible", "plain"}

QueueAssumption == QueueSize \in Nat \ {0} /\ Kinds \subseteq AllKinds /\ MaxSent \in Nat

(* A command, numbered in the order queued; text: its operand is there. *)
Command == [id : 1 .. MaxSent, kind : Kinds, text : BOOLEAN]

(* Command cmd; as dispatchAll declares it, of type Undefined. *)
NoCommand == [id |-> 0, kind |-> "undefined", text |-> FALSE]

(* Moving a command moves its operand and copies its type. *)
OperandMoved(cmd) == [cmd EXCEPT !.text = FALSE]

NoData == 0

VARIABLES
    pending, pendingData,           \* backendQueue_: its commands, their data
    stagedData,                     \* stagedBackendQueue_.dataQueue_
    tail, head, array, prod, cons, pushed, popped,  \* stagedBackendQueue_.queue_
    transfer,   \* where the UI is in queue(other)
    stopping,   \* where the UI is in stopBackend
    dispatch,   \* where the worker is in dispatchAll
    failed,     \* dispatchAll's commandFailed
    batch,      \* history: how many commands were dispatched before this batch
    accepted,   \* history: the commands backendQueue_ took
    overlapped, \* history: a transfer and a dispatch have overlapped
    log         \* history: the commands dispatched, with data, outcome, result

ringVars == <<tail, head, array, prod, cons, pushed, popped>>
uiVars == <<pending, pendingData, transfer, stopping, accepted>>
workerVars == <<dispatch, failed, batch, log>>
vars == <<ringVars, uiVars, workerVars, stagedData, overlapped>>

Ring == INSTANCE CircularBuffer
            WITH Size <- QueueSize, Items <- Command, NoItem <- NoCommand,
                 MovedFrom <- OperandMoved

Entry == [cmd : Command \cup {NoCommand}, data : 0 .. MaxSent,
          ok : BOOLEAN, success : BOOLEAN, batch : Nat]

TypeOK ==
    /\ Ring!TypeOK
    /\ pending \in Seq(Command) /\ Len(pending) <= QueueSize
    /\ pendingData \in Seq(0 .. MaxSent) /\ Len(pendingData) <= QueueSize
    /\ stagedData \in Seq(0 .. MaxSent) /\ Len(stagedData) <= QueueSize
    /\ transfer \in {"idle", "check", "push", "data"}
    /\ stopping \in {"no", "sync", "join"}
    /\ dispatch \in {"parked", "check", "pop", "execute", "clear", "exit"}
    /\ failed \in BOOLEAN
    /\ batch \in Nat
    /\ accepted \in Seq(Command)
    /\ overlapped \in BOOLEAN
    /\ log \in Seq(Entry)

Init ==
    /\ Ring!Init
    /\ pending = <<>> /\ pendingData = <<>> /\ stagedData = <<>>
    /\ transfer = "idle"
    /\ stopping = "no"
    /\ dispatch = "parked"
    /\ failed = FALSE
    /\ batch = 0
    /\ accepted = <<>>
    /\ overlapped = FALSE
    /\ log = <<>>

--------------------------------------------------------------------------------
(* The UI thread. *)

(* push: a full ring drops the element and the result is ignored. *)
Pushed(queue, element) ==
    IF Len(queue) < QueueSize THEN Append(queue, element) ELSE queue

(* Mutant of Queue: only a save pushes data. *)
QueueDataOfSaves(kind) ==
    LET cmd == [id |-> Len(accepted) + 1, kind |-> kind, text |-> TRUE]
    IN  /\ transfer = "idle" /\ stopping = "no"
        /\ Len(accepted) < MaxSent
        /\ pending' = Pushed(pending, cmd)
        /\ pendingData' = IF kind = "save" THEN Pushed(pendingData, cmd.id) ELSE pendingData
        /\ accepted' = IF Len(pending) < QueueSize THEN Append(accepted, cmd) ELSE accepted
        /\ stopping' = IF kind = "terminate" THEN "sync" ELSE "no"
        /\ UNCHANGED <<ringVars, workerVars, transfer, stagedData>>

(* queue(cmd, data) on backendQueue_; the data of a save is its image. *)
Queue(kind) ==
    LET cmd == [id |-> Len(accepted) + 1, kind |-> kind, text |-> TRUE]
        data == IF kind = "save" THEN cmd.id ELSE NoData
    IN  /\ transfer = "idle" /\ stopping = "no"
        /\ Len(accepted) < MaxSent
        /\ pending' = Pushed(pending, cmd)
        /\ pendingData' = Pushed(pendingData, data)
        /\ accepted' = IF Len(pending) < QueueSize THEN Append(accepted, cmd) ELSE accepted
        /\ stopping' = IF kind = "terminate" THEN "sync" ELSE "no"
        /\ UNCHANGED <<ringVars, workerVars, transfer, stagedData>>

(* queue(other): commands first, one at a time while there is room... *)
BeginTransfer ==
    /\ transfer = "idle" /\ stopping # "join"
    /\ transfer' = "check"
    /\ UNCHANGED <<ringVars, workerVars, pending, pendingData, stopping, accepted, stagedData>>

(* Mutant of IsFull: transfers on whether or not there is room. *)
IsFullIgnored ==
    /\ transfer = "check"
    /\ \/ /\ Ring!IsFullLoadTail
          /\ transfer' = "check"
       \/ /\ Ring!IsFullLoadHead
          /\ transfer' = IF pending # <<>> THEN "push" ELSE "data"
    /\ UNCHANGED <<workerVars, pending, pendingData, stopping, accepted, stagedData>>

IsFull ==
    /\ transfer = "check"
    /\ \/ /\ Ring!IsFullLoadTail
          /\ transfer' = "check"
       \/ /\ Ring!IsFullLoadHead
          /\ transfer' = IF prod'.room /\ pending # <<>> THEN "push" ELSE "data"
    /\ UNCHANGED <<workerVars, pending, pendingData, stopping, accepted, stagedData>>

(* Mutant of PopOther: peeks at the command and leaves it. *)
PeekOther ==
    /\ transfer = "push"
    /\ Ring!PushLoadTail(Head(pending))
    /\ pending' = pending
    /\ UNCHANGED <<workerVars, transfer, pendingData, stopping, accepted, stagedData>>

PopOther ==
    /\ transfer = "push"
    /\ Ring!PushLoadTail(Head(pending))
    /\ pending' = Tail(pending)
    /\ UNCHANGED <<workerVars, transfer, pendingData, stopping, accepted, stagedData>>

PushStaged ==
    /\ transfer = "push"
    /\ \/ /\ Ring!PushLoadHead \/ Ring!PushWrite
          /\ transfer' = "push"
       \/ /\ Ring!PushStoreTail \/ Ring!PushFails
          /\ transfer' = "check"
    /\ UNCHANGED <<workerVars, pending, pendingData, stopping, accepted, stagedData>>

(* ... then the data, likewise. stopBackend waits for the worker next. *)
TransferData ==
    /\ transfer = "data"
    /\ IF Len(stagedData) < QueueSize /\ pendingData # <<>>
       THEN /\ stagedData' = Append(stagedData, Head(pendingData))
            /\ pendingData' = Tail(pendingData)
            /\ UNCHANGED <<transfer, stopping>>
       ELSE /\ transfer' = "idle"
            /\ stopping' = IF stopping = "sync" THEN "join" ELSE stopping
            /\ UNCHANGED <<stagedData, pendingData>>
    /\ UNCHANGED <<ringVars, workerVars, pending, accepted>>

UI ==
    \/ \E kind \in Kinds : Queue(kind)
    \/ BeginTransfer
    \/ IsFull
    \/ PopOther
    \/ PushStaged
    \/ TransferData

--------------------------------------------------------------------------------
(* The worker, in dispatchAll. *)

(* Mutant of BeginDispatch: commandFailed is not reset. *)
BeginDispatchFailed ==
    /\ dispatch = "parked"
    /\ dispatch' = "check"
    /\ failed' = failed
    /\ batch' = Len(log)
    /\ UNCHANGED <<ringVars, uiVars, stagedData, log>>

BeginDispatch ==
    /\ dispatch = "parked"
    /\ dispatch' = "check"
    /\ failed' = FALSE
    /\ batch' = Len(log)
    /\ UNCHANGED <<ringVars, uiVars, stagedData, log>>

(* while (!queue_.isEmpty() && !result.second) *)
IsEmpty ==
    /\ dispatch = "check"
    /\ \/ /\ Ring!IsEmptyLoadHead
          /\ dispatch' = "check"
       \/ /\ Ring!IsEmptyLoadTail
          /\ dispatch' = IF cons'.avail THEN "pop" ELSE "clear"
    /\ UNCHANGED <<uiVars, stagedData, failed, batch, log>>

PopStaged ==
    /\ dispatch = "pop"
    /\ \/ /\ Ring!PopLoadHead \/ Ring!PopLoadTail \/ Ring!PopMove
          /\ dispatch' = "pop"
       \/ /\ Ring!PopStoreHead \/ Ring!PopFails
          /\ dispatch' = "execute"
    /\ UNCHANGED <<uiVars, stagedData, failed, batch, log>>

(* commandFailed after a command: set by one that fails, overwritten by a *)
(* save, and otherwise what the commands before it in the batch left.     *)
FailedAfter(cmd, ok) ==
    CASE cmd.kind = "fallible" -> failed \/ ~ok
      [] cmd.kind = "save" -> ~ok
      [] OTHER -> failed

(* Pop the data (none if its ring is empty), run the command, note the *)
(* result. ok: the listener's answer.                                  *)
Execute(ok) ==
    /\ dispatch = "execute"
    /\ popped.kind \in {"fallible", "save"} \/ ok
    /\ failed' = FailedAfter(popped, ok)
    /\ log' = Append(log, [cmd |-> popped,
                           data |-> IF stagedData = <<>> THEN NoData ELSE Head(stagedData),
                           ok |-> ok, success |-> ~failed', batch |-> batch])
    /\ stagedData' = IF stagedData = <<>> THEN <<>> ELSE Tail(stagedData)
    /\ dispatch' = IF popped.kind = "terminate" THEN "exit" ELSE "check"
    /\ UNCHANGED <<ringVars, uiVars, batch>>

(* queue_.clear(): the commands' ring alone, whatever it holds by now. After *)
(* a Terminate the worker's thread ends and stopBackend joins it.            *)
Clear ==
    /\ dispatch \in {"clear", "exit"}
    /\ \/ /\ Ring!ClearStoreTail
          /\ UNCHANGED <<dispatch, stopping>>
       \/ /\ Ring!ClearStoreHead
          /\ dispatch' = "parked"
          /\ stopping' = IF dispatch = "exit" THEN "no" ELSE stopping
    /\ UNCHANGED <<pending, pendingData, transfer, accepted, stagedData, failed, batch, log>>

Worker ==
    \/ BeginDispatch
    \/ IsEmpty
    \/ PopStaged
    \/ \E ok \in BOOLEAN : Execute(ok)
    \/ Clear

Next ==
    /\ UI \/ Worker
    /\ overlapped' = (overlapped \/ (transfer' # "idle" /\ dispatch' # "parked"))

Spec == Init /\ [][Next]_vars

--------------------------------------------------------------------------------
Ids(queue) == [i \in DOMAIN queue |-> queue[i].id]

(* A command in the hands of the UI between two rings... *)
UIHand == IF prod.pc \in {"push_head", "write", "publish"} THEN <<prod.item>> ELSE <<>>
(* What the staged ring holds; between the two stores of a clear, nothing. *)
Staged == IF cons.pc = "clear_head" THEN <<>> ELSE Ring!Contents

(* ... or of the worker between its pop and its execution. *)
WorkerHand == IF dispatch = "execute" THEN <<popped>> ELSE <<>>

Dispatched == [i \in DOMAIN log |-> log[i].cmd]

(***************************************************************************)
(* Commands are dispatched at most once and in the order they were queued, *)
(* with their operand, whatever sessions and batches they fall in, as long *)
(* as no transfer overlaps a dispatch.  However they overlap, what a       *)
(* command carries is used at most once: what is dispatched again has lost *)
(* its operand.                                                            *)
(***************************************************************************)
InOrderOnce ==
    \A i, j \in DOMAIN log :
        /\ i < j /\ log[i].cmd.text /\ log[j].cmd.text => log[i].cmd.id # log[j].cmd.id
        /\ ~overlapped => log[i].cmd.text /\ (i < j => log[i].cmd.id < log[j].cmd.id)

(***************************************************************************)
(* "Most commands are processed on the next execution frame"               *)
(* (clem_command_queue.hpp:82): until the machine is terminated, every     *)
(* command backendQueue_ took has been dispatched or is on its way.        *)
(***************************************************************************)
NothingLost ==
    (\A i \in DOMAIN log : log[i].cmd.kind # "terminate")
        => Ids(accepted) = Ids(Dispatched \o WorkerHand \o Staged \o UIHand \o pending)

(* The code keeps that promise when no transfer overlaps a dispatch. *)
NothingLostInTurn == ~overlapped => NothingLost

(***************************************************************************)
(* A save is dispatched with the image it was queued with, and no other    *)
(* command ever takes an image: the two rings of a queue stay in step,     *)
(* through full queues and batches that a Terminate cut short.             *)
(***************************************************************************)
DataPaired ==
    ~overlapped => \A i \in DOMAIN log :
        log[i].data = IF log[i].cmd.kind = "save" THEN log[i].cmd.id ELSE NoData

(***************************************************************************)
(* What the UI is told of a command: success only if it succeeded, failure *)
(* only if it or a command before it in the same batch failed (the         *)
(* commandFailed of dispatchAll outlives the command that set it).         *)
(***************************************************************************)
ResultsHonest ==
    \A i \in DOMAIN log :
        /\ log[i].success => log[i].ok
        /\ ~log[i].success =>
               \E j \in 1 .. i : ~log[j].ok /\ log[j].batch = log[i].batch
================================================================================
