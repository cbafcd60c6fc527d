# Clemens IIGS: models, checks and proofs

TLA+ modules for the Clemens IIGS, an Apple IIgs emulator: a C library that
emulates the machine (`src/*.c`, `src/devices/`) and a C++ host around it
(`src/host/`).  Every definition that stands for code is listed in
`PROJECT.json` under "map" with the lines it stands for; the comments of the
modules name the places that matter.

Contents: [the system](#the-system), [the modules](#the-modules),
[the runs](#the-runs), [bounds](#bounds), [fairness](#fairness),
[the proofs](#the-proofs), [where code and comments
differ](#where-code-and-comments-differ), [what is not
modelled](#what-is-not-modelled), [plan](#plan).

## The system

Two threads of the host matter.  The *UI thread* runs `ClemensFrontend::frame`
once per displayed frame; the *emulator thread* runs
`ClemensFrontend::runBackend`, which steps the emulated machine.  They share a
mutex and a condition variable, two frame counters, the state of the frame and
a queue of commands.  An audio thread drains a queue of samples.  Within the
emulator thread everything is sequential: `ClemensAppleIIGS::stepMachine` calls
`clemens_emulate_cpu` and `clemens_emulate_mmio` in turn, once per
instruction.  What makes it hard are the parties that act between two steps (the
guest program, the user's commands, the per-frame polls of the host), the
failures of the host's files, and state that is kept in several places or
updated incrementally.

| component | state | operations | what can go wrong | correct when |
|---|---|---|---|---|
| lock-free ring (`host/cinek/circular_buffer.hpp`) | slots, head, tail | push, acquireTail, pop, isEmpty, isFull, clear | both sides on one slot, stale checks, `clear()` by the consumer | it is a bounded FIFO |
| command queue (`host/clem_command_queue.cpp`) | two rings per queue, two queues | queue, transfer, dispatchAll, terminate | transfer during dispatch, commands and data out of step, a full queue | every command runs once, in order, with its operand and data |
| frame handshake (`host/clem_front.cpp` 690-790, 1150-1260) | mutex, counters, shared state, results, configuration | start, post, wait, copy, acknowledge, stop | missed wake-ups, torn frames, lost results, a join that waits for ever | the UI reads frames only from a parked worker and gets each once |
| floppy drives and files (`host/core/clem_storage_unit.cpp`, `clem_drive35.c`) | drive flags, asset, report, file, snapshot, configuration | insert, eject (user, guest), save, mount, unmount, poll, snapshot | guest and user eject together, failing saves, early returns, power off | no write is lost unless a file operation failed |
| hard disks (`clem_storage_unit.cpp`, `clem_prodos_disk.cpp`) | device on the bus, disk object, asset, report | assign, eject, bind, save, release, snapshot | four places that disagree | the unit reported holds the image and its data reaches the file |
| memory map (`clem_mmio.c`, `clem_mem.c`) | soft switches, four page maps, two shadow maps | every C0xx switch, reset, snapshot load, read, write | a page that an update forgets | the maps are what the switches say, on whatever path |
| interrupts and resets (`emulator.c`, `emulator_mmio.c`, `clem_timer.c`, `clem_vgc.c`) | lines, flags, enables, the beam, the periods, the reset's stages | one step of processor or devices, register writes, resets | lines without flags, VBL missed or repeated, a reset that starts too early or never ends | a handler finds the cause, every frame has its VBL, devices are reset before the vector is read |
| 65816 processor (`emulator.c`, `clem_code.h`) | registers, modes, flags, stack | 256 opcodes, interrupts, reset | registers left wider than their mode, pushes and pulls that disagree at an edge, carries between digits and pieces | modes, widths and stack page agree; RTI undoes an interrupt; arithmetic is arithmetic |
| ADB (`clem_adb.c`, `emulator_mmio.c` 400-454) | the GLU's state, buffer, counters and lines; the queues, registers and latch of keyboard and mouse; the paste buffer | reads and writes of C000, C010, C024-C027, a sync between any two instructions, polls, events of the host, pasted text, resets | arguments and answers in one buffer, interrupts taken back, full queues, a pair of bytes renewed half-way | answers are read whole and in order, status bits tell the truth, keys and cursor follow the user |
| audio (`host/clem_audio.cpp`, `clem_front.cpp`, `clem_apple2gs.cpp`) | the mix buffer of the machine, the flat buffer of the host | mix, queue, flush, play, finishFrame | a buffer that two threads use and one pushes together; frames given back twice or not at all | a bounded FIFO; each frame heard once |
| SmartPort bus (`clem_smartport.c`, `devices/prodos_hdd32.c`) | the unit's enable, number, ACK, state of the packet, command; the block of the drive; the disk | enable, reset, REQ, bits of a packet, execution, answer, disk out and in | packets broken off, given up or for another unit, a disk exchanged in between: what survives belongs to another request | each request is executed at most once, as a whole, on the block it names |
| hard disk card (`devices/hddcard.c`, `S7SPHD.S`) | the state of the card, the parts of a call it has, the transfer; the disks | the parts of a call, fire, a few bytes or a block per step, reset, disks out and in | calls half sent, ended by nothing or broken off; a disk exchanged during a transfer | what the firmware answers is what was done |
| IWM and 5.25" drives, RTC, SCC, DOC, Mockingboard | each a state machine on registers and time | register reads and writes, sync | hand-shakes and interrupts | planned (see [plan](#plan)) |
| disk formats, renderer, debugger, UI | data | - | - | not modelled |

How they interact.  The UI queues commands; `syncBackend` moves them to the
staged queue and wakes the worker; the worker dispatches them between two
frames, and the commands act on the machine: insert and eject disks, take and
load snapshots, reset, terminate.  The guest acts on drives through the IWM,
on memory through the map, and on the interrupt sources through registers.  Once
a frame the worker polls the drives and posts the frame; the UI copies what it
needs and acknowledges.  Key and mouse events, and text to paste, reach the ADB
as commands; its microcontroller runs between any two instructions of the guest,
which speaks to it through four registers and two interrupt lines.  After a
frame the worker queues what the machine has mixed, and the thread of the sound
system plays it when it likes.

## The modules

| module | models | extends / instantiates |
|---|---|---|
| `BoundedFifo` | abstract specification: a queue of bounded length, atomic push, pop, clear | |
| `CircularBuffer` | the ring, one action per load or store of an index or a slot | `BoundedFifo` by refinement mapping |
| `CommandQueue` | both queues between the threads, with the staged ring load by load | the ring's actions written over its own variables |
| `BackendSync` | the handshake of the two threads, starting and stopping | |
| `StorageUnit` | floppy drives, image files, machine life cycle, snapshots | |
| `HardDisks` | SmartPort and card units and their images | |
| `HddCard` | the hard disk card, its firmware, what its two drives hold | |
| `MemoryMap` | soft switches, page maps, shadowing and accesses | |
| `Interrupts` | processor and device steps as far as interrupts and resets go | |
| `Alu65816` | the arithmetic, shifts and flags of the accumulator, binary and decimal | |
| `Cpu65816` | register transfers, modes, stack, interrupt entry and return | |
| `AdbAnswers` | abstract specification: a request, its answer taken byte by byte | |
| `AdbGlu` | the command interface of the ADB: C026, C027, the lines, the sync | `AdbAnswers` by refinement mapping |
| `AdbKeyboard` | from the keys of the host and pasted text to the latch at C000 | |
| `AdbMouse` | events and positions of the host, the register, the cursor of the guest | |
| `FrameFifo` | abstract specification: a bounded queue that takes part of a batch | |
| `AudioQueue` | the flat buffer between the emulator and the sound system | `FrameFifo` by refinement mapping |
| `AudioPath` | the loop of the emulator thread around it, with the machine's mix buffer | extends `AudioQueue` |
| `BlockDevice` | abstract specification: a request served at most once while the guest stands by it | |
| `SmartPortBus` | the bus, its guest, its one unit and the disk in it | `BlockDevice` by refinement mapping |
| `MCHost`, `MCProcessor`, `MCDevices`, `MCHardDisks` | parts that share no state, side by side: a behaviour is about one of them, so that their states add up | the ring, the commands, the sound and the handshake; both processor modules; the three ADB modules and the bus; the images of the hard disks and the card |
| `...Proofs` | theorems about the module named, with the inductive invariants | the module, TLAPS |
| `MC...` | scopes and symmetry for TLC | the module |

Correspondence of state and actions:

- **CircularBuffer.** `head`, `tail`, `array` are the members; `prod` and
  `cons` are the program counters and locals of the two threads.  `PushClaim`,
  `PushWrite`, `PushPublish` ... are the separate loads and stores of `push`;
  sequentially consistent atomics, as `std::atomic` defaults to.
- **CommandQueue.** `pending`/`pendingData` are `backendQueue_`, the ring
  variables and `stagedData` are `stagedBackendQueue_`.  `transfer` and
  `dispatch` are the places of the UI thread in `queue(other)` and of the worker
  in `dispatchAll`.  A command is an id, a kind and whether its operand is there;
  kinds are what `dispatchAll` tells apart.  `overlapped` records whether a
  transfer and a dispatch were ever under way at once, which happens when an
  emulated frame takes longer than a UI frame.
- **BackendSync.** One action per critical section or step between them;
  `uiPC`, `workerPC` are the places of the threads.
- **StorageUnit**, **HardDisks.** One action per command or poll, which is
  atomic because it runs on the emulator thread.  Contents of disks and files
  are version numbers; a failing save leaves a `Torn` file.  `written` and
  `excuse` are history variables: the version the machine last gave an image,
  and why its file may lag behind.
- **MemoryMap.** One action per switch access, reset or snapshot load.  Pages
  that the code treats alike are one page of the model.  The update
  (`Bank00`, `Bank01`, `Mega2Bank`, `ShadowMap0`, `ShadowMap1`) is incremental
  as in `_clem_mmio_memory_map`.
- **Interrupts.** `turn` says which of the two calls is next.  The next
  instruction is the choice of the guest: it writes one of the interrupt
  registers, sets or clears I, executes WAI or STP, or does none of that.  Time
  is counted in scanlines.
- **Alu65816.** The operators `cpu_adc`, `cpu_sbc_bcd` ... are the inline
  functions of `clem_code.h`: they return the value stored and the new P.  Decimal
  sums are made of digits (`AddDigit`), bytes of them (`BcdByteSum`) and words of
  these, as the carries of the code pass.  One
  action per instruction on A, over all its addressing modes, with any of
  `Operands` as the operand.
- **Cpu65816.** One action per instruction, over all its addressing modes, as far
  as it changes A, X, Y, S, P or the mode.  A word is a pair of bytes.  The
  operators `opc_push_...`, `opc_pull_...`, `jsl`, `rtl` ... act on a record of
  mode, pointer and bank 0, so that properties can push and pull through them
  from every state; the reachable states themselves keep no memory, which belongs
  to the guest.  The two modules split the processor: which values arithmetic
  leaves in A and P is in `Alu65816`, any value does in `Cpu65816`.

- **AdbGlu.** `state`, `cmd_reg`, `cmd_data`, `sent`, `recv`, `limit`,
  `cmd_status` and `cmd_flags` are the members of `ClemensDeviceADB`; a status
  byte is the set of its bits.  One action per register access, per sync (with or
  without a poll of the devices) and per event.  The parts of a sync are
  operators on a record, in the order in which the code calls them.
- **AdbKeyboard.** One action per host event, per poll, per register access and
  per refill of the paste buffer; `missed`, `lost`, `whole` and `got` are
  history.
- **AdbMouse.** One axis.  The firmware's part, adding what it reads to its
  cursor, is `ReadY`.
- **SmartPortBus.** `unit` holds the members of `ClemensSmartPortUnit`, `blocks`
  and `current_block_index` the disk and the drive, `guest` where its firmware is.
  One action per change of the phases, per part of a packet, per step of the unit
  with REQ low, per part of an answer, and per removal or insertion.  `askew` is
  `data_bit_count` as far as it matters: whether bytes begin in step with the
  guest's; `left` is history: the request whose disk went while it was EXECUTING.
- **HddCard.** `card` holds the members of `ClemensHddCardContext`, `misc` being
  `results[CLEM_CARD_HDD_RES_MISC]`, which counts the bytes of a call and marks an
  error; `firmware` is the place in `S7SPHD.S`, which passes on any byte as the unit
  of a SmartPort call.  The card indexes `hdd[]` with it unchecked: `Reached` says
  what an entry outside the array may be, no pointer, one that is taken for the disk
  of a drive, or an address that ends the program (`StrayPointer`).  One action per access of the
  firmware that changes the card, one per step of the processor with the card
  in DMA or formatting (`Dma` for all but the last, which is `DmaRead` or
  `DmaWrite`), one per exchange of a disk.  The functions of the code are
  operators on the record.  `promised` is what the disks should hold according to
  the answers, `due` what a read should bring, `exchanged` the drives whose disks
  changed during the call.
- **AudioQueue**, **AudioPath.** One action per call under
  `queuedFrameMutex_`, and one per part of the loop in `runBackend`, in its order:
  `post` gives back the sound of the last frame, `step` mixes more, then the user's
  commands are dispatched, of which `save`, `load` and `run` touch the sound, and
  `QueueFrames` queues what is in the mix buffer.  A snapshot keeps the mix buffer
  as it is then (`serializer.c:142`) and a load brings it back.  Frames are
  numbered as they are mixed; `replayed` is history: those that a load, or a machine
  that has stopped, left in the buffer to be queued again.

## The runs

| run | shows | result |
|---|---|---|
| `host` | the ring: no slot is touched by both sides, checked calls succeed, it refines `BoundedFifo` (until a `clear()` meets a push); the commands: order and operands, data, honest results; the sound: the flat buffer refines `FrameFifo`, each frame is heard once but for the replayed ones; the handshake: frames are stable while read, none skipped, results and configuration accounted for, wake-ups not missed | holds |
| `queue_lost` | the promise of `clem_command_queue.hpp:82` | violated |
| `sync_hang` | a power-off completes | violated |
| `storage` | disks in drives are tracked, writes reach files | holds |
| `storage_assert` | `assert(disk)` of `update()` | violated |
| `hd` | reported units are attached and backed, writes reach files; the card does what it answers, whole, on the disk and block named, in spite of resets, exchanges and calls to units it lacks | holds |
| `hd_start` | `hddcard.c:33`: writing 0 starts a command | violated |
| `mmio` | maps match switches on every path, accesses follow the status registers | holds |
| `interrupts` | handlers have causes, resets reach the devices, VBL once a frame, waiting guests wake, resets end | holds |
| `processor` | words are worked on in pieces, overflow and carry mean what they should, subtraction and rotates undo, decimal sums and byte differences are decimal; modes, widths and stack page agree, every pull and RTI undoes its push or interrupt | holds |
| `devices` | C026 refines `AdbAnswers`, status and lines tell the truth, no overrun, the GLU answers in the end; modifiers and repeats follow the keys held, pasted text arrives once and in order; movements are read in pairs, the cursor catches up; the unit of the SmartPort bus refines `BlockDevice` | holds |
| `devices_paste` | plain characters of any text arrive (`emulator_mmio.c:405`) | violated |

Every property of a passing run has a mutant in `PROJECT.json`: a plausible bug
in a definition that stands for code, for which TLC finds the property
violated.

## Bounds

- **host**: for the ring two slots and two items.  All wrap-arounds of the
  indices happen with two slots (the buffer holds one item less than its slots
  plus one, the code's own convention); items are only compared for identity.
  For the commands rings of two, four commands, three of them when a transfer
  overlaps a dispatch (`Bound`), so a queue fills, wraps and ends early.  For the
  sound a buffer of three frames, two frames in a step of the machine, four
  mixed (`MaxMixed`) and two played (`MaxHeard`), one or three of them asked for at
  once, two snapshots that differ in what is mixed (`MaxSaved`), of which one frame
  may come again, any number of times (`Bound`): the buffer is pushed together
  with frames in it, fills up and cuts a batch, and a frame that comes again finds
  itself heard, waiting or dropped.  The proof has no such bounds.
  For the handshake the counters wrap at 3, a queue of two, four commands, two edits
  of a configuration: two sessions, with a full queue and a wrap.
- **storage**: a 3.5" and a 5.25" drive, two interchangeable images
  (symmetry), one guest write, one snapshot.  The scope in `MCStorageUnit`
  leaves out behaviours with both a snapshot or guest eject and a second drive or
  image: an eject or a snapshot treats every drive by itself.  `Durable` excuses what
  the code has no protection against, and `excuse` records which: a save that failed,
  which may leave half a file, an image in two drives, and a machine that ended
  without saving.
- **hd**: one port unit, one card unit, two images, two writes, one snapshot,
  with the scopes `MCHardDisks` describes.  A guard keeps the user from binding a file
  to a unit that another unit has already, which the code does not look at: two units
  would overwrite each other's saves.  For the card disks of two blocks of
  one content, 21 calls of every kind for both interfaces, also to the other drive
  or one without a disk (both are empty at first), to the block just past the end
  and to one farther, and to units that the card does not have: a read and a write of
  unit 3, a format of unit 0.  Any unit above 2 meets the same code, and the proof
  has them all, 0 to 255.  A ProDOS call has four parts instead of six bytes, a
  SmartPort call is complete at six instead of 128 (the code writes 128 there, more
  than any call has), a transfer takes one or two steps; parts that nobody takes
  are counted up to `MaxStray`, six, beyond which the guest starts no call, and the
  wrap of the byte-wide counters is left out.
- **mmio**: two slots; a behaviour changes the switches of one of four groups
  that share the switches through which they interact.  The proof needs no such
  scope.
- **interrupts**: a frame of three scanlines, two before the blank; an
  instruction ends none or two of them; periods of 2 and 4 and clocks of width 4,
  so every counter wraps in a few steps, and the 60 Hz loop runs zero, one or
  two rounds.  Other sources are none in TLC's run and any set in the proof.
- **processor**: for the arithmetic digits of 4 values with decimal digits of 3
  (the code: 16 and 10), so bytes of 16 and words of 256 values; every
  accumulator, carry, status and operand of that size, hence every chain of
  carries through four digits; the proof has the code's sizes too.  For the registers bytes of 4 values, so that the
  edge of page 1, the wrap of the pointer and all its positions are a few pushes
  apart; three operands and five status registers to pull.  States with other
  values of A, X and Y than the few of `Few` are checked but not continued; the
  proof has no such scope.
- **devices**: seven commands, one of each kind that the GLU tells apart (with and
  without arguments, answer, and notice, and one that it ignores), arguments with
  the meanings that set modes, and a queue of two events; the proofs have all
  commands and any limit.  For the keyboard two Shift keys, Control, one letter
  and Reset, two of them in use at a time, a queue of two events, a buffer of two
  bytes and a text of six: queue and buffer are filled and refilled.  For the
  mouse three positions of which one is too far, and a queue of two.  For the bus
  two blocks and ten requests: every kind of outcome, a block that is not there,
  a second unit that is not; packets of four parts, an answer of one; any number
  of exchanges of the disk, but none in the middle of a packet.  The proof has any
  blocks and requests.

## Fairness

- **host**, the handshake: weak fairness of each thread's steps (both are threads of the
  operating system that run when they can), except that waiting for the next UI
  frame is not forced and a wait may end spuriously.  Lock acquisition is fair in
  the sense of the conjuncts of `FairSpec`.
- **interrupts**: weak fairness of the machine's steps, since the host calls
  them in a loop; strong fairness that a processor step which lets a scanline end
  happens if it is possible again and again, since every step takes cycles and 65
  of them are a scanline.
- **devices**: weak fairness of the sync, which `clemens_emulate_mmio` calls after
  every instruction, and of the mouse poll at 60 Hz while the guest has it on.
  Nothing is assumed of the guest, the user or the host.
- The other specifications state safety only.

## The proofs

All proofs are checked by TLAPS with every constant arbitrary, under the named
assumptions of the modules.

- **CircularBufferProofs.** The inductive invariant relates the program
  counters to the slots: the producer owns the free slots from the tail on and
  the consumer the used ones from the head on; what `isFull` and `isEmpty` said
  can only have become better since.  From it follow the type invariant
  (`TypeCorrect`), `SlotsAreRaceFree`, `ChecksSuffice`, and that every step of
  the ring is a step or stutter of `BoundedFifo` (`RingImplementsFifo`) for every
  size and set of items.
- **HostProofs**, the handshake.  `SyncIInv` ties the places of both threads to the
  mutex and the counters: who holds the mutex, how many frames the worker is
  ahead, and that a posted frame is copied before it is acknowledged.  It gives
  `FramesAreStable`, `NeverTwoAhead` and `FramesAreNotSkipped` for every width of
  the counters.  Two more parts carry what the threads hand each other.
  `ResultsInv` says that the results of the executed batches are delivered,
  reported, or not yet posted, in this order, and that a thread starts with none;
  hence `ResultsAreAccounted`.  (`executed` leaves out the batch that ends the
  thread: its results are dropped, see below.)  `ConfigInv` orders by age the
  configurations of the UI, of the state that is posted and of the machine, and says
  that what a stop leaves behind is never the first that a copy finds; hence
  `ConfigurationsGrow`.
- **HostProofs**, the commands.  The staged queue is an instance of the ring, so the
  theorems of `CircularBufferProofs` apply to each of its places as they stand.
  On top of them: what a command carries is at one place only, whatever the
  interleaving (`Once`); a batch that failed has a failed command (`Honest`); and
  as long as `overlapped` is FALSE the commands dispatched, in the worker's hand,
  staged, in the UI's hand and pending are, in this order, those that the queue
  took, with the data of the same commands in step (`TurnInv`).
  Hence `CommandsInOrderOnce`, `NothingIsLostInTurn`, `DataStayPaired` and
  `ResultsAreHonest`, for queues of any size.
- **HostProofs**, the sound.  The type invariant includes that every place between
  head and tail holds a frame (`QueueTypeCorrect`).  With it the frames that wait
  are a sequence, and one lemma per operation shows what the operation does to that
  sequence: pushing the buffer together does nothing, a batch is appended up to
  the limit, playing takes a prefix.  Hence `QueueImplementsFifo`, for every limit
  and every batch.  For the whole path `PathInv` adds that no snapshot and no mix
  buffer has a frame that was not mixed (`KnownFrames`) and that what is still in
  the mix buffer when the machine is stepped has been queued before and is
  `replayed` (`LeftIsReplayed`), so that only such frames can come behind newer
  ones (`InOrderBut`).  Hence `SoundIsHeardOnce`, with snapshots that are taken and
  loaded at any time, whatever is mixed, and machines that stop.
- **StorageUnitProofs.** `Durable` is about files whose image is in no drive, so its
  induction needs `InStep`: an image without an excuse is in one drive at most, and
  that drive holds what was last written to it.  A mount takes what the snapshot
  holds, so the disks of a snapshot must have paths as well (`SnapshotTracked`).
  With several drives asking for one image the code's last one wins; that there is
  a last one, of any finite set of drives, is a lemma by well-founded induction
  (`GreatestExists`).  Hence `DisksAreTracked` and `WritesAreDurable`, for every set
  of drives and images and any number of writes.
- **HardDisksProofs**, the images.  The same for units, where an image is bound to one
  unit only (`Apart`, also of a snapshot), what is attached has its image in memory
  and is reported under its path (`Real`, `Reported`).  What a handler does to one
  unit, its image and the image it leaves is worked out on a record of these, and
  lemmas say what that does to all the others.  Hence `WritesAreDurable` and
  `ReportsAreTrue`.
- **HardDisksProofs**, the card.  It has an invariant of its own, `CardInv`: what the phase of the firmware says about the card and the parts
  that have come (`CardInPhase`), that the disks are as the answers promised but for
  the blocks of the transfer under way (`DisksAsPromised`), and that the memory
  holds what the finished part of a read should have brought (`ReadsAnswered`).
  Calls that are `stray` are excepted from what is promised, but must be shown to do no
  harm: they meet only a card that is left over from an earlier call and never
  writes.  Calls to units that the card does not have are not excluded: whatever they
  reach, disks and promises change together (`Astray`), so that the calls before
  and after them are still answered truly.  Hence `AnswersAreTrue`, for any disks and
  blocks and calls of any unit.  `CardAssumption` says of a call only that its list is
  as long as its command needs (`Count`) and that a ProDOS call has the unit that
  the card makes of its one bit.
- **MemoryMapProofs.** `Canonical(switches)` writes down, page by page, which
  map a set of switches should have.  One lemma per page map shows that the
  incremental update leads from the canonical map of the old switches to that of
  the new ones (a page is touched whenever a switch it depends on changes), and
  that a rebuild from nothing gives the same.  Hence `MapsAreCanonical`,
  `PathIndependence` (for every set of slots and every path) and
  `WriteEnableGuarded`.  The cells that a canonical map leads to are then compared,
  bank by bank: a read finds the cell of the write as long as RAMRD and RAMWRT
  agree (`ReadsBack`), and an access goes where the status registers say
  (`StatusIsTrue`).
- **InterruptsProofs.** The invariant has a part for the lines and their
  flags, the stages of a reset, the clocks, and the beam.  The part about resets
  is needed for the clocks: only because the devices are reset, and the VGC told
  to forget the time, before the processor runs again does the wrapped
  difference of the clocks measure an instruction.  It gives
  `HandlersHaveCauses`, `ResetOrder`, `VblOncePerFrame` and `TypeCorrect`.

- **Cpu65816Proofs.** Pushes and pulls are shown to undo each other on any
  stack record: the cells of one instruction do not meet (bytes have more than
  three values), the pointer comes back, and emulation mode sets the bits again
  that a pushed status may have lost (`HandlerReturns`, `PairsReturn`,
  `LongPairsReturn`).  That argument needs M and X set in emulation mode, which
  is one half of the inductive invariant, the other being that index registers of
  a byte have no high byte and the stack of emulation mode is in page 1.  One
  lemma per group of instructions shows that they keep it.  Hence `TypeCorrect`,
  `ModesAlwaysAgree` and `StackUndoes`, for every size of bytes and every set of
  operands.
- **Cpu65816Proofs**, the arithmetic.  The inductive part is small, the accumulator
  stays a word (`WordsStay`); that what the adders do with any word and operand is
  arithmetic is not.  First every binary operator is stated without remainders
  (`AdcIs`, `RolIs` ...): a sum is below two sizes, so that its remainder is one
  subtraction (`Wrap`).  At any even size this gives the overflow, the inverses and
  the steps by one (`TooBig`, `Undone`, `RotatesBack`, `ByOne`).  A sum of numbers of
  two digits in one base is then the sum of the low digits and, with its carry,
  that of the high ones (`SumOfPieces`).  The lemma is used for bytes that make a
  word (`AdcPieces`, and through complements `SbcPieces`), for decimal digits that
  make a byte (`BcdBytesAdd`) and for decimal bytes that make a word
  (`BcdWordsAdd`), where a digit sum past the radix is past the codes of a digit as
  well (`DigitAdds`); `BcdBytesSubtract` does the same with borrows.  Hence
  `AdditionIsArithmetic`, for every even number of values of a digit, 16 in the
  code, and every radix below it.

- **DevicesProofs**, the GLU.  The parts of a sync are shown to leave alone what an
  answer depends on (`Quiet`).  The invariant (`Invariant`) says in which states of
  the GLU which bits may be set and how the counters stand: an answer shows until it
  is read, arguments fit, the line for data is up only with something to read.
  It gives `ArgumentsFit` and `StatusIsTrue`; and one lemma per access shows that
  an answer is begun, taken in order and finished before the next request
  (`GluImplementsAnswers`), for every set of commands and arguments.
- **DevicesProofs**, the bus.  The invariant ties the unit's state to the place of its
  guest: a packet in step is the guest's own, a command survives only from its
  execution to its data, a unit with a number that waits for data has the block
  of the request, and what is EXECUTING is a request the guest stands by or the
  one in `left`.  That data cannot reach another block needs all of it: a command
  that was found bad lowers ACK too, so its guest sends the data, and only the
  forgotten command keeps it from being executed.  One lemma per step shows that
  it keeps the invariant, and one that it is a step or stutter of `BlockDevice`
  (`UnitIsBlockDevice`), under `BusAssumption` on the constants.
- **DevicesProofs**, keyboard and mouse.  `KeysFollowUser` speaks of keys of which no
  event waits; its invariant `KeysInv` must speak of all: of each key that is not in
  `missed`, the last event that waits tells whether it is held, and a key of which
  none waits is in the registers as it is held.  Handing over the first event then
  either leaves a later one of its key, or makes the registers right
  (`KeysAreFollowed`, for any keys and any length of the queue).  `PairInv` says what
  the register holds between the two reads of a pair (`MousePairsAreWhole`).
- **DevicesProofs**, pasted text.  All bytes that have come so far are one sequence:
  what the guest has read, the latch, the buffer, the rest of the text.  Most steps
  only move the cuts between its parts.  A typed key, a reset and an atom that is
  converted exchange a stretch of it that holds nothing to keep (`Exchanged`), and
  to be kept in order is transitive (`KeptThrough`).  That no plain byte is cut off
  when an atom is taken is arithmetic on the room in the buffer (`RoomForOne`): at
  most half of it is in use, and a plain byte needs one place.  Hence
  `PasteIsWhole`, for every text, buffer and conversion.  `KeyboardAssumption` has
  two facts of the conversion: an atom that is not plain becomes none of the plain
  bytes of the text (the bytes stand for positions in it), and no byte is `None`.

Only model-checked:

- All liveness properties (`WaitingRuns`, `NoResetLoop`, `WaitingGuestWakes`,
  `GuestNotKeptWaiting`, `CursorFollows`): the prover has no rule for fairness.

## Where code and comments differ

Shown by a run, with the quotation in `PROJECT.json`:

- `dispatchAll` clears the ring that the UI may be filling
  (`clem_command_queue.cpp:192`): run `queue_lost`.
- A power-off can join a thread that waits for an acknowledgement
  (`clem_front.cpp:766`): run `sync_hang`.
- An ejected 3.5" disk in a snapshot makes an assertion fail
  (`clem_storage_unit.cpp:293`): run `storage_assert`.
- The last byte of a character that is not ASCII is taken for the start of the
  next one, so that pasting eats plain characters or ends
  (`emulator_mmio.c:453`): run `devices_paste`.
- A SmartPort STATUS call for the DCB, or a command that the card does not know,
  never ends, and the next call fires it again instead of starting
  (`hddcard.c:226`, `hddcard.c:33`): run `hd_start`.

Met while modelling, kept in the models as the code has it, with the
property that holds in spite of it or the variable that records it:

- `clem_command_queue.cpp:48`: `commandFailed` is never reset, so commands
  behind a failed one are reported as failed; `ResultsHonest` says only that no
  failure is reported as success.
- `clem_command_queue.cpp:192`: clearing during a push can also dispatch old
  commands again, without their operands (`InOrderOnce`: no operand is used twice);
  `circular_buffer.hpp:74` says the tail is "only changed by producer".
- `clem_command_queue.cpp:197`: Terminate goes to the back of the queue;
  `clem_command_queue.hpp:84` says "pushed to the front".
- `clem_command_queue.cpp:557`: a command that finds the queue full is dropped
  without a word.  `NothingLostInTurn` speaks of the commands that the queue took.
- `clem_front.cpp:754`: the results of the batch that ends the thread are
  dropped; `clem_front.cpp:771`: the last configuration of a session is
  applied again when the next one stops (`StopStoppedBackend`, a step that
  `ConfigMonotone` excepts).
- `clem_storage_unit.cpp:289`: an eject by the guest is not followed by the
  unmount that the comment at 291 describes, since the drive keeps `has_disk`.
- `clem_storage_unit.cpp:389`: `serialize()` does not commit the images, which
  `clem_storage_unit.hpp:28-30` says it does.
- `clem_storage_unit.cpp:84`: a file of a wrong type makes the report of a hard
  disk empty while its disk stays attached, and it is not saved at power off.
- `clem_prodos_disk.cpp:96`: after a failed save and a failed read,
  `assert(!storage_.isEmpty())` can fail.
- `clem_drive35.c:58`: an eject command to an empty drive never ends.
- `clem_apple2gs.cpp:347`: after STP the machine is Offline and `unmount()` saves
  nothing.
- `clem_mmio.c:1376`: `CLEM_MEM_IO_MMAP_HIRES` is tested but never set.
- `emulator_mmio.c:503`: "accessed twice in succession" compares 24-bit
  addresses only at the end of an instruction and the language card switch
  ignores the bank, so a 16-bit access counts as two.
- `clem_timer.c:4`: a reset clears the flags of the timer and leaves its line
  asserted, although `clem_device.h:25` says that the interrupt flags are reset
  with it: a handler may then find no source.  `survived` records such lines, and
  `HandlerHasCause` excepts them.
- `clem_code.h:571`: the decimal difference of words adjusts three digits and
  loses the fourth (`BcdWordDifference`); `clem_code.h:540`: the zero flag of a
  decimal difference is that of the binary one; `clem_code.h:438`: the overflow
  of a decimal sum is worked out and then lost, as P is read again.
  `DecimalIsArithmetic`, a part of `AddersAreArithmetic`, leaves these three out.
- `clem_apple2gs.cpp:582`: `finishFrame` does nothing once the processor has
  stopped, so the frames mixed last are queued with every frame of the host
  again, although `clem_apple2gs.hpp:82` relies on it to advance the buffer.
- `serializer.c:142`: a snapshot keeps the mix buffer and how much of it is filled.
  The commands of the user are dispatched after the machine's step
  (`clem_backend.cpp:287`) and before its sound is queued, so the frames of that
  step are heard when the snapshot is taken and again, behind newer ones, each time
  it is loaded.  The windows pause the machine before they save, which leaves
  nothing mixed; the debugger's `save` (`clem_debugger.cpp:1335`) does not.
  `HeardOnce` lets the frames of these two cases come again (`replayed`), and
  requires that no other frame is lost, repeated or moved.
- `emulator_mmio.c:171`: taking a disk out leaves the state of the packet.  A
  request that was EXECUTING is executed by the next disk that is put in, and
  `release()` has zeroed the block number meanwhile: a write may go to block 0 of
  the new disk.  Its answer may be taken for that of the next request.  `left`
  records the request, and `BlockDevice` excepts it (`ServeLeft`).
- `clem_smartport.c:433`: an unknown command leaves the unit in ABORT_COMMAND,
  which no REQ ends, only the next enabling of the bus; `clem_smartport.c:471`
  says itself that a bad packet should be answered, and data that follows no
  command stays EXECUTING.
- `hddcard.c:226`, `hddcard.c:274`: meanwhile the firmware, which sees a card that
  is ready and has no error, answers each of these calls with success, whatever
  they asked.  `stray` marks calls that come to such a card, and `AnswersTrue`
  excepts them.
- `hddcard.c:493`: the disk is looked up again when a transfer ends.  One taken
  out in between is a call through a null pointer (`DmaCrash`), one exchanged
  gets the block, or the rest of a format (`hddcard.c:447`), and the call is
  answered with success; `exchanged` records it.
- `hddcard.c:149`, `hddcard.c:324`: `>` lets a write to the block just past the
  end transfer its data before the disk refuses it.  `hddcard.c:723`:
  `clem_card_hdd_get_status` compares the drive with whether the call is one of
  SmartPort, so the light may be that of the other drive.  `hddcard.c:337`: FORMAT
  does not look at write protection, which nothing turns on
  (`clem_card_hdd_lock` has no caller).
- `hddcard.c:112`, `hddcard.c:289`, `hddcard.c:313`: `hdd[]` has two entries and is
  indexed with the unit of the guest's call less one.  The firmware
  (`S7SPHD.S:133`) passes on any byte, and only an assertion of debug builds looks
  for unit 0, which a FORMAT meets too.  `Reached` and `StrayPointer` choose among
  what may be found behind or before the array, at each look anew; `AnswersTrue`
  promises nothing of such a call, and of all others what it promises without it.
  What a STATUS call to such a unit reports, and that it may set an entry behind
  `drive_index[]` (`hddcard.c:178`), is not modelled.
- `clem_smartport.c:591`: the checksum of a packet is received and not compared.
- `clem_adb.c:1400`: the interrupt handler is to be informed of
  Control-Apple-Escape, but reading the last byte of an answer takes the
  interrupt back, whatever C026 still has to say.
- `clem_adb.c:1460`: a press of Reset that comes second in a poll is kept for
  the next, but its release is handed over like that of any key, and the reset
  that it should bring is lost.
- `clem_adb.c:1655`: the start of tracking assigns `mx0` twice and `my0` not at
  all, so the first distance is wrong; `CursorFollows` holds in spite of it.
- `clem_adb.c:1634`: the high byte of a clamp value is shifted by 16 and lost.
- `emulator_mmio.c:424`: `!(ch * 0x08)` is never true, so a character of four
  bytes ends the text.
- A command that the GLU does not know leaves CMD_FULL set until C026 is read
  (`GuestNotKeptWaiting` excepts them), and of two Shift keys the first that is
  released turns Shift off.
- `emulator.c:3036`: COP in emulation mode reads both bytes of its vector from one
  address, and so does an NMI in native mode (`emulator.c:3156`).  Vectors are
  data of the guest in `Cpu65816`.
- `emulator_mmio.c:517`: `mega2_cycles` is not reset with `clocks_spent`, although
  `emulator.c:3111` says "All MMIO should follow suit"; the first step after a
  reset lets up to 2^32 cycles pass for timers and ADB.
- `emulator.c:3174`: WAI with I set never resumes at an interrupt, as
  `emulate_mmio` only leaves it for a handler; after STP (`emulator.c:3117`) time
  stands still, so the reset key, which the 60 Hz loop polls, does not end it.

## What is not modelled

Each component that is left out is in `PROJECT.json` with its reason: the
host's windows and widgets, parsing and formatting of the debugger, the
renderer, vendored code, tests.  Byte-level disk formats are functions of their
input with tests of their own.  Within the modelled components: conversion of
image formats, the write-protect command, file layouts of 2IMG, expansion ROMs of
cards (never mapped), display modes of the VGC, DMA timing, and of the processor
what addressing modes compute, which bits AND, ORA and EOR leave, D and the banks.

## Plan

1. Done: the ring and the queues, the handshake, disks, memory map,
   interrupts and resets, the processor's arithmetic, modes and stack, the ADB,
   the audio queue, the SmartPort bus and the hard disk card, with their theorems.
2. Left, the other devices that are state machines, in this order: IWM and
   drives (the latch and its hand-shake, phases and tracks), the real-time clock's
   serial protocol, SCC, the run loop of the backend with breakpoints.
3. Done: theorems for the safety properties of all modules.
