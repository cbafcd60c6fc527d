------------------------------- MODULE HddCard -------------------------------
(***************************************************************************)
(* The hard disk card of slot 7 (devices/hddcard.c), its firmware          *)
(* (devices/S7SPHD.S) and the disks of its two drives.  The firmware, with *)
(* interrupts off, writes a call to the card byte by byte, fires it and    *)
(* polls; the card moves a block between disk and memory by DMA, a few     *)
(* bytes with every step of the processor, or formats the disk, a block at *)
(* a time.  Resets and, between any two steps, the user's exchanges of     *)
(* disks come in between.                                                  *)
(*                                                                         *)
(* The bytes of a call are taken in parts: for ProDOS its command, unit,   *)
(* buffer and block; for SmartPort its command, count, unit, pointer and   *)
(* block or code.  What a status call reports is not modelled, nor write   *)
(* protection, which nothing turns on (clem_card_hdd_lock has no caller).  *)
(***************************************************************************)
EXTENDS Naturals

CONSTANTS
    BlockLimit, Data, Blank,
    Disks,                     \* what a disk may hold when it is put in
    Calls,                     \* what the guest asks of the firmware
    PRODOS_COMMAND_READY,      \* 6 bytes, here 4 parts
    SMARTPORT_COMMAND_READY,   \* 128 bytes, here more parts than a call has
    MaxStray,                  \* bound: parts that no one takes, before counters wrap
    DmaSize,                   \* the steps of a transfer
    Nothing

Drives == {1, 2}
Blocks == 0 .. BlockLimit - 1
Failed == 255                  \* in results[RES_MISC]

Units == 0 .. 255              \* the byte that names a unit

Operations == {"STATUS", "READ", "WRITE", "FORMAT", "CONTROL", "INIT", "OTHER"}
Codes == {"DEVICE", "DCB", "DIB", "OTHER"}

(* The firmware passes on whatever unit a SmartPort call names, in a list  *)
(* that is as long as its command says.  Of the unit of a ProDOS call the  *)
(* card looks at a bit only, so that it is always that of a drive.         *)
CardAssumption ==
    /\ BlockLimit \in Nat \ {0} /\ DmaSize \in Nat \ {0} /\ MaxStray \in Nat
    /\ Blank \in Data /\ Disks \subseteq [Blocks -> Data]
    /\ Calls \subseteq [mode : {"COMMAND", "SMARTPORT"}, op : Operations, code : Codes,
                        unit : Units, block : Nat, data : Data]
    /\ \A r \in Calls : r.mode = "COMMAND" => r.unit \in Drives
    /\ PRODOS_COMMAND_READY = 4 /\ SMARTPORT_COMMAND_READY \in 6 .. Failed - 1
    /\ Nothing \notin Data /\ Nothing \notin [Blocks -> Data] /\ Nothing \notin Calls

VARIABLES
    card,       \* ClemensHddCardContext
    hdd,        \* the disk in each drive, or Nothing
    memory,     \* the guest's buffer, after a transfer to it
    firmware,   \* the call it has been asked, and how far it is
    promised,   \* history: the disks as the answers of the firmware have it
    due,        \* history: what a read was to bring when it was fired
    exchanged   \* history: the drives with other disks since the call was fired
vars == <<card, hdd, memory, firmware, promised, due, exchanged>>

States == {"IDLE", "COMMAND", "SMARTPORT", "DMA_W", "DMA_R", "FORMAT"}

TypeOK ==
    /\ card \in [state : States, cmd_num : Operations, unit_num : Units,
                 param_cnt : Nat, param_byte : Nat, block_num : Nat, outp_code : Codes,
                 misc : Nat, dma_offset : 0 .. DmaSize, block_data : Data]
    /\ hdd \in [Drives -> [Blocks -> Data] \union {Nothing}]
    /\ promised \in [Drives -> [Blocks -> Data] \union {Nothing}]
    /\ memory \in Data \union {Nothing} /\ due \in Data \union {Nothing}
    /\ firmware \in [phase : {"idle", "command", "firing", "fired", "crashed"},
                     call : Calls \union {Nothing}, sent : Nat, stray : BOOLEAN,
                     answer : {"none", "ok", "error"}]
    /\ exchanged \subseteq Drives

Quiet == [phase |-> "idle", call |-> Nothing, sent |-> 0, stray |-> FALSE, answer |-> "none"]

io_reset(c) ==
    [c EXCEPT !.state = "IDLE", !.cmd_num = "STATUS", !.unit_num = 0, !.param_cnt = 0,
              !.param_byte = 0, !.block_num = 0, !.misc = 0, !.dma_offset = 0]

Init ==
    /\ card = [state |-> "IDLE", cmd_num |-> "STATUS", unit_num |-> 0, param_cnt |-> 0,
               param_byte |-> 0, block_num |-> 0, outp_code |-> "DEVICE", misc |-> 0,
               dma_offset |-> 0, block_data |-> Blank]
    /\ hdd = [d \in Drives |-> Nothing] /\ promised = hdd
    /\ memory = Nothing /\ due = Nothing /\ exchanged = {}
    /\ firmware = Quiet
-----------------------------------------------------------------------------
(* The card, as functions of its context.                                  *)
fail_idle(c) == [c EXCEPT !.state = "IDLE", !.cmd_num = "STATUS", !.misc = Failed]
ok(c) == [c EXCEPT !.state = "IDLE", !.cmd_num = "STATUS", !.misc = 0]

Transfer(c, state) == [c EXCEPT !.state = state, !.dma_offset = 0]

Read(c, d) ==
    IF c.block_num \in Blocks
    THEN [Transfer(c, "DMA_W") EXCEPT !.block_data = hdd[d][c.block_num]]
    ELSE fail_idle(Transfer(c, "DMA_W"))

(* A block just past the end is refused by the disk, after its transfer.   *)
Write(c) ==
    IF c.block_num > BlockLimit THEN fail_idle(Transfer(c, "DMA_R")) ELSE Transfer(c, "DMA_R")

(* Mutant: the count of blocks starts where the call's block number says.  *)
FormatOnwards(c) == [Transfer(c, "FORMAT") EXCEPT !.block_data = Blank]

Format(c) == [Transfer(c, "FORMAT") EXCEPT !.block_num = 0, !.block_data = Blank]

Online(d) == d \in Drives /\ hdd[d] # Nothing

(* select_drive.  The unit is an index into hdd[] that is not checked: for *)
(* a unit the card does not have, but for a transfer of unit 0, there is   *)
(* whatever lies behind the drives, each time it is looked at: no pointer  *)
(* (0), one that is taken for the disk of a drive, or an address that ends *)
(* the program (StrayPointer).                                             *)
Beyond(c) == c.unit_num \notin Drives /\ (c.unit_num = 0 => c.cmd_num = "FORMAT")

Reached(c) == IF Beyond(c) THEN Drives \union {0} ELSE {c.unit_num}

command(c, d) ==
    CASE ~Online(d) -> fail_idle(c)
      [] OTHER ->
         CASE c.cmd_num = "STATUS" -> ok(c)
           [] c.cmd_num = "READ" -> Read(c, d)
           [] c.cmd_num = "WRITE" -> Write(c)
           [] c.cmd_num = "FORMAT" -> Format(c)
           [] OTHER -> fail_idle(c)

(* A list of no bytes, of the DCB, and commands that the card does not     *)
(* know leave it as it is.                                                 *)
smartport_status(c) ==
    CASE c.outp_code = "DEVICE" -> Transfer(c, "DMA_W")
      [] c.outp_code = "DCB" -> [c EXCEPT !.dma_offset = 0]
      [] c.outp_code = "DIB" /\ c.unit_num # 0 -> Transfer(c, "DMA_W")
      [] OTHER -> fail_idle(c)

smartport(c, d) ==
    CASE c.cmd_num = "STATUS" -> smartport_status(c)
      [] c.cmd_num = "READ" -> IF Online(d) THEN Read(c, d) ELSE fail_idle(c)
      [] c.cmd_num = "WRITE" -> IF Online(d) THEN Write(c) ELSE fail_idle(c)
      [] c.cmd_num = "FORMAT" -> Format(c)
      [] c.cmd_num \in {"CONTROL", "INIT"} -> fail_idle(c)
      [] OTHER -> c

(* A write to IO_CONTROL: of 0 for ProDOS, of 1 for SmartPort, of $80 to   *)
(* fire; the value matters only to a card that is idle, and the drive d    *)
(* that it reaches to one that fires.                                      *)
write_control(c, mode, d) ==
    CASE c.state = "IDLE" ->
            [c EXCEPT !.state = mode, !.cmd_num = "STATUS", !.unit_num = 0,
                      !.param_cnt = 255, !.param_byte = 0, !.misc = 0]
      [] c.state = "COMMAND" ->
            IF c.misc = PRODOS_COMMAND_READY THEN command(c, d) ELSE fail_idle(c)
      [] c.state = "SMARTPORT" ->
            IF c.misc >= SMARTPORT_COMMAND_READY THEN smartport(c, d) ELSE fail_idle(c)
      [] OTHER -> ok(c)

(* Bit 7 of IO_CONTROL, and its bit 0.                                     *)
InProgress(c) ==
    \/ c.state = "COMMAND" /\ c.misc \in 1 .. PRODOS_COMMAND_READY - 1
    \/ c.state = "SMARTPORT" /\ c.misc \in 1 .. SMARTPORT_COMMAND_READY - 1
    \/ c.state \in {"DMA_W", "DMA_R", "FORMAT"}
Error(c) == c.state = "IDLE" /\ c.misc = Failed

(* Writes to IO_COMMAND: misc counts them and says what the next one is.   *)
prodos_part(c, r) ==
    LET is(n) == c.misc = n
    IN [c EXCEPT !.cmd_num = IF is(0) THEN r.op ELSE @,
                 !.unit_num = IF is(1) THEN r.unit ELSE @,
                 !.block_num = IF is(3) THEN r.block ELSE @,
                 !.misc = @ + 1]

Count(r) == CASE r.op \in {"FORMAT", "INIT"} -> 1 [] r.op = "OTHER" -> 4 [] OTHER -> 3

HasList(c) == c.cmd_num \in {"STATUS", "READ", "WRITE", "CONTROL"}

setup_smartport(c, r) ==
    LET is(n) == HasList(c) /\ c.param_byte = n
    IN [c EXCEPT !.outp_code = IF is(1) THEN r.code ELSE @,
                 !.block_num = IF is(1) THEN r.block ELSE @,
                 !.param_cnt = IF is(0) \/ is(1) THEN @ - 1 ELSE @,
                 !.param_byte = @ + 1]

smartport_part(c, r) ==
    LET taken == CASE c.misc = 0 -> [c EXCEPT !.cmd_num = r.op]
                   [] c.misc = 1 -> [c EXCEPT !.param_cnt = Count(r)]
                   [] c.misc = 2 -> [c EXCEPT !.unit_num = r.unit, !.param_cnt = @ - 1]
                   [] OTHER -> setup_smartport(c, r)
    IN [taken EXCEPT !.misc = IF taken.param_cnt > 0 THEN @ + 1 ELSE SMARTPORT_COMMAND_READY]

write_command(c, r) ==
    CASE c.state = "COMMAND" -> prodos_part(c, r)
      [] c.state = "SMARTPORT" -> smartport_part(c, r)
      [] OTHER -> c
-----------------------------------------------------------------------------
(* With every step of the processor the card moves some bytes or formats a *)
(* block.  To write without a disk is to call through a null pointer.      *)
Running == firmware.phase # "crashed"

Dma ==
    /\ card.state \in {"DMA_W", "DMA_R"} /\ Running
    /\ \E n \in card.dma_offset + 1 .. DmaSize - 1 : card' = [card EXCEPT !.dma_offset = n]
    /\ UNCHANGED <<hdd, memory, firmware, promised, due, exchanged>>

DmaRead ==
    /\ card.state = "DMA_W" /\ Running
    /\ memory' = IF card.cmd_num = "READ" THEN card.block_data ELSE memory
    /\ card' = [ok(card) EXCEPT !.dma_offset = DmaSize]
    /\ UNCHANGED <<hdd, firmware, promised, due, exchanged>>

(* What is done to a disk by way of a unit that is none is no one's wish,  *)
(* and nothing is promised about it.                                       *)
Commits(d, b, data) ==
    /\ hdd' = [hdd EXCEPT ![d][b] = data]
    /\ promised' = IF d = card.unit_num THEN promised ELSE [promised EXCEPT ![d] = hdd'[d]]

(* A drive that is none may also pass for one that is protected.           *)
DmaWrite ==
    /\ card.state = "DMA_R" /\ Running
    /\ \E d \in Reached(card) :
          LET commits == Online(d) /\ card.block_num \in Blocks
              data == firmware.call.data
          IN /\ Online(d) \/ Beyond(card)
             /\ IF commits THEN Commits(d, card.block_num, data)
                ELSE UNCHANGED <<hdd, promised>>
             /\ card' = [(IF commits THEN ok(card) ELSE fail_idle(card))
                            EXCEPT !.dma_offset = DmaSize, !.block_data = data]
    /\ UNCHANGED <<memory, firmware, due, exchanged>>

Crashes ==
    /\ firmware' = [firmware EXCEPT !.phase = "crashed"]
    /\ UNCHANGED <<card, hdd, memory, promised, due, exchanged>>

DmaCrash == card.state = "DMA_R" /\ Running /\ ~Online(card.unit_num) /\ Crashes

(* The pointer behind the drives is followed when a call is fired that     *)
(* looks for its drive, by every block that is formatted and at the end of *)
(* a write (DmaCrash).                                                     *)
StrayPointer ==
    /\ Beyond(card)
    /\ \/ /\ card.state = "SMARTPORT" /\ firmware.phase = "firing"
          /\ card.cmd_num \in {"STATUS", "READ", "WRITE"}
          /\ card.cmd_num = "STATUS" => card.outp_code \in {"DEVICE", "DIB"}
       \/ card.state = "FORMAT" /\ Running
    /\ Crashes

FormatBlock ==
    /\ card.state = "FORMAT" /\ Running
    /\ \E d \in Reached(card) :
          CASE ~Online(d) -> card' = fail_idle(card) /\ UNCHANGED <<hdd, promised>>
            [] Online(d) /\ card.block_num \in Blocks ->
                  /\ Commits(d, card.block_num, card.block_data)
                  /\ card' = [card EXCEPT !.block_num = @ + 1]
            [] OTHER -> card' = ok(card) /\ UNCHANGED <<hdd, promised>>
    /\ UNCHANGED <<memory, firmware, due, exchanged>>
-----------------------------------------------------------------------------
(* The firmware.                                                           *)
Start(r) ==
    /\ firmware.phase = "idle"
    /\ card.misc \in {Failed} \union 0 .. MaxStray /\ card.param_byte <= MaxStray
    /\ \E d \in Reached(card) : card' = write_control(card, r.mode, d)
    /\ firmware' = [phase |-> "command", call |-> r, sent |-> 0, answer |-> "none",
                    stray |-> card.state # "IDLE"]
    /\ memory' = Nothing /\ due' = Nothing
    /\ UNCHANGED <<hdd, promised, exchanged>>

(* ProDOS takes six bytes without a look at the card; a list of SmartPort  *)
(* goes on for as long as the card asks for more.                          *)
Send ==
    /\ firmware.phase = "command"
    /\ firmware.sent = 0 => ~InProgress(card)
    /\ card' = write_command(card, firmware.call)
    /\ LET sent == firmware.sent + 1
           all == IF firmware.call.mode = "COMMAND" THEN sent = 4
                  ELSE sent > 1 /\ ~InProgress(card')
       IN firmware' = [firmware EXCEPT !.sent = sent,
                                       !.phase = IF all THEN "firing" ELSE @]
    /\ UNCHANGED <<hdd, memory, promised, due, exchanged>>

Asked == firmware.call

Fire ==
    /\ firmware.phase = "firing"
    /\ \E d \in Reached(card) : card' = write_control(card, "SMARTPORT", d)
    /\ firmware' = [firmware EXCEPT !.phase = "fired"]
    /\ due' = IF /\ Asked.op = "READ" /\ Asked.block \in Blocks
                 /\ Asked.unit \in Drives /\ promised[Asked.unit] # Nothing
              THEN promised[Asked.unit][Asked.block] ELSE Nothing
    /\ exchanged' = {}
    /\ UNCHANGED <<hdd, memory, promised>>

(* The disk d after the call asked, if the firmware says that it succeeded.*)
After(d) ==
    CASE Asked.op = "WRITE" -> [d EXCEPT ![Asked.block] = Asked.data]
      [] Asked.op = "FORMAT" -> [b \in Blocks |-> Blank]
      [] OTHER -> d

Return ==
    /\ firmware.phase = "fired" /\ ~InProgress(card)
    /\ firmware' = [firmware EXCEPT !.phase = "idle",
                                    !.answer = IF Error(card) THEN "error" ELSE "ok"]
    /\ promised' = [d \in Drives |->
                       IF d # Asked.unit \/ promised[d] = Nothing THEN promised[d]
                       ELSE IF firmware.stray \/ d \in exchanged THEN hdd[d]
                       ELSE IF Error(card) THEN promised[d] ELSE After(promised[d])]
    /\ UNCHANGED <<card, hdd, memory, due, exchanged>>

Reset ==
    /\ firmware.phase # "crashed"
    /\ card' = io_reset(card) /\ firmware' = Quiet
    /\ promised' = hdd /\ memory' = Nothing /\ due' = Nothing /\ exchanged' = {}
    /\ UNCHANGED hdd
-----------------------------------------------------------------------------
(* The user, between any two steps.  The disk that a drive holds is taken  *)
(* out before another is put in, in one go (assignSmartPortDisk).          *)
Exchange(d, disk) ==
    /\ firmware.phase # "crashed"
    /\ hdd' = [hdd EXCEPT ![d] = disk] /\ promised' = [promised EXCEPT ![d] = disk]
    /\ exchanged' = IF firmware.phase = "fired" THEN exchanged \union {d} ELSE exchanged
    /\ UNCHANGED <<card, memory, firmware, due>>

clem_card_hdd_unmount(d) == hdd[d] # Nothing /\ Exchange(d, Nothing)

clem_card_hdd_mount(d) == \E disk \in Disks : Exchange(d, disk)

Relaunch ==
    /\ firmware.phase = "crashed"
    /\ card' = io_reset(card) /\ firmware' = Quiet
    /\ hdd' = [d \in Drives |-> Nothing] /\ promised' = hdd'
    /\ memory' = Nothing /\ due' = Nothing /\ exchanged' = {}

Next ==
    \/ Dma \/ DmaRead \/ DmaWrite \/ DmaCrash \/ StrayPointer \/ FormatBlock
    \/ \E r \in Calls : Start(r)
    \/ Send \/ Fire \/ Return \/ Reset \/ Relaunch
    \/ \E d \in Drives : clem_card_hdd_unmount(d) \/ clem_card_hdd_mount(d)

Spec == Init /\ [][Next]_vars
-----------------------------------------------------------------------------
(* The call that is under way may have done this to the block b of drive d.*)
Doing(d, b) ==
    /\ firmware.phase = "fired" /\ Asked.unit = d
    /\ \/ Asked.op = "WRITE" /\ Asked.block = b /\ hdd[d][b] = Asked.data
       \/ Asked.op = "FORMAT" /\ hdd[d][b] = Blank

(* The disks hold what the answers of the firmware say, after resets and   *)
(* disks exchanged at any point too: a call that is answered with success  *)
(* was done, as a whole, to the disk, the block and with the data that it  *)
(* names, one that failed changed nothing, and a read brought the block as *)
(* it was.  Calls that come to a card which has not finished with another  *)
(* are the exception, disks exchanged during the call, and what calls to   *)
(* units that the card does not have bring or do, for which it looks up a  *)
(* drive behind the end of hdd[]: all other calls, before and after them,  *)
(* are answered truly.                                                     *)
AnswersTrue ==
    /\ \A d \in Drives : hdd[d] # Nothing =>
          \A b \in Blocks : hdd[d][b] = promised[d][b] \/ Doing(d, b)
    /\ firmware.phase = "idle" /\ firmware.answer = "ok" /\ ~firmware.stray
          /\ Asked.op = "READ" /\ Asked.unit \in Drives \union {0} => due # Nothing /\ memory = due

(* "CTL: write $00 to start a command (this will cancel any current        *)
(* command)" (devices/hddcard.c:27): the bytes that follow are those of a  *)
(* ProDOS command.                                                         *)
StartsCommand ==
    firmware.phase = "command" /\ firmware.call.mode = "COMMAND" => card.state = "COMMAND"
=============================================================================
