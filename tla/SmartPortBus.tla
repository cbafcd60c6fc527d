---------------------------- MODULE SmartPortBus ----------------------------
(***************************************************************************)
(* The SmartPort bus with its one unit, and the hard disk that is in it    *)
(* (clem_smartport.c, devices/prodos_hdd32.c, ClemensProDOSDisk).  The     *)
(* guest switches the bus with the phases of the IWM, asks with REQ and    *)
(* sees ACK; a packet goes over the bus bit by bit, and a request takes a  *)
(* packet of command, one of data if it is a write, and an answer.         *)
(*                                                                         *)
(* A packet is four parts: the sync bytes; its begin and header; contents  *)
(* and checksum; its end.  Its guest sends well formed packets when ACK    *)
(* calls for them, and gives up the bus, at any time, rather than leave a  *)
(* packet unfinished.  The user takes the disk out and puts another in     *)
(* between any two steps, but no disk while a packet passes by.            *)
(*                                                                         *)
(* The buffer of the unit has room for all that a request sends, and data  *)
(* of packets in it is not modelled beyond the current one.                *)
(***************************************************************************)
EXTENDS Naturals, Sequences

CONSTANTS
    Blocks, Data,
    Disks,           \* what a disk may hold when it is put in
    Requests,        \* what the guest asks, to whom, and of which block
    ResponseLength,  \* the parts in which an answer is read
    Nil

Operations == {"INIT", "STATUS", "READBLOCK", "WRITEBLOCK", "FORMAT", "CONTROL", "UNKNOWN"}

BusAssumption ==
    /\ Blocks \subseteq Nat /\ 0 \in Blocks
    /\ Disks \subseteq [Blocks -> Data]
    /\ Requests \subseteq [op : Operations, dest : Nat \ {0}, block : Nat, data : Data]
    /\ ResponseLength \in Nat \ {0}
    /\ Nil \notin Requests /\ Nil \notin Operations

VARIABLES
    unit,                   \* ClemensSmartPortUnit
    device,                 \* whether unit->device is there
    blocks,                 \* blocks_
    current_block_index,    \* of ClemensProdosHDD32
    guest,
    left                    \* history: a request whose disk went before it was executed
busVars == <<unit, device, blocks, current_block_index, guest, left>>

PacketParts == <<"sync", "header", "contents", "end">>

NoPacket == [type |-> "Unknown", request |-> Nil]

States == {"NULL", "READY", "PACKET", "PACKET_CONTENTS", "PACKET_END", "PACKET_BAD",
           "EXECUTING", "RESPONSE", "PENDING_DATA", "EXPECT_DATA", "COMPLETE", "ABORT_COMMAND"}

Packets == [type : {"Unknown", "Command", "Data"}, request : Requests \union {Nil}]

Replies == [status : {"OK", "INVALID_BLOCK", "BAD_CTL"}, data : Data \union {Nil}]

Units == [bus_enabled : BOOLEAN, unit_id : Nat, ack_hi : BOOLEAN,
          command_id : Operations \union {Nil}, packet_state : States,
          askew : BOOLEAN, shifted : 0 .. ResponseLength,
          packet : Packets, reply : Replies \union {Nil}]

Guests == [phase : {"off", "low", "sending", "sent", "reading"},
           stage : {"idle", "command", "data", "answer"},
           request : Requests \union {Nil},
           next : 1 .. Len(PacketParts), heard : 0 .. ResponseLength]

(* The types of it all.                                                    *)
BusTypeOK ==
    /\ unit \in Units /\ device \in BOOLEAN
    /\ blocks \in [Blocks -> Data] /\ current_block_index \in Nat
    /\ guest \in Guests /\ left \in Requests \union {Nil}

BusInit ==
    /\ unit = [bus_enabled |-> FALSE, unit_id |-> 0, ack_hi |-> FALSE, command_id |-> Nil,
               packet_state |-> "NULL", askew |-> FALSE, shifted |-> 0,
               packet |-> NoPacket, reply |-> Nil]
    /\ device = TRUE
    /\ blocks \in Disks
    /\ current_block_index = 0
    /\ guest = [phase |-> "off", stage |-> "idle", request |-> Nil, next |-> 1, heard |-> 0]
    /\ left = Nil
-----------------------------------------------------------------------------
(* The unit: "askew" tells that its bytes are out of step with those of    *)
(* the guest, "shifted" counts what has gone out of an answer.             *)

(* Mutant of packet_state: the command of the last request is kept. *)
packet_state_keeping(u, s) ==
    IF u.packet_state = s THEN u
    ELSE [u EXCEPT !.packet_state = s, !.shifted = 0,
                   !.packet = IF s = "READY" THEN NoPacket ELSE @,
                   !.reply = IF s = "READY" THEN Nil ELSE @,
                   !.askew = @ /\ s \notin {"READY", "RESPONSE", "EXPECT_DATA"},
                   !.ack_hi = IF s \in {"READY", "RESPONSE", "EXPECT_DATA"} THEN TRUE
                              ELSE @ /\ s \notin {"EXECUTING", "COMPLETE", "PACKET_BAD"}]

packet_state(u, s) ==
    IF u.packet_state = s THEN u
    ELSE [u EXCEPT !.packet_state = s, !.shifted = 0,
                   !.packet = IF s = "READY" THEN NoPacket ELSE @,
                   !.reply = IF s = "READY" THEN Nil ELSE @,
                   !.askew = @ /\ s \notin {"READY", "RESPONSE", "EXPECT_DATA"},
                   !.command_id = IF s = "READY" THEN Nil ELSE @,
                   !.ack_hi = IF s \in {"READY", "RESPONSE", "EXPECT_DATA"} THEN TRUE
                              ELSE @ /\ s \notin {"EXECUTING", "COMPLETE", "PACKET_BAD"}]

(* The end of a packet: whose is it?                                       *)
packet_end(u) ==
    LET command == IF u.packet.type = "Command" THEN u.packet.request.op ELSE u.command_id
        ours    == IF u.unit_id = 0 THEN command = "INIT"
                                    ELSE u.packet.request.dest = u.unit_id
    IN packet_state([u EXCEPT !.command_id = command], IF ours THEN "EXECUTING" ELSE "READY")

(* The state after a part of a packet of that type for that request.  A    *)
(* packet that begins in the middle of a byte is found bad at its second   *)
(* byte, and one that comes in the middle of another sooner or later.      *)
BusReceive(u, part, type, request) ==
    LET at == u.packet_state
    IN CASE at \in {"READY", "EXPECT_DATA"} ->
              {packet_state(u, IF u.askew THEN "PACKET_BAD" ELSE "PACKET")}
         [] at = "PACKET" /\ part = "sync" /\ ~u.askew -> {u}
         [] at = "PACKET" /\ part = "header" /\ ~u.askew ->
              {packet_state([u EXCEPT !.packet = [type |-> type, request |-> request]],
                            "PACKET_CONTENTS")}
         [] at = "PACKET_CONTENTS" /\ part = "contents" /\ ~u.askew ->
              {packet_state(u, "PACKET_END")}
         [] at = "PACKET_END" /\ part = "end" /\ ~u.askew -> {packet_end(u)}
         [] at \in {"PACKET", "PACKET_CONTENTS", "PACKET_END"} ->
              {[u EXCEPT !.askew = TRUE], packet_state(u, "PACKET_BAD")}
         [] OTHER -> {u}

encode_response(u, status, data) ==
    packet_state([u EXCEPT !.reply = [status |-> status, data |-> data]], "RESPONSE")

Limited(u, b, data) ==
    IF b \in Blocks THEN encode_response(u, "OK", data)
                    ELSE encode_response(u, "INVALID_BLOCK", Nil)

(* Execution.  A read, and the command of a write, set the block of the    *)
(* drive.  UNKNOWN leaves the unit where only the next time the bus is     *)
(* enabled finds it, and data that no command announced leaves it in       *)
(* EXECUTING.                                                              *)
Commanded(c) == unit.packet.type = "Command" /\ unit.command_id = c

INIT ==
    /\ Commanded("INIT")
    /\ unit' = [encode_response(unit, "OK", Nil) EXCEPT !.unit_id = unit.packet.request.dest]
    /\ UNCHANGED <<blocks, current_block_index>>

(* What a status call is for comes where others name their block; there is *)
(* no control block to tell of.                                            *)
AsksControlBlock(r) == r.op = "STATUS" /\ r.block % 256 = 1

ShortCommand ==
    /\ \E c \in {"STATUS", "FORMAT", "CONTROL"} : Commanded(c)
    /\ unit' = encode_response(unit, IF AsksControlBlock(unit.packet.request) THEN "BAD_CTL"
                                     ELSE "OK", Nil)
    /\ UNCHANGED <<blocks, current_block_index>>

READBLOCK ==
    /\ Commanded("READBLOCK")
    /\ current_block_index' = unit.packet.request.block
    /\ unit' = Limited(unit, current_block_index', blocks[current_block_index'])
    /\ UNCHANGED blocks

WRITEBLOCK ==
    /\ Commanded("WRITEBLOCK")
    /\ current_block_index' = unit.packet.request.block
    /\ unit' = packet_state(unit, "PENDING_DATA")
    /\ UNCHANGED blocks

UNKNOWN ==
    /\ Commanded("UNKNOWN")
    /\ unit' = packet_state(unit, "ABORT_COMMAND")
    /\ UNCHANGED <<blocks, current_block_index>>

WriteData ==
    /\ unit.packet.type # "Command" /\ unit.command_id = "WRITEBLOCK"
    /\ unit' = Limited(unit, current_block_index, Nil)
    /\ blocks' = [b \in Blocks |-> IF b = current_block_index THEN unit.packet.request.data
                                                            ELSE blocks[b]]
    /\ UNCHANGED current_block_index

StrayData ==
    /\ unit.packet.type # "Command" /\ unit.command_id # "WRITEBLOCK"
    /\ UNCHANGED <<unit, blocks, current_block_index>>

handle_packet ==
    INIT \/ ShortCommand \/ READBLOCK \/ WRITEBLOCK \/ UNKNOWN \/ WriteData \/ StrayData

(* The bus is enabled, or not, as the phases tell.                         *)
Enabled(u, on) ==
    IF on /\ ~u.bus_enabled THEN packet_state([u EXCEPT !.bus_enabled = TRUE], "READY")
    ELSE [u EXCEPT !.bus_enabled = on]

(* Without a device ACK is high.                                           *)
ack_hi == device => unit.ack_hi
-----------------------------------------------------------------------------
(* The guest.                                                              *)
Enable ==
    /\ guest.phase = "off"
    /\ guest' = [guest EXCEPT !.phase = "low"]
    /\ unit' = IF device THEN Enabled(unit, TRUE) ELSE unit
    /\ left' = IF device THEN Nil ELSE left
    /\ UNCHANGED <<device, blocks, current_block_index>>

Begin(r) ==
    /\ guest.phase = "low" /\ guest.stage = "idle"
    /\ guest' = [guest EXCEPT !.stage = "command", !.request = r]
    /\ UNCHANGED <<unit, device, blocks, current_block_index, left>>

RaiseReq ==
    /\ guest.phase = "low" /\ guest.stage # "idle" /\ ack_hi
    /\ guest' = [guest EXCEPT !.phase = IF guest.stage = "answer" THEN "reading" ELSE "sending"]
    /\ UNCHANGED <<unit, device, blocks, current_block_index, left>>

Send ==
    /\ guest.phase = "sending"
    /\ guest' = IF guest.next = Len(PacketParts) THEN [guest EXCEPT !.phase = "sent", !.next = 1]
                ELSE [guest EXCEPT !.next = @ + 1]
    /\ unit' \in IF device
                 THEN BusReceive(unit, PacketParts[guest.next],
                              IF guest.stage = "command" THEN "Command" ELSE "Data",
                              guest.request)
                 ELSE {unit}
    /\ UNCHANGED <<device, blocks, current_block_index, left>>

LowerReq ==
    /\ guest.phase = "sent" /\ ~ack_hi
    /\ guest' = [guest EXCEPT
                    !.phase = "low",
                    !.stage = IF @ = "command" /\ guest.request.op = "WRITEBLOCK"
                              THEN "data" ELSE "answer"]
    /\ UNCHANGED <<unit, device, blocks, current_block_index, left>>

Take ==
    /\ guest.phase = "reading" /\ guest.heard = ResponseLength /\ ~ack_hi
    /\ guest' = [guest EXCEPT !.phase = "low", !.stage = "idle", !.request = Nil, !.heard = 0]
    /\ UNCHANGED <<unit, device, blocks, current_block_index, left>>

(* The phases go, perhaps in the middle of a byte: it stays in a unit that *)
(* is READY and will still be so when the bus is enabled.                  *)
GiveUp ==
    /\ guest.phase # "off"
    /\ guest' = [guest EXCEPT !.phase = "off", !.stage = "idle", !.request = Nil,
                              !.next = 1, !.heard = 0]
    /\ \E broken \in BOOLEAN :
          /\ broken => device /\ guest.phase = "sending" /\ unit.packet_state = "READY"
          /\ unit' = IF device
                     THEN Enabled([unit EXCEPT !.askew = @ \/ broken], FALSE)
                     ELSE unit
    /\ UNCHANGED <<device, blocks, current_block_index, left>>

BusReset ==
    /\ guest.phase = "off"
    /\ unit' = IF device THEN [unit EXCEPT !.unit_id = 0] ELSE unit
    /\ UNCHANGED <<device, blocks, current_block_index, guest, left>>
-----------------------------------------------------------------------------
(* The unit, once for a bit of the bus.                                    *)
BecomeReady ==
    /\ unit.packet_state \in {"COMPLETE", "PACKET_BAD"}
    /\ unit' = packet_state(unit, "READY")
    /\ UNCHANGED <<blocks, current_block_index>>

ExpectData ==
    /\ unit.packet_state = "PENDING_DATA"
    /\ unit' = packet_state(unit, "EXPECT_DATA")
    /\ UNCHANGED <<blocks, current_block_index>>

ReqLow ==
    /\ device /\ guest.phase = "low"
    /\ BecomeReady \/ ExpectData \/ (unit.packet_state = "EXECUTING" /\ handle_packet)
    /\ left' = IF unit'.packet_state = "EXECUTING" THEN left ELSE Nil
    /\ UNCHANGED <<device, guest>>

RespondPart ==
    /\ device /\ guest.phase = "reading" /\ unit.packet_state = "RESPONSE"
    /\ unit.shifted # ResponseLength
    /\ unit' = [unit EXCEPT !.shifted = @ + 1]
    /\ guest' = [guest EXCEPT !.heard = @ + 1]
    /\ UNCHANGED <<device, blocks, current_block_index, left>>

RespondEnd ==
    /\ device /\ guest.phase = "reading" /\ unit.packet_state = "RESPONSE"
    /\ unit.shifted = ResponseLength
    /\ unit' = packet_state(unit, "COMPLETE")
    /\ UNCHANGED <<device, blocks, current_block_index, guest, left>>
-----------------------------------------------------------------------------
(* The user.                                                               *)
clemens_remove_smartport_disk ==
    /\ device
    /\ device' = FALSE
    /\ unit' = [unit EXCEPT !.unit_id = 0]
    /\ left' = IF left = Nil /\ unit.bus_enabled /\ unit.packet_state = "EXECUTING"
               THEN guest.request ELSE left
    /\ UNCHANGED <<blocks, current_block_index, guest>>

(* release() zeroes the interface of a disk that it could save.            *)
clemens_assign_smartport_disk ==
    /\ ~device /\ guest.phase # "sending"
    /\ device' = TRUE
    /\ blocks' \in Disks
    /\ current_block_index' \in {0, current_block_index}
    /\ unit' = Enabled(unit, guest.phase # "off")
    /\ left' = IF unit'.packet_state = "EXECUTING" THEN left ELSE Nil
    /\ UNCHANGED guest

BusNext ==
    \/ Enable \/ RaiseReq \/ Send \/ LowerReq \/ Take \/ GiveUp \/ BusReset
    \/ \E r \in Requests : Begin(r)
    \/ ReqLow \/ RespondPart \/ RespondEnd
    \/ clemens_remove_smartport_disk \/ clemens_assign_smartport_disk

BusSpec == BusInit /\ [][BusNext]_busVars
-----------------------------------------------------------------------------
(* The guest hears the answer to its request.                              *)
Answering ==
    \/ guest.stage = "answer" /\ unit.packet_state = "RESPONSE"
    \/ guest.phase = "reading" /\ unit.packet_state = "COMPLETE"
          /\ guest.heard = ResponseLength

Device == INSTANCE BlockDevice WITH
    disk <- blocks, id <- unit.unit_id, asked <- guest.request,
    answer <- IF Answering THEN unit.reply ELSE Nil

(* Whatever is sent, broken off, given up, reset, asked of another or      *)
(* taken out: the unit is a block device.  Data never reaches a block that *)
(* the command before it did not name, not when the command was found bad  *)
(* and the data was not, and an answer is never that of another request.   *)
ImplementsBlockDevice == Device!Spec
=============================================================================
