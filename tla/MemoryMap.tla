----------------------------- MODULE MemoryMap -----------------------------
(***************************************************************************)
(* The memory map of the IIgs (clem_mmio.c) and the accesses that go       *)
(* through it (clem_mem.c).                                                *)
(*                                                                         *)
(* Every access of the CPU looks its page up in the map of its bank.  The  *)
(* maps are derived from the soft switches (mmap_register), but they are   *)
(* not computed from them: _clem_mmio_memory_map compares the old switches *)
(* with the new ones and touches only the pages that some changed switch   *)
(* concerns.  A page it forgets keeps the mapping of the switches as they  *)
(* once were, until a reset or a snapshot rebuilds the maps from nothing.  *)
(*                                                                         *)
(* Pages that the code treats alike are one page of the model, named by    *)
(* the first of them: "04" is 04-07, "20" is 20-3F, and so on.  mmap flags *)
(* are members of a set.  Banks 02-7F, the empty banks and the ROM banks   *)
(* never change and are left out.                                          *)
(***************************************************************************)
EXTENDS Naturals

CONSTANTS
    SlotPages,       \* the pages of the slots 1, 2 and 4 to 7 that are modelled;
                     \* the flag that maps the card's ROM bears the page's name
    SavedRegisters   \* mmap_register of the snapshots the user may load

RamPages == {"02", "08", "0C", "40", "60", "A0"}
FixedPages == RamPages \union {"00", "04", "20", "C0", "C3", "C8", "D0", "E0"}
Pages == FixedPages \union SlotPages
ShadowPages == {"04", "08", "20", "40", "60"}
LcPages == {"D0", "E0"}

OLDVIDEO == {"RAMRD", "RAMWRT", "80COLSTORE", "TXTPAGE2", "HIRES"}
LC == {"RDLCRAM", "WRLCRAM", "LCBANK2"}
NSHADOW == {"TXT1", "TXT2", "HGR1", "HGR2", "SHGR", "AUX"}   \* the NSHADOW_ flags
CROM == {"CXROM", "C3"} \union SlotPages
Flags == {"ALTZPLC", "NIOLC"} \union OLDVIDEO \union LC \union NSHADOW \union CROM

ASSUME SlotsAssumption ==
    SlotPages \intersect (FixedPages \union {"CXROM", "ALTZPLC", "NIOLC", "LC1"}
                          \union OLDVIDEO \union LC \union NSHADOW) = {}
ASSUME SavedAssumption == SavedRegisters \subseteq SUBSET (Flags \ {"HIRES"})

ROM == 255              \* the ROM bank, also that of the internal ROM of C1-CF
Banks == {0, 1, 224, 225}
OtherAddress == 16      \* any data address that is no language card switch
LcAddresses == 0 .. 15  \* C080 to C08F

PageInfo == [rd : Banks \union {ROM}, wr : Banks, read : Pages \union {"LC1"},
             write : Pages \union {"LC1"}, ok : BOOLEAN,
             kind : {"direct", "mainaux", "bank", "io", "card"}]

VARIABLES
    mmap_register,
    maps,               \* the four page maps and the two shadow maps
    last_data_address,
    prior               \* history: the data address the last instruction ended with

vars == <<mmap_register, maps, last_data_address, prior>>

TypeOK ==
    /\ mmap_register \in SUBSET Flags
    /\ maps \in [b00 : [Pages -> PageInfo], b01 : [Pages -> PageInfo],
                 be0 : [Pages -> PageInfo], be1 : [Pages -> PageInfo],
                 sh0 : [ShadowPages -> BOOLEAN], sh1 : [ShadowPages -> BOOLEAN]]
    /\ last_data_address \in LcAddresses \union {OtherAddress}
    /\ prior \in LcAddresses \union {OtherAddress}

-----------------------------------------------------------------------------
(* One page of a map, and what each switch makes of it.                    *)

Mapping(kind, bankRead, bankWrite, page, ok) ==
    [rd |-> bankRead, wr |-> bankWrite, read |-> page, write |-> page, ok |-> ok, kind |-> kind]
MainAux(bank, page) == Mapping("mainaux", bank, bank, page, TRUE)
Direct(bank, page) == Mapping("direct", bank, bank, page, TRUE)
InternalRom(bank, page) == Mapping("bank", ROM, bank, page, FALSE)
CardMemory(page) == Mapping("card", 0, 0, page, FALSE)

Aux(flag, flags) == IF flag \in flags THEN 1 ELSE 0
Selects(p, rdFlag, wrFlag, flags) == [p EXCEPT !.rd = Aux(rdFlag, flags), !.wr = Aux(wrFlag, flags)]

(* Mutant of VideoPage: writes ignore PAGE2. *)
VideoWritesIgnorePage2(page, p, flags) ==
    IF "80COLSTORE" \in flags /\ (page = "20" => "HIRES" \in flags)
    THEN Selects(p, "TXTPAGE2", "RAMWRT", flags)
    ELSE Selects(p, "RAMRD", "RAMWRT", flags)

(* Page 04 and 20 of bank 00: 80COLSTORE lets PAGE2 override RAMRD and     *)
(* RAMWRT, for page 20 only if HIRES is set as well.                       *)
VideoPage(page, p, flags) ==
    IF "80COLSTORE" \in flags /\ (page = "20" => "HIRES" \in flags)
    THEN Selects(p, "TXTPAGE2", "TXTPAGE2", flags)
    ELSE Selects(p, "RAMRD", "RAMWRT", flags)

(* C1-CF: card or internal ROM.  No card ever claims the expansion ROM, as *)
(* card_expansion_rom_index is -1 from the first reset on.                 *)
IsInternal(page, flags) ==
    \/ page = "C8"
    \/ page = "C3" /\ "C3" \notin flags
    \/ page \in SlotPages /\ ("CXROM" \notin flags \/ page \notin flags)

RomPage(bank, page, flags) ==
    IF IsInternal(page, flags) THEN InternalRom(bank, page) ELSE CardMemory(page)

IoPage(bank, page, flags) ==
    CASE "NIOLC" \in flags -> MainAux(bank, page)
      [] "NIOLC" \notin flags /\ page = "C0" -> [MainAux(bank, page) EXCEPT !.kind = "io"]
      [] "NIOLC" \notin flags /\ page # "C0" -> RomPage(bank, page, flags)

(* D0-FF.  Bank 1 of the language card lives in C000-CFFF of the RAM bank. *)
LcImage(page, direct) == IF page = "E0" \/ direct THEN page ELSE "LC1"

LcPage(bank, page, flags) ==
    LET fromRom == flags \intersect {"NIOLC", "RDLCRAM"} = {}
        image == LcImage(page, flags \intersect {"NIOLC", "LCBANK2"} # {})
    IN [rd |-> IF fromRom THEN ROM ELSE bank,
        wr |-> bank,
        read |-> image,
        write |-> image,
        ok |-> flags \intersect {"NIOLC", "WRLCRAM"} # {},
        kind |-> IF fromRom THEN "bank" ELSE "mainaux"]

LcMega2Page(page, p, flags) ==
    LET image == LcImage(page, "LCBANK2" \in flags)
    IN [p EXCEPT !.read = image, !.write = image]

Shadowed0(page, flags) ==
    CASE page = "04" -> "TXT1" \notin flags
      [] page = "08" -> "TXT2" \notin flags
      [] page = "20" -> "HGR1" \notin flags
      [] page = "40" -> "HGR2" \notin flags
      [] page = "60" -> FALSE

(* Mutant of Shadowed1: either inhibition is enough. *)
EitherInhibits(page, flags) ==
    Shadowed0(page, flags) /\ "AUX" \notin flags /\ "SHGR" \notin flags

(* Which pages of bank 01 are copied to E1: the super hires area if SHGR   *)
(* is not inhibited, the hires pages also if they are shadowed in bank 00  *)
(* and AUX is not inhibited.                                               *)
Shadowed1(page, flags) ==
    CASE page \in {"04", "08"} -> Shadowed0(page, flags)
      [] page \in {"20", "40"} ->
            (Shadowed0(page, flags) /\ "AUX" \notin flags) \/ "SHGR" \notin flags
      [] page = "60" -> "SHGR" \notin flags

-----------------------------------------------------------------------------
(* _clem_mmio_shadow_map and _clem_mmio_memory_map: changed is the set of  *)
(* switches that differ, to which the code adds those it wants reconsidered.*)

Differ(s, t) == (s \ t) \union (t \ s)

ShadowSwitches(page) ==
    CASE page = "04" -> {"TXT1"}
      [] page = "08" -> {"TXT2"}
      [] page = "20" -> {"HGR1", "AUX", "SHGR"}
      [] page = "40" -> {"HGR2", "AUX", "SHGR"}
      [] page = "60" -> {"SHGR"}

ShadowMap0(old, changed, flags) ==
    [p \in ShadowPages |->
        IF changed \intersect ShadowSwitches(p) # {} /\ p # "60" THEN Shadowed0(p, flags)
        ELSE old[p]]

ShadowMap1(old, changed, flags) ==
    [p \in ShadowPages |->
        IF changed \intersect ShadowSwitches(p) # {} THEN Shadowed1(p, flags) ELSE old[p]]

(* Mutant of LcStale: ALTZP forgets the language card. *)
AltzpLeavesLc(changed) == changed \intersect (LC \union {"NIOLC"}) # {}
LcStale(changed) == changed \intersect (LC \union {"ALTZPLC", "NIOLC"}) # {}

Bank00(old, changed, flags) ==
    [p \in Pages |->
        CASE p = "00" ->
                IF "ALTZPLC" \in changed
                THEN Selects(old[p], "ALTZPLC", "ALTZPLC", flags) ELSE old[p]
          [] p \in {"04", "20"} ->
                IF changed \intersect OLDVIDEO # {} THEN VideoPage(p, old[p], flags) ELSE old[p]
          [] p \in RamPages ->
                IF changed \intersect {"RAMRD", "RAMWRT"} # {}
                THEN Selects(old[p], "RAMRD", "RAMWRT", flags) ELSE old[p]
          [] p \in {"C0", "C3", "C8"} \union SlotPages ->
                IF changed \intersect ({"NIOLC"} \union CROM) # {}
                THEN IoPage(0, p, flags) ELSE old[p]
          [] p \in LcPages ->
                IF LcStale(changed) THEN LcPage(Aux("ALTZPLC", flags), p, flags) ELSE old[p]]

Bank01(old, changed, flags) ==
    [p \in Pages |->
        CASE p \in {"C0", "C3", "C8"} \union SlotPages ->
                IF changed \intersect ({"NIOLC"} \union CROM) # {}
                THEN IoPage(1, p, flags) ELSE old[p]
          [] p \in LcPages -> IF LcStale(changed) THEN LcPage(1, p, flags) ELSE old[p]
          [] OTHER -> old[p]]

Mega2Bank(bank, old, changed, flags) ==
    [p \in Pages |->
        CASE p \in {"C3", "C8"} \union SlotPages ->
                IF changed \intersect CROM # {} THEN RomPage(bank, p, flags) ELSE old[p]
          [] p \in LcPages -> IF LcStale(changed) THEN LcMega2Page(p, old[p], flags) ELSE old[p]
          [] OTHER -> old[p]]

Remapped(old, register, flags) ==
    LET changed == Differ(register, flags)
        shadowing == changed \intersect (NSHADOW \union {"NIOLC", "RAMWRT", "TXTPAGE2"}) # {}
    IN [b00 |-> Bank00(old.b00, changed, flags),
        b01 |-> Bank01(old.b01, changed, flags),
        be0 |-> Mega2Bank(224, old.be0, changed, flags),
        be1 |-> Mega2Bank(225, old.be1, changed, flags),
        sh0 |-> IF shadowing THEN ShadowMap0(old.sh0, changed, flags) ELSE old.sh0,
        sh1 |-> IF shadowing THEN ShadowMap1(old.sh1, changed, flags) ELSE old.sh1]

RestoreMappings(old, flags) == Remapped(Remapped(old, Flags, {}), {}, flags)

InitialMega2(bank) ==
    [p \in Pages |->
        CASE p = "C0" -> [Direct(bank, p) EXCEPT !.kind = "io"]
          [] p \in {"C3", "C8"} \union SlotPages -> InternalRom(bank, p)
          [] OTHER -> Direct(bank, p)]

InitPageMaps(flags) ==
    RestoreMappings([b00 |-> [p \in Pages |-> MainAux(0, p)],
                     b01 |-> [p \in Pages |-> MainAux(1, p)],
                     be0 |-> InitialMega2(224),
                     be1 |-> InitialMega2(225),
                     sh0 |-> [p \in ShadowPages |-> FALSE],
                     sh1 |-> [p \in ShadowPages |-> FALSE]], flags)

-----------------------------------------------------------------------------
(* clem_read and clem_write: the cell of memory that an access reaches, a  *)
(* bank and a page of it; NoCell if it reaches a device, a card or nothing.*)

NoCell == <<>>
MapOf(bank) ==
    CASE bank = 0 -> maps.b00 [] bank = 1 -> maps.b01
      [] bank = 224 -> maps.be0 [] bank = 225 -> maps.be1

BankOf(kind, bank, mapped) ==
    CASE kind = "direct" -> bank
      [] kind = "mainaux" -> (bank - (bank % 2)) + (mapped % 2)
      [] OTHER -> mapped

ReadCell(bank, page) ==
    LET p == MapOf(bank)[page]
    IN IF p.kind \in {"io", "card"} THEN NoCell ELSE <<BankOf(p.kind, bank, p.rd), p.read>>

(* A write is checked against the map of the bank it is routed to, not the *)
(* one it came through.                                                    *)
WrittenPage(bank, page) ==
    LET p == MapOf(bank)[page] IN MapOf(BankOf(p.kind, bank, p.wr))[page]

WriteCell(bank, page) ==
    LET p == MapOf(bank)[page]
    IN IF p.kind \in {"io", "card"} \/ ~WrittenPage(bank, page).ok THEN NoCell
       ELSE <<BankOf(p.kind, bank, p.wr), WrittenPage(bank, page).write>>

ShadowCell(bank, page) ==
    LET cell == WriteCell(bank, page)
    IN IF cell = NoCell THEN NoCell
       ELSE IF /\ cell[1] \in {0, 1} /\ cell[2] \in ShadowPages
               /\ IF cell[1] = 0 THEN maps.sh0[cell[2]] ELSE maps.sh1[cell[2]]
            THEN <<224 + cell[1], cell[2]>>
            ELSE NoCell

(* The switches as software reads them back (clem_mmio_read).              *)
Status(flag) == IF flag = "INTCXROM" THEN "CXROM" \notin mmap_register ELSE flag \in mmap_register

-----------------------------------------------------------------------------
Init ==
    /\ mmap_register = {"SHGR", "WRLCRAM", "LCBANK2"}
    /\ maps = InitPageMaps({"SHGR", "WRLCRAM", "LCBANK2"})
    /\ last_data_address = OtherAddress
    /\ prior = OtherAddress

Map(flags) ==
    /\ mmap_register' = flags
    /\ maps' = Remapped(maps, mmap_register, flags)

(* Mutant of Ended: only a switch changes the last address. *)
OnlySwitchesEnd(address) ==
    /\ last_data_address' = IF address = OtherAddress THEN last_data_address ELSE address
    /\ prior' = address

(* clemens_emulate_mmio after the instruction: the data address on the pins. *)
Ended(address) ==
    /\ last_data_address' = address
    /\ prior' = address

(* The switches with a register of their own.                              *)
SetSwitch(flag) ==
    /\ flag \in {"80COLSTORE", "RAMRD", "RAMWRT", "CXROM", "ALTZPLC", "C3", "TXTPAGE2"}
    /\ Map(mmap_register \union {flag})
    /\ Ended(OtherAddress)

ClearSwitch(flag) ==
    /\ flag \in {"80COLSTORE", "RAMRD", "RAMWRT", "CXROM", "ALTZPLC", "C3", "TXTPAGE2"}
    /\ Map(mmap_register \ {flag})
    /\ Ended(OtherAddress)

SlotRomSelect(cards) ==   \* C02D
    /\ Map((mmap_register \ SlotPages) \union cards)
    /\ Ended(OtherAddress)

ShadowSet(inhibited) ==   \* C035
    /\ Map((mmap_register \ (NSHADOW \union {"NIOLC"})) \union inhibited)
    /\ Ended(OtherAddress)

StateFlags == {"ALTZPLC", "TXTPAGE2", "RAMRD", "RAMWRT", "RDLCRAM", "LCBANK2", "CXROM"}
StateRegSet(selected) ==  \* C068; RDROM and INTCXROM are the inverted bits
    /\ Map((mmap_register \ StateFlags) \union selected)
    /\ Ended(OtherAddress)

(* C080-C08F: the low two bits say what to read and whether to enable      *)
(* writes, bit 3 which bank; the write enable changes if the last data     *)
(* access was at the same address.                                         *)
ReadsRam(address) == address % 4 \in {0, 3}
EnablesWrites(address) == address % 2 = 1
BankSelect(register, address, last) ==
    LET bank == IF address < 8 THEN {"LCBANK2"} ELSE {}
        ram == IF ReadsRam(address) THEN {"RDLCRAM"} ELSE {}
        enable == IF last # address THEN register \intersect {"WRLCRAM"}
                  ELSE IF EnablesWrites(address) THEN {"WRLCRAM"} ELSE {}
    IN (register \ LC) \union bank \union ram \union enable

LcAccess(address) ==
    /\ Map(BankSelect(mmap_register, address, last_data_address))
    /\ Ended(address)

(* A 16-bit access touches two switches of the same instruction.           *)
LcWordAccess(address) ==
    /\ address + 1 \in LcAddresses
    /\ LET first == BankSelect(mmap_register, address, last_data_address)
           second == BankSelect(first, address + 1, last_data_address)
       IN /\ mmap_register' = second
          /\ maps' = Remapped(Remapped(maps, mmap_register, first), first, second)
    /\ Ended(address + 1)

(* Data of a RAM bank at the address of a switch, or anywhere else.        *)
OtherAccess(address) ==
    /\ Ended(address)
    /\ UNCHANGED <<mmap_register, maps>>

Reset ==                  \* clem_mmio_reset
    /\ mmap_register' = {"SHGR", "WRLCRAM", "LCBANK2"}
    /\ maps' = RestoreMappings(maps, mmap_register')
    /\ UNCHANGED <<last_data_address, prior>>

LoadSnapshot(register) == \* clem_mmio_restore
    /\ mmap_register' = register
    /\ maps' = InitPageMaps(register)
    /\ UNCHANGED <<last_data_address, prior>>

Next ==
    \/ \E flag \in Flags : SetSwitch(flag) \/ ClearSwitch(flag)
    \/ \E cards \in SUBSET SlotPages : SlotRomSelect(cards)
    \/ \E inhibited \in SUBSET (NSHADOW \union {"NIOLC"}) : ShadowSet(inhibited)
    \/ \E selected \in SUBSET StateFlags : StateRegSet(selected)
    \/ \E address \in LcAddresses : LcAccess(address) \/ LcWordAccess(address)
    \/ \E address \in LcAddresses \union {OtherAddress} : OtherAccess(address)
    \/ Reset
    \/ \E register \in SavedRegisters \union {mmap_register} : LoadSnapshot(register)

Spec == Init /\ [][Next]_vars

-----------------------------------------------------------------------------
(* However the switches were reached, one by one or many at a time, the    *)
(* page maps are those a machine has that is started with these switches:  *)
(* _clem_mmio_memory_map forgets no page, so loading a snapshot changes    *)
(* nothing of what the program can see (clem_mmio.c:1675, 1865).           *)
MapsMatchSwitches == maps = InitPageMaps(mmap_register)

(* As long as reads and writes of main memory are routed alike, a byte     *)
(* that was written is read back from where it went, whichever bank and    *)
(* page it went through; the writer looks at two maps, the reader at one   *)
(* (clem_mem.c:66, 124).                                                   *)
ReadsWhatItWrote ==
    \A bank \in Banks, page \in Pages :
        LET source == ReadCell(bank, page)
            target == WriteCell(bank, page)
        IN /\ target # NoCell /\ ("RAMRD" \in mmap_register <=> "RAMWRT" \in mmap_register)
           /\ source # NoCell /\ source[1] # ROM
           => source = target

(* What the status registers report is what accesses do: the zero page,    *)
(* main memory and the language card, the ROM of the slots.                *)
RoutingFollowsStatus ==
    /\ (ReadCell(0, "00")[1] = 1) <=> Status("ALTZPLC")
    /\ (ReadCell(0, "02")[1] = 1) <=> Status("RAMRD")
    /\ (WriteCell(0, "02")[1] = 1) <=> Status("RAMWRT")
    /\ (ReadCell(224, "D0")[2] = "D0") <=> Status("LCBANK2")
    /\ "NIOLC" \notin mmap_register =>
          /\ \A bank \in {0, 1}, page \in LcPages :
                /\ (ReadCell(bank, page)[1] # ROM) <=> Status("RDLCRAM")
                /\ (WriteCell(bank, page) # NoCell) <=> "WRLCRAM" \in mmap_register
          /\ \A bank \in Banks :
                /\ Status("INTCXROM") =>
                      \A page \in SlotPages : ReadCell(bank, page) = <<ROM, page>>
                /\ (ReadCell(bank, "C3") = NoCell) <=> Status("C3")

(* What is written to a display page that is not inhibited reaches the     *)
(* Mega II, in the bank that 80COLSTORE and PAGE2 or RAMWRT select, and    *)
(* all of the super hires page does if SHGR is not inhibited, whatever the *)
(* other inhibitions are.                                                  *)
VideoFollowsSwitches ==
    LET selected == IF Status("80COLSTORE") THEN Aux("TXTPAGE2", mmap_register)
                    ELSE Aux("RAMWRT", mmap_register)
    IN /\ ShadowCell(0, "04") =
             IF "TXT1" \in mmap_register THEN NoCell ELSE <<224 + selected, "04">>
       /\ "SHGR" \notin mmap_register =>
             \A page \in {"20", "40", "60"} : ShadowCell(1, page) = <<225, page>>

AccessesFollowSwitches == RoutingFollowsStatus /\ VideoFollowsSwitches

(* Writes to the language card become enabled, by its own switches, only   *)
(* when an instruction accesses the odd address at which the data accesses *)
(* of the program had ended; any other data access in between, wherever it *)
(* went, starts this over (emulator_mmio.c:501-503).                       *)
WriteEnableNeedsTwo ==
    [][ /\ "WRLCRAM" \notin mmap_register
        /\ \E address \in LcAddresses : LcAccess(address) \/ LcWordAccess(address)
        /\ "WRLCRAM" \in mmap_register'
        => prior % 2 = 1 /\ prior' \in {prior, prior + 1} ]_vars
=============================================================================
