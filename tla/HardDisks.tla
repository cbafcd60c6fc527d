----------------------------- MODULE HardDisks -----------------------------
(***************************************************************************)
(* The hard disks of the emulated machine: the SmartPort part of           *)
(* ClemensStorageUnit (host/core/clem_storage_unit.cpp) and the            *)
(* ClemensProDOSDisk that holds a whole image in memory                    *)
(* (clem_prodos_disk.cpp).  A port unit is a device of the SmartPort bus,  *)
(* a card unit a drive of the hard disk card in slot 7; the interface of   *)
(* the ClemensProDOSDisk is what either reads and writes blocks through.   *)
(*                                                                         *)
(* Four places remember what is in a unit: the bus (or the card), the disk *)
(* object, the asset and the report the host shows.  They are changed at   *)
(* different points of assignSmartPortDisk and ejectSmartPortDisk, each of *)
(* which may return early.                                                 *)
(***************************************************************************)
EXTENDS Naturals

CONSTANTS
    PortUnits, CardUnits,
    Images,        \* image files of a type a hard disk may have
    NoImage,       \* the empty path
    NoSnapshot,
    MaxWrites,     \* bound: guest writes in a behaviour
    MaxSnapshots,  \* bound: 0 if the user takes no snapshot, else 1
    WrongTypes     \* whether the user tries files that are no hard disk image

Units == PortUnits \union CardUnits

ASSUME UnitsAssumption == PortUnits \intersect CardUnits = {}
ASSUME ImagesAssumption == NoImage \notin Images
ASSUME BoundsAssumption == MaxWrites \in Nat /\ MaxSnapshots \in {0, 1} /\ WrongTypes \in BOOLEAN

Torn == MaxWrites + 1      \* what a failed write or read leaves behind
Empty == MaxWrites + 2     \* storage_.isEmpty()
Versions == 0 .. Torn
Paths == Images \union {NoImage}
UnitType == [attached : BOOLEAN,          \* a device on the bus or the card
             bound : Paths,               \* ClemensProDOSDisk::assetPath_
             data : Versions \union {Empty},
             asset : Paths,               \* smartDiskAssets_
             report : Paths]              \* smartDiskStatuses_

ASSUME SnapshotAssumption == NoSnapshot \notin [Units -> UnitType]

VARIABLES status, unit, file, config, snapshot, writes,
          written,  \* history: the version the machine last gave an image
          excuse,   \* history: why an image file may be behind its disk
          mistyped  \* history: the units offered a file of a wrong type

vars == <<status, unit, file, config, snapshot, writes, written, excuse, mistyped>>

NoUnit == [attached |-> FALSE, bound |-> NoImage, data |-> Empty,
           asset |-> NoImage, report |-> NoImage]

TypeOK ==
    /\ status \in {"None", "Ready", "Offline", "Aborted"}
    /\ unit \in [Units -> UnitType]
    /\ file \in [Images -> Versions]
    /\ config \in [Units -> Paths]
    /\ snapshot \in [Units -> UnitType] \union {NoSnapshot}
    /\ writes \in 0 .. MaxWrites
    /\ written \in [Images -> Versions]
    /\ excuse \in [Images -> {"none", "failed", "untracked", "halted"}]
    /\ mistyped \subseteq Units

Init ==
    /\ status = "None"
    /\ unit = [u \in Units |-> NoUnit]
    /\ file = [i \in Images |-> 0]
    /\ config = [u \in Units |-> NoImage]
    /\ snapshot = NoSnapshot
    /\ writes = 0
    /\ written = [i \in Images |-> 0]
    /\ excuse = [i \in Images |-> "none"]
    /\ mistyped = {}

-----------------------------------------------------------------------------
(* The steps a handler is made of, as functions on a situation s: the unit *)
(* r, the files f, the excuses e and whether an assertion has failed.      *)

Outcomes == {"saved", "notOpened", "torn"}
Reads == {"ok", "noFile", "badImage"}
Situation(u) == [r |-> unit[u], f |-> file, e |-> excuse, aborted |-> FALSE]

\* ClemensProDOSDisk::save, without its result
SaveDisk(s, o) ==
    IF s.r.bound = NoImage \/ s.aborted THEN s
    ELSE IF s.r.data = Empty THEN [s EXCEPT !.aborted = TRUE]
    ELSE CASE o = "saved" ->
                [s EXCEPT !.f[s.r.bound] = s.r.data]
           [] o = "notOpened" ->
                [s EXCEPT !.e[s.r.bound] = "failed"]
           [] o = "torn" ->
                [s EXCEPT !.f[s.r.bound] = Torn, !.e[s.r.bound] = "failed"]

\* A mutant of Release: the disk is let go without a save.
ReleaseUnsaved(s, o) == [s EXCEPT !.r.bound = NoImage, !.r.data = Empty]

\* ClemensProDOSDisk::release keeps everything when the save failed.
Release(s, o) ==
    LET after == SaveDisk(s, o)
    IN IF s.r.bound # NoImage /\ o # "saved" THEN after
       ELSE [after EXCEPT !.r.bound = NoImage, !.r.data = Empty]

\* ejectSmartPortDisk.  It releases the disk if a device was attached.
Eject(s, o) ==
    IF s.r.report = NoImage THEN s
    ELSE LET released == IF s.r.attached THEN Release(s, o) ELSE s
         IN [released EXCEPT !.r.attached = FALSE, !.r.report = NoImage]

\* ClemensProDOSDisk::bind: save() what is bound, forget it, read the image.
\* An image that cannot be parsed leaves some of its bytes in storage_.
Bind(s, i, o, read) ==
    LET saved == SaveDisk(s, o)
    IN CASE read = "ok" ->
              [saved EXCEPT !.r.bound = i, !.r.data = saved.f[i], !.e[i] = "none"]
         [] read = "noFile" -> [saved EXCEPT !.r.data = Empty]
         [] read = "badImage" -> [saved EXCEPT !.r.data = Torn]

\* A mutant of Assign: the result of bind() is not looked at.
AssignUnchecked(u, s, i, o1, o2, read) ==
    [Bind([Eject(s, o1) EXCEPT !.r.asset = i], i, o2, read)
        EXCEPT !.r.attached = TRUE, !.r.report = i]

\* assignSmartPortDisk.  A port unit refuses a second device, and then the
\* report stays as it was.
Assign(u, s, i, o1, o2, read) ==
    LET ejected == Eject(s, o1)
        bind == Bind([ejected EXCEPT !.r.asset = i], i, o2, read)
    IN IF read # "ok" THEN [bind EXCEPT !.r.report = NoImage]
       ELSE IF u \in PortUnits /\ bind.r.attached
            THEN [bind EXCEPT !.e[i] = "untracked"]
       ELSE [bind EXCEPT !.r.attached = TRUE, !.r.report = i]

\* The files, or excuses, after units that hold different images each did
\* their part.
Merge(old, new) ==
    [i \in Images |->
        LET U == {u \in Units : new[u][i] # old[i]}
        IN IF U = {} THEN old[i] ELSE new[CHOOSE u \in U : TRUE][i]]

\* How the host can answer when the units U save; only a bound disk asks.
Answers(U, r) ==
    {out \in [U -> Outcomes] :
        \A u \in U : r[u].bound = NoImage => out[u] = "saved"}

-----------------------------------------------------------------------------
(* The machine.                                                            *)

Alive == status \in {"Ready", "Offline"}

\* The images in the drives of a machine that ends without an unmount.
Abandon(e) ==
    [i \in Images |->
        IF e[i] = "none" /\ \E u \in Units : unit[u].attached /\ unit[u].bound = i
        THEN "halted" ELSE e[i]]

\* mount() of a new machine: assignSmartPortDisk for the configured images.
PowerOn ==
    /\ status = "None"
    /\ \E read \in {f \in [Units -> Reads] :
                     \A u \in Units : config[u] = NoImage => f[u] = "ok"} :
          LET fresh == [r |-> NoUnit, f |-> file, e |-> excuse, aborted |-> FALSE]
              After == [u \in Units |->
                           IF config[u] = NoImage THEN fresh
                           ELSE Assign(u, fresh, config[u], "saved", "saved", read[u])]
          IN /\ unit' = [u \in Units |-> After[u].r]
             /\ \A u, v \in Units :
                   u # v /\ unit'[u].bound # NoImage => unit'[u].bound # unit'[v].bound
             /\ excuse' = Merge(excuse, [u \in Units |-> After[u].e])
    /\ written' = [i \in Images |->
                      IF \E u \in Units : unit'[u].bound = i THEN file[i] ELSE written[i]]
    /\ config' = [u \in Units |-> unit'[u].report]
    /\ status' = "Ready"
    /\ UNCHANGED <<file, snapshot, writes, mistyped>>

\* The guest executes STP; stepMachine then makes the status Offline.
Halt ==
    /\ status = "Ready"
    /\ status' = "Offline"
    /\ UNCHANGED <<unit, file, config, snapshot, writes, written, excuse, mistyped>>

\* unmount() ejects every unit, unless the machine is Offline.
Ejected(out) == [u \in Units |-> Eject(Situation(u), out[u])]

UnmountedFiles(out) ==
    IF status = "Offline" THEN file
    ELSE Merge(file, [u \in Units |-> Ejected(out)[u].f])

UnmountedExcuses(out) ==
    IF status = "Offline" THEN Abandon(excuse)
    ELSE Merge(excuse, [u \in Units |-> Ejected(out)[u].e])

\* queryConfig, then the destructor.
PowerOff ==
    /\ Alive
    /\ config' = [u \in Units |-> unit[u].report]
    /\ \E out \in Answers(Units, unit) :
          /\ file' = UnmountedFiles(out)
          /\ excuse' = UnmountedExcuses(out)
          /\ status' = IF status # "Offline" /\ \E u \in Units : Ejected(out)[u].aborted
                       THEN "Aborted" ELSE "None"
    /\ unit' = [u \in Units |-> NoUnit]
    /\ UNCHANGED <<snapshot, writes, written, mistyped>>

\* A failed assertion ends the process, and the user starts it again.
Relaunch ==
    /\ status = "Aborted"
    /\ status' = "None"
    /\ excuse' = Abandon(excuse)
    /\ unit' = [u \in Units |-> NoUnit]
    /\ UNCHANGED <<file, config, snapshot, writes, written, mistyped>>

\* ClemensStorageUnit::serialize writes the disks with their blocks and the
\* assets; the reports are not written.
SaveMachine ==
    /\ status = "Ready"
    /\ MaxSnapshots = 1
    /\ snapshot' = unit
    /\ UNCHANGED <<status, unit, file, config, writes, written, excuse, mistyped>>

\* unserialize.  A port unit is reported mounted whenever it has an asset, a
\* card unit only if the card had an image.  An image without blocks cannot
\* be parsed, and then the load fails.
Loaded(u) ==
    LET r == snapshot[u]
        reported == IF u \in PortUnits \/ r.attached THEN r.asset ELSE NoImage
    IN [r EXCEPT !.report = reported]

\* mount() of a loaded machine saves the disks of the units that are reported.
Holders(i) == {u \in Units : Loaded(u).report # NoImage /\ Loaded(u).bound = i}

LoadMachine ==
    /\ Alive
    /\ snapshot # NoSnapshot
    /\ \A u \in Units : ~(snapshot[u].bound # NoImage /\ snapshot[u].data = Empty)
    /\ \E old \in Answers(Units, unit), new \in Answers(Units, snapshot) :
          /\ file' = [i \in Images |->
                         IF Holders(i) = {} THEN UnmountedFiles(old)[i]
                         ELSE LET u == CHOOSE u \in Holders(i) : TRUE
                              IN CASE new[u] = "saved" -> Loaded(u).data
                                   [] new[u] = "notOpened" -> UnmountedFiles(old)[i]
                                   [] new[u] = "torn" -> Torn]
          \* a disk that release() could not save is still bound
          /\ excuse' = [i \in Images |->
                         IF \E u \in Units : Loaded(u).bound = i /\ ~Loaded(u).attached
                         THEN "failed"
                         ELSE IF Holders(i) = {} THEN UnmountedExcuses(old)[i]
                         ELSE IF new[CHOOSE u \in Holders(i) : TRUE] = "saved"
                              THEN "none" ELSE "failed"]
          /\ written' = [i \in Images |->
                          IF Holders(i) = {} THEN written[i]
                          ELSE Loaded(CHOOSE u \in Holders(i) : TRUE).data]
    /\ unit' = [u \in Units |-> Loaded(u)]
    /\ config' = [u \in Units |-> unit'[u].report]
    /\ status' = "Ready"
    /\ UNCHANGED <<snapshot, writes, mistyped>>

-----------------------------------------------------------------------------
(* The guest and the user.                                                 *)

\* doWriteBlock.  A unit whose storage is empty has no block to write.
GuestWrite(u) ==
    /\ status = "Ready"
    /\ unit[u].attached
    /\ unit[u].data # Empty
    /\ writes < MaxWrites
    /\ writes' = writes + 1
    /\ unit' = [unit EXCEPT ![u].data = writes']
    /\ written' = [written EXCEPT ![unit[u].bound] = writes']
    /\ UNCHANGED <<status, file, config, snapshot, excuse, mistyped>>

\* The commands end the process if an assertion failed.
Conclude(u, s) ==
    /\ unit' = [unit EXCEPT ![u] = s.r]
    /\ file' = s.f
    /\ excuse' = s.e
    /\ status' = IF s.aborted THEN "Aborted" ELSE status

\* onCommandEjectSmartPortDisk; unlike for a floppy no configuration is saved.
EjectSmartPortDisk(u) ==
    /\ Alive
    /\ \E out \in Answers({u}, unit) : Conclude(u, Eject(Situation(u), out[u]))
    /\ UNCHANGED <<config, snapshot, writes, written, mistyped>>

\* onCommandInsertSmartPortDisk.  The user has one unit at a time use a file.
InsertSmartPortDisk(u, i) ==
    /\ Alive
    /\ \A v \in Units \ {u} : unit[v].bound # i
    /\ \E out1, out2 \in Answers({u}, unit), read \in Reads :
          /\ Conclude(u, Assign(u, Situation(u), i, out1[u], out2[u], read))
          /\ written' = IF read = "ok" THEN [written EXCEPT ![i] = unit'[u].data]
                                       ELSE written
    /\ config' = [config EXCEPT ![u] = unit'[u].report]
    /\ UNCHANGED <<snapshot, writes, mistyped>>

\* assignSmartPortDisk of a file that is no hard disk image: it reports the
\* failure, which forgets the mounted path, before it has ejected anything.
InsertWrongType(u) ==
    /\ Alive
    /\ WrongTypes
    /\ unit' = [unit EXCEPT ![u].report = NoImage]
    /\ mistyped' = mistyped \union {u}
    /\ config' = [config EXCEPT ![u] = NoImage]
    /\ excuse' = [i \in Images |->
                     IF unit[u].attached /\ unit[u].bound = i /\ excuse[i] = "none"
                     THEN "untracked" ELSE excuse[i]]
    /\ UNCHANGED <<status, file, snapshot, writes, written>>

Next ==
    \/ PowerOn \/ PowerOff \/ Relaunch \/ Halt \/ SaveMachine \/ LoadMachine
    \/ \E u \in Units :
          \/ GuestWrite(u) \/ EjectSmartPortDisk(u) \/ InsertWrongType(u)
          \/ \E i \in Images : InsertSmartPortDisk(u, i)

Spec == Init /\ [][Next]_vars

-----------------------------------------------------------------------------
(* Properties.                                                             *)

InUse(i) == \E u \in Units : unit[u].attached /\ unit[u].bound = i

(***************************************************************************)
(* No write of the guest is lost: an image that no unit uses holds what    *)
(* the machine last wrote to it, unless the host refused the save, the     *)
(* unit was attached without a report, or the machine ended without an     *)
(* unmount.                                                                *)
(***************************************************************************)
Durable ==
    \A i \in Images : ~InUse(i) /\ excuse[i] = "none" => file[i] = written[i]

(***************************************************************************)
(* What the host reports is what the guest finds.  A unit that is reported *)
(* and on the bus, or the card, has its image in memory under the reported *)
(* path: neither a failed save in release() nor a failed bind() leaves the *)
(* guest with another disk or none, unless a file of a wrong type was      *)
(* offered for the unit (see InsertWrongType).  And it is on the bus or    *)
(* the card: for a card unit after a snapshot load too, as the card        *)
(* remembers which drives had an image; for a port unit only while no      *)
(* snapshot exists, since unserialize() reports any unit that ever had an  *)
(* asset.                                                                  *)
(***************************************************************************)
ReportedUnitIsReal ==
    \A u \in Units : unit[u].report # NoImage =>
        /\ unit[u].attached /\ u \notin mistyped =>
              /\ unit[u].bound = unit[u].report
              /\ unit[u].asset = unit[u].report
              /\ unit[u].data # Empty
        /\ unit[u].attached \/ (u \in PortUnits /\ snapshot # NoSnapshot)
=============================================================================
