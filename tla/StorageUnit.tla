---------------------------- MODULE StorageUnit ----------------------------
(***************************************************************************)
(* The floppy drives of the emulated machine and the host objects that     *)
(* keep their image files: ClemensStorageUnit (host/core/                  *)
(* clem_storage_unit.cpp), the life of a ClemensAppleIIGS                  *)
(* (clem_apple2gs.cpp) as far as the disks depend on it, and the drive     *)
(* flags of clem_iwm.c and clem_drive35.c that the storage unit polls.     *)
(*                                                                         *)
(* Three parties act on a drive.  The guest program writes to it, commands *)
(* the 3.5" drive to eject and may stop its own processor (STP).  The user *)
(* inserts and ejects images, saves and loads snapshots and powers the     *)
(* machine on and off.  The backend polls every drive once a frame         *)
(* (ClemensStorageUnit::update).  What a disk holds is a version number:   *)
(* every guest write makes a new one.                                      *)
(***************************************************************************)
EXTENDS Naturals, FiniteSets, FiniteSetsExt

CONSTANTS
    Drives35, Drives525, \* the drives; numbered in ClemensDriveType's order
    Images,              \* the image files of the host
    NoImage,             \* the empty path
    NoSnapshot,
    MaxWrites,           \* bound: guest writes in a behaviour
    MaxSnapshots         \* bound: 0 if the user takes no snapshot, else 1

Drives == Drives35 \union Drives525

ASSUME DrivesAssumption ==
    /\ Drives \subseteq Nat
    /\ IsFiniteSet(Drives)
    /\ Drives35 \intersect Drives525 = {}
ASSUME ImagesAssumption == NoImage \notin Images
ASSUME BoundsAssumption == MaxWrites \in Nat /\ MaxSnapshots \in {0, 1}

Torn == MaxWrites + 1     \* an image file whose rewriting failed half way
Versions == 0 .. Torn
Paths == Images \union {NoImage}

VARIABLES
    status,    \* ClemensAppleIIGS::status_; "None" while there is no machine
    drive,     \* ClemensDrive: has_disk, the data, status_mask_35, the timer
    asset,     \* diskAssets_[d].path()
    report,    \* diskStatuses_[d]: the mounted path, and isEjecting
    file,      \* the image files of the host
    config,    \* diskImagePaths of the last configuration written
    snapshot,  \* the snapshot file
    writes,    \* guest writes so far, which is the newest version
    written,   \* history: the version the machine last gave an image
    excuse     \* history: why an image file may be behind its disk

vars == <<status, drive, asset, report, file, config, snapshot, writes,
          written, excuse>>
history == <<written, excuse>>

Empty == [hasDisk |-> FALSE, content |-> 0, ejecting |-> FALSE,
          ejected |-> FALSE, timer |-> FALSE]
Mount(p) == [assetPath |-> p, isEjecting |-> FALSE]
MountFailed(r) == [r EXCEPT !.assetPath = NoImage]

DriveType == [hasDisk : BOOLEAN, content : Versions, ejecting : BOOLEAN,
              ejected : BOOLEAN, timer : BOOLEAN]

TypeOK ==
    /\ status \in {"None", "Ready", "Online", "Offline", "Aborted"}
    /\ drive \in [Drives -> DriveType]
    /\ asset \in [Drives -> Paths]
    /\ report \in [Drives -> [assetPath : Paths, isEjecting : BOOLEAN]]
    /\ file \in [Images -> Versions]
    /\ config \in [Drives -> Paths]
    /\ snapshot \in [drive : [Drives -> DriveType], asset : [Drives -> Paths]]
                    \union {NoSnapshot}
    /\ writes \in 0 .. MaxWrites
    /\ written \in [Images -> Versions]
    /\ excuse \in [Images -> {"none", "failed", "shared", "halted"}]

Init ==
    /\ status = "None"
    /\ drive = [d \in Drives |-> Empty]
    /\ asset = [d \in Drives |-> NoImage]
    /\ report = [d \in Drives |-> Mount(NoImage)]
    /\ file = [i \in Images |-> 0]
    /\ config = [d \in Drives |-> NoImage]
    /\ snapshot = NoSnapshot
    /\ writes = 0
    /\ written = [i \in Images |-> 0]
    /\ excuse = [i \in Images |-> "none"]

-----------------------------------------------------------------------------
(* Saving: decode the nibbles, open the file (which truncates it), write.  *)

Outcomes == {"saved", "notOpened", "torn"}

IsMounted(d) == report[d].assetPath # NoImage
Alive == status \in {"Ready", "Online", "Offline"}
Ok == status \in {"Ready", "Online"}         \* isOk() and isMounted()

\* saveDisk of every drive of D, holding dr and named by as, in the order of
\* the drives; out[d] is how the host's file system answers.
SaveTo(D, dr, as, out, f) ==
    [i \in Images |->
        LET W == {d \in D : as[d] = i /\ out[d] # "notOpened"}
        IN IF W = {} THEN f[i]
           ELSE IF out[Max(W)] = "saved" THEN dr[Max(W)].content ELSE Torn]

\* A mutant of CanEject: a drive that is ejecting is left alone.
CanEjectIdle ==
    {d \in Drives : drive[d].hasDisk /\ IsMounted(d) /\ ~drive[d].ejecting}
\* The drives for which ejectDisk gets past its early return.
CanEject == {d \in Drives : drive[d].hasDisk /\ IsMounted(d)}

\* clem_iwm_eject_disk.  Nothing reads the nibbles while has_disk is false.
EjectNibbles(r, d) ==
    LET gone == [r EXCEPT !.hasDisk = FALSE, !.content = 0]
    IN IF d \in Drives35
       THEN [gone EXCEPT !.ejecting = FALSE, !.ejected = TRUE]
       ELSE gone

\* clem_iwm_insert_disk, of an image with this content
InsertNibbles(r, content) == [r EXCEPT !.hasDisk = TRUE, !.content = content]

\* The excuses of the images saved from the drives of D, where a failure is
\* an excuse until the image is read again.
ExcuseOf(D, as, out, e) ==
    [i \in Images |->
        IF e[i] = "none" /\ \E d \in D : as[d] = i /\ out[d] # "saved"
        THEN "failed" ELSE e[i]]

\* The excuses when the drives dr, named by as, hold images just read or
\* written: two drives with one image will overwrite each other's file.
FreshExcuse(D, dr, as, e) ==
    [i \in Images |->
        LET in == {d \in Drives : dr[d].hasDisk /\ as[d] = i}
        IN IF ~ \E d \in D : d \in in THEN e[i]
           ELSE IF Cardinality(in) > 1 THEN "shared" ELSE "none"]

SavedConfig(r) == [d \in Drives |-> r[d].assetPath]

-----------------------------------------------------------------------------
(* The life of the machine.                                                *)

\* The ClemensAppleIIGS constructor and mount(): insertDisk for every image
\* the configuration names, then saveConfig.
PowerOn ==
    /\ status = "None"
    /\ \E readable \in SUBSET {d \in Drives : config[d] # NoImage} :
          LET dr == [d \in Drives |->
                        IF d \in readable
                        THEN InsertNibbles(Empty, file[config[d]])
                        ELSE Empty]
              as == [d \in Drives |-> IF d \in readable THEN config[d] ELSE NoImage]
          IN /\ drive' = dr
             /\ asset' = as
             /\ report' = [d \in Drives |->
                              IF d \notin readable /\ config[d] # NoImage
                              THEN MountFailed(report[d]) ELSE Mount(as[d])]
             /\ config' = SavedConfig(report')
             /\ written' = [i \in Images |->
                               IF \E d \in readable : config[d] = i
                               THEN file[i] ELSE written[i]]
             /\ excuse' = FreshExcuse(readable, dr, as, excuse)
    /\ status' = "Ready"
    /\ UNCHANGED <<file, snapshot, writes>>

\* stepMachine: the guest runs, and may have executed STP.  A machine that is
\* Offline is not stepped again, as isOk() is false for it.
Step ==
    /\ Ok
    /\ status' \in {"Online", "Offline"}
    /\ UNCHANGED <<drive, asset, report, file, config, snapshot, writes, history>>

\* runBackend's end: queryConfig, then ~ClemensAppleIIGS and its unmount(),
\* which ejects nothing unless isMounted().
PowerOff ==
    /\ Alive
    /\ config' = SavedConfig(report)
    /\ \E out \in [Drives -> Outcomes] :
          LET D == IF Ok THEN CanEject ELSE {}
          IN /\ file' = SaveTo(D, drive, asset, out, file)
             /\ excuse' = [i \in Images |->
                              IF status = "Offline" /\ excuse[i] = "none"
                                 /\ \E d \in Drives : drive[d].hasDisk /\ asset[d] = i
                              THEN "halted"
                              ELSE ExcuseOf(D, asset, out, excuse)[i]]
    /\ status' = "None"
    /\ drive' = [d \in Drives |-> Empty]
    /\ asset' = [d \in Drives |-> NoImage]
    /\ report' = [d \in Drives |-> Mount(NoImage)]
    /\ UNCHANGED <<snapshot, writes, written>>

\* onCommandSaveMachine: save() refuses a machine that is Offline.  The
\* drives and the assets are in the snapshot; the drive reports are not.
SaveMachine ==
    /\ Ok
    /\ MaxSnapshots = 1
    /\ snapshot' = [drive |-> drive, asset |-> asset]
    /\ UNCHANGED <<status, drive, asset, report, file, config, writes, history>>

\* ClemensBackend::unserialize: the new machine is built from the snapshot,
\* the old one unmounted, the new one mounted (saveAllDisks, saveConfig).
LoadMachine ==
    /\ Alive
    /\ snapshot # NoSnapshot
    /\ drive' = snapshot.drive
    /\ asset' = snapshot.asset
    /\ \E old, new \in [Drives -> Outcomes] :
          LET D == IF Ok THEN CanEject ELSE {}
              L == {d \in Drives : drive'[d].hasDisk /\ asset'[d] # NoImage}
              left == [i \in Images |->
                          IF status = "Offline" /\ excuse[i] = "none"
                             /\ \E d \in Drives : drive[d].hasDisk /\ asset[d] = i
                          THEN "halted"
                          ELSE ExcuseOf(D, asset, old, excuse)[i]]
          IN /\ file' = SaveTo(L, drive', asset', new,
                               SaveTo(D, drive, asset, old, file))
             /\ report' = [d \in Drives |-> Mount(asset'[d])]
             /\ excuse' = ExcuseOf(L, asset', new,
                                   FreshExcuse(L, drive', asset', left))
             /\ written' = [i \in Images |->
                               LET W == {d \in L : asset'[d] = i}
                               IN IF W = {} THEN written[i] ELSE drive'[Max(W)].content]
    /\ config' = SavedConfig(report')
    /\ status' = "Ready"
    /\ UNCHANGED <<snapshot, writes>>

-----------------------------------------------------------------------------
(* The guest.                                                              *)

GuestWrite(d) ==
    /\ Ok
    /\ drive[d].hasDisk
    /\ writes < MaxWrites
    /\ writes' = writes + 1
    /\ drive' = [drive EXCEPT ![d].content = writes']
    /\ written' = [i \in Images |-> IF asset[d] = i THEN writes' ELSE written[i]]
    /\ UNCHANGED <<status, asset, report, file, config, snapshot, excuse>>

\* clem_disk_35_start_eject: it does not ask whether there is a disk.
Ejecting(r) == [r EXCEPT !.ejecting = TRUE, !.timer = TRUE]

StartEject(d) ==
    /\ Ok
    /\ d \in Drives35
    /\ ~drive[d].ejecting
    /\ drive' = [drive EXCEPT ![d] = Ejecting(@)]
    /\ UNCHANGED <<status, asset, report, file, config, snapshot, writes, history>>

\* The timer of clem_disk_control_35 runs out.  Only with a disk in the drive
\* does that end the eject, and then has_disk stays as it is.
TimedOut(r) ==
    IF r.hasDisk /\ r.ejecting
    THEN [r EXCEPT !.timer = FALSE, !.ejecting = FALSE, !.ejected = TRUE]
    ELSE [r EXCEPT !.timer = FALSE]

EjectTimer(d) ==
    /\ Ok
    /\ drive[d].timer
    /\ drive' = [drive EXCEPT ![d] = TimedOut(@)]
    /\ UNCHANGED <<status, asset, report, file, config, snapshot, writes,
                   written, excuse>>

\* CLEM_IWM_DISK35_CTL_EJECTED_RESET
EjectedReset(d) ==
    /\ Ok
    /\ drive[d].ejected
    /\ drive' = [drive EXCEPT ![d].ejected = FALSE]
    /\ UNCHANGED <<status, asset, report, file, config, snapshot, writes, history>>

-----------------------------------------------------------------------------
(* The user.  Commands are dispatched while the machine is Offline too.    *)

\* onCommandEjectDisk
EjectDisk(d) ==
    /\ Alive
    /\ IF d \in CanEject
       THEN /\ \E o \in Outcomes :
                  LET out == [e \in Drives |-> o]
                  IN /\ file' = SaveTo({d}, drive, asset, out, file)
                     /\ excuse' = ExcuseOf({d}, asset, out, excuse)
            /\ drive' = [drive EXCEPT ![d] = EjectNibbles(@, d)]
            /\ report' = [report EXCEPT ![d] = Mount(NoImage)]
       ELSE UNCHANGED <<file, excuse, drive, report>>
    /\ config' = SavedConfig(report')
    /\ UNCHANGED <<status, asset, snapshot, writes, written>>

\* insertDisk: eject what is there, read the file, parse it into the drive.
\* onCommandInsertDisk saves the configuration only when it succeeded.
InsertDisk(d, i) ==
    /\ Alive
    /\ \E o \in Outcomes, read \in {"ok", "noFile", "badImage"} :
          LET D == CanEject \intersect {d}
              out == [e \in Drives |-> o]
              saved == SaveTo(D, drive, asset, out, file)
              old == IF D = {} THEN drive[d] ELSE EjectNibbles(drive[d], d)
              blank == IF D = {} THEN report[d] ELSE Mount(NoImage)
              left == ExcuseOf(D, asset, out, excuse)
          IN /\ file' = saved
             /\ CASE read = "noFile" ->
                       /\ drive' = [drive EXCEPT ![d] = old]
                       /\ report' = [report EXCEPT ![d] = MountFailed(blank)]
                       /\ excuse' = left
                       /\ UNCHANGED <<asset, written, config>>
                  [] read # "noFile" /\ old.hasDisk ->   \* clemens_insert_disk refuses
                       /\ drive' = [drive EXCEPT ![d] = old]
                       /\ report' = [report EXCEPT ![d] = blank]
                       /\ excuse' = left
                       /\ UNCHANGED <<asset, written, config>>
                  [] read = "badImage" /\ ~old.hasDisk ->
                       /\ drive' = [drive EXCEPT ![d] = EjectNibbles(old, d)]
                       /\ asset' = [asset EXCEPT ![d] = NoImage]
                       /\ report' = [report EXCEPT ![d] = MountFailed(blank)]
                       /\ excuse' = left
                       /\ UNCHANGED <<written, config>>
                  [] read = "ok" /\ ~old.hasDisk ->
                       /\ drive' = [drive EXCEPT ![d] = InsertNibbles(old, saved[i])]
                       /\ asset' = [asset EXCEPT ![d] = i]
                       /\ report' = [report EXCEPT ![d] = Mount(i)]
                       /\ written' = [written EXCEPT ![i] = saved[i]]
                       /\ excuse' = FreshExcuse({d}, drive', asset', left)
                       /\ config' = SavedConfig(report')
    /\ UNCHANGED <<status, snapshot, writes>>

-----------------------------------------------------------------------------
(* The poll of a frame.                                                    *)

\* clem_iwm_eject_disk_in_progress
EjectStatus(d) ==
    IF drive[d].hasDisk
    THEN IF drive[d].ejecting THEN "InProgress" ELSE "None"
    ELSE IF drive[d].ejected THEN "Ejected" ELSE "None"

\* A mutant of Update: the guest's eject unmounts without ejecting the nibbles.
UpdateUnmountsOnly ==
    /\ Ok
    /\ report' = [d \in Drives |->
                     IF d \in Drives35 /\ drive[d].ejected THEN Mount(NoImage)
                     ELSE report[d]]
    /\ UNCHANGED <<status, drive, asset, file, config, snapshot, writes, history>>

\* ClemensStorageUnit::update, from getFrame.  A 3.5" drive that says Ejected
\* has no disk, so clemens_eject_disk returns NULL and assert(disk) fails.
Update ==
    /\ Ok
    /\ LET polled == {d \in Drives35 : IsMounted(d)}
       IN IF \E d \in polled : EjectStatus(d) = "Ejected"
          THEN /\ status' = "Aborted"
               /\ UNCHANGED report
          ELSE /\ report' = [d \in Drives |->
                     IF d \in polled /\ ~drive[d].hasDisk THEN Mount(NoImage)
                     ELSE [report[d] EXCEPT !.isEjecting =
                              d \in polled /\ EjectStatus(d) = "InProgress"]]
               /\ UNCHANGED status
    /\ UNCHANGED <<drive, asset, file, config, snapshot, writes, history>>

\* The failed assertion ends the process; the user starts it again.  Nothing
\* was unmounted, so what the drives held is gone.
Relaunch ==
    /\ status = "Aborted"
    /\ status' = "None"
    /\ excuse' = [i \in Images |->
                     IF excuse[i] = "none" /\ \E d \in Drives : drive[d].hasDisk /\ asset[d] = i
                     THEN "halted" ELSE excuse[i]]
    /\ drive' = [d \in Drives |-> Empty]
    /\ asset' = [d \in Drives |-> NoImage]
    /\ report' = [d \in Drives |-> Mount(NoImage)]
    /\ UNCHANGED <<file, config, snapshot, writes, written>>

Next ==
    \/ PowerOn \/ PowerOff \/ Relaunch \/ Step \/ SaveMachine \/ LoadMachine \/ Update
    \/ \E d \in Drives :
          \/ GuestWrite(d) \/ StartEject(d) \/ EjectTimer(d) \/ EjectedReset(d)
          \/ EjectDisk(d)
          \/ \E i \in Images : InsertDisk(d, i)

Spec == Init /\ [][Next]_vars

-----------------------------------------------------------------------------
(* Properties.                                                             *)

InADrive(i) == \E d \in Drives : drive[d].hasDisk /\ asset[d] = i

(***************************************************************************)
(* A disk in a drive is known to the host under the path it will be saved  *)
(* to: the report, the asset and the drive, which change in different      *)
(* places of insertDisk, mountDisk, ejectDisk and unserialize, agree.  If  *)
(* they did not, ejectDisk's early return would skip the save.             *)
(***************************************************************************)
DiskIsTracked ==
    \A d \in Drives : drive[d].hasDisk =>
        asset[d] # NoImage /\ report[d].assetPath = asset[d]

(***************************************************************************)
(* No write of the guest is lost: an image that is in no drive holds what  *)
(* the machine last wrote to it, whatever sequence of inserts, ejects,     *)
(* snapshots and power cycles went before, unless the host refused a save, *)
(* two drives shared the file, or the machine ended without an unmount.    *)
(***************************************************************************)
Durable ==
    \A i \in Images :
        ~InADrive(i) /\ excuse[i] = "none" => file[i] = written[i]

(***************************************************************************)
(* What the source says and the code does not do.                          *)
(*                                                                         *)
(* assert(disk) in ClemensStorageUnit::update never fails.                 *)
(***************************************************************************)
NeverAborts == status # "Aborted"

=============================================================================
