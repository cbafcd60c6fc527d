------------------------- MODULE StorageUnitProofs -------------------------
(***************************************************************************)
(* No write of the guest to a floppy disk is lost, and every disk in a     *)
(* drive is known to the host under the path it is saved to, for any       *)
(* number of drives, images, writes and snapshots.                         *)
(***************************************************************************)
EXTENDS StorageUnit, FiniteSetTheorems, TLAPS

(* A non-empty finite set of numbers has a greatest: else there would be a *)
(* smallest set without one, and what is left of it without any x has a    *)
(* greatest m, so that x or m is the greatest of all.                      *)
LEMMA GreatestExists ==
    ASSUME NEW S, IsFiniteSet(S), S \subseteq Nat, S # {}
    PROVE  \E x \in S : \A y \in S : x >= y
<1> DEFINE Lacks(A) == A # {} /\ ~ \E x \in A : \A y \in A : x >= y
           T == {A \in FiniteSubsetsOf(S) : Lacks(A)}
<1>1. SUFFICES ASSUME Lacks(S)
               PROVE  FALSE
  OBVIOUS
<1>2. S \in T
  BY <1>1 DEF FiniteSubsetsOf
<1>3. T \subseteq FiniteSubsetsOf(S) /\ T # {}
  BY <1>2
<1>4. IsWellFoundedOn(StrictSubsetOrdering(S), FiniteSubsetsOf(S))
  BY FS_StrictSubsetOrderingWellFounded
<1> HIDE DEF T
<1>5. PICK A \in T : \A B \in T : <<B, A>> \notin StrictSubsetOrdering(S)
  BY <1>3, <1>4, WFMin
<1>6. A \in SUBSET S /\ IsFiniteSet(A) /\ Lacks(A)
  BY DEF T, FiniteSubsetsOf
<1>7. PICK x \in A : TRUE
  BY <1>6
<1> DEFINE B == A \ {x}
<1>8. B \in SUBSET S /\ IsFiniteSet(B) /\ B \subseteq A /\ B # A
  BY <1>6, <1>7, FS_RemoveElement
<1>9. <<B, A>> \in StrictSubsetOrdering(S)
  BY <1>6, <1>8 DEF StrictSubsetOrdering
<1>10. ~Lacks(B)
  BY <1>5, <1>8, <1>9 DEF T, FiniteSubsetsOf
<1>11. CASE B = {}
  <2>1. \A y \in A : x >= y
    BY <1>6, <1>7, <1>11
  <2> QED
    BY <1>6, <1>7, <2>1
<1>12. CASE B # {}
  <2>1. PICK m \in B : \A y \in B : m >= y
    BY <1>10, <1>12
  <2>2. m \in A /\ m \in Nat /\ x \in Nat /\ \A y \in A : y = x \/ m >= y
    BY <1>6, <1>7, <2>1
  <2>3. (\A y \in A : m >= y) \/ (\A y \in A : x >= y)
    BY <1>6, <2>2
  <2> QED
    BY <1>6, <1>7, <2>2, <2>3
<1> QED
  BY <1>11, <1>12

(* Max of FiniteSetsExt is one of the drives it is taken of.               *)
LEMMA LastDrive ==
    ASSUME NEW W \in SUBSET Drives, W # {}
    PROVE  Max(W) \in W
<1>1. IsFiniteSet(W) /\ W \subseteq Nat
  BY DrivesAssumption, FS_Subset
<1>2. \E x \in W : \A y \in W : x >= y
  BY <1>1, GreatestExists
<1> QED
  BY <1>2 DEF Max

(* If no more than one drive is among those that hold an image, it is the  *)
(* only one.                                                               *)
LEMMA OnlyDrive ==
    ASSUME NEW W \in SUBSET Drives, NEW d \in W, ~(Cardinality(W) > 1)
    PROVE  W = {d}
<1>1. IsFiniteSet(W)
  BY DrivesAssumption, FS_Subset
<1>2. Cardinality(W) \in Nat /\ Cardinality(W) # 0
  BY <1>1, FS_CardinalityType, FS_EmptySet
<1>3. Cardinality(W) = 1
  BY <1>2
<1> QED
  BY <1>1, <1>3, FS_Singleton

-----------------------------------------------------------------------------
(* The inductive invariant.                                                *)

(* The disks of a snapshot have a path, as those of the drives do.         *)
SnapshotTracked ==
    snapshot # NoSnapshot =>
        \A d \in Drives : snapshot.drive[d].hasDisk => snapshot.asset[d] # NoImage

(* While there is no machine no drive holds a disk.                        *)
NoneIsEmpty == status = "None" => \A d \in Drives : ~drive[d].hasDisk

(* An image without an excuse is in one drive at most, which holds what    *)
(* the machine last wrote to it.                                           *)
InStep ==
    \A i \in Images : \A d \in Drives :
        excuse[i] = "none" /\ drive[d].hasDisk /\ asset[d] = i =>
            /\ drive[d].content = written[i]
            /\ \A e \in Drives : drive[e].hasDisk /\ asset[e] = i => e = d

IInv == TypeOK /\ DiskIsTracked /\ SnapshotTracked /\ NoneIsEmpty /\ InStep /\ Durable

LEMMA NumbersTyped ==
    MaxWrites \in Nat /\ 0 \in Versions /\ Torn \in Versions /\ 0 .. MaxWrites \subseteq Versions
BY BoundsAssumption DEF Versions, Torn

(* Nothing is in the drives at the start.                                  *)
LEMMA StartsSound == Init => IInv
<1> SUFFICES ASSUME Init PROVE IInv
  OBVIOUS
<1>1. TypeOK
  BY NumbersTyped DEF Init, TypeOK, Empty, DriveType, Mount, Paths
<1>2. DiskIsTracked /\ NoneIsEmpty /\ InStep /\ Durable /\ SnapshotTracked
  BY DEF Init, DiskIsTracked, NoneIsEmpty, InStep, Durable, SnapshotTracked, Empty
<1> QED
  BY <1>1, <1>2 DEF IInv

-----------------------------------------------------------------------------
(* What a save does to the files and the excuses.                          *)

(* The files stay files, whichever of them are written.                    *)
LEMMA SaveToTyped ==
    ASSUME NEW D \in SUBSET Drives, NEW dr \in [Drives -> DriveType], NEW as,
           NEW out \in [Drives -> Outcomes], NEW f \in [Images -> Versions]
    PROVE  SaveTo(D, dr, as, out, f) \in [Images -> Versions]
<1> DEFINE W(i) == {d \in D : as[d] = i /\ out[d] # "notOpened"}
           value(i) == IF W(i) = {} THEN f[i]
                       ELSE IF out[Max(W(i))] = "saved" THEN dr[Max(W(i))].content ELSE Torn
<1>1. ASSUME NEW i \in Images
      PROVE  value(i) \in Versions
  <2>1. W(i) \in SUBSET Drives
    OBVIOUS
  <2>2. CASE W(i) = {}
    BY <2>2
  <2>3. CASE W(i) # {}
    <3>1. Max(W(i)) \in Drives
      BY <2>1, <2>3, LastDrive
    <3>2. dr[Max(W(i))].content \in Versions
      BY <3>1 DEF DriveType
    <3> QED
      BY <2>3, <3>2, NumbersTyped
  <2> QED
    BY <2>2, <2>3
<1>2. SaveTo(D, dr, as, out, f) = [i \in Images |-> value(i)]
  BY DEF SaveTo
<1> QED
  BY <1>1, <1>2

(* A file that belongs to no saved drive stays as it is.                   *)
LEMMA SaveToOther ==
    ASSUME NEW D, NEW dr, NEW as, NEW out, NEW f, NEW i \in Images,
           \A d \in D : as[d] # i
    PROVE  SaveTo(D, dr, as, out, f)[i] = f[i]
<1>1. {d \in D : as[d] = i /\ out[d] # "notOpened"} = {}
  OBVIOUS
<1> QED
  BY <1>1 DEF SaveTo

(* The file of one drive alone holds what that drive held.                 *)
LEMMA SaveToSole ==
    ASSUME NEW D \in SUBSET Drives, NEW dr, NEW as, NEW out, NEW f, NEW i \in Images,
           NEW d \in D, as[d] = i, out[d] = "saved", \A e \in D : as[e] = i => e = d
    PROVE  SaveTo(D, dr, as, out, f)[i] = dr[d].content
<1>1. {e \in D : as[e] = i /\ out[e] # "notOpened"} = {d}
  OBVIOUS
<1>2. Max({d}) = d
  BY LastDrive
<1> QED
  BY <1>1, <1>2 DEF SaveTo

(* Only a save that succeeds leaves an image without an excuse.            *)
LEMMA ExcuseOfNone ==
    ASSUME NEW D, NEW as, NEW out, NEW e, NEW i \in Images,
           ExcuseOf(D, as, out, e)[i] = "none"
    PROVE  e[i] = "none" /\ \A d \in D : as[d] = i => out[d] = "saved"
BY DEF ExcuseOf

Excuses == {"none", "failed", "shared", "halted"}

LEMMA ExcuseOfTyped ==
    ASSUME NEW D, NEW as, NEW out, NEW e \in [Images -> Excuses]
    PROVE  ExcuseOf(D, as, out, e) \in [Images -> Excuses]
BY DEF ExcuseOf, Excuses

LEMMA FreshExcuseTyped ==
    ASSUME NEW D, NEW dr, NEW as, NEW e \in [Images -> Excuses]
    PROVE  FreshExcuse(D, dr, as, e) \in [Images -> Excuses]
BY DEF FreshExcuse, Excuses

(* An image just read without an excuse is in one drive.                   *)
LEMMA FreshExcuseNone ==
    ASSUME NEW D, NEW dr, NEW as, NEW e, NEW i \in Images,
           FreshExcuse(D, dr, as, e)[i] = "none",
           NEW d \in D \intersect Drives, dr[d].hasDisk, as[d] = i
    PROVE  \A c \in Drives : dr[c].hasDisk /\ as[c] = i => c = d
<1> DEFINE in == {c \in Drives : dr[c].hasDisk /\ as[c] = i}
<1>1. in \in SUBSET Drives /\ d \in in /\ d \in D
  OBVIOUS
<1>2. ~(Cardinality(in) > 1)
  BY <1>1 DEF FreshExcuse
<1>3. in = {d}
  BY <1>1, <1>2, OnlyDrive
<1> QED
  BY <1>3

(* An image that none of the drives read has the excuse it had.            *)
LEMMA FreshExcuseOther ==
    ASSUME NEW D, NEW dr, NEW as, NEW e, NEW i \in Images,
           \A d \in D \intersect Drives : ~(dr[d].hasDisk /\ as[d] = i)
    PROVE  FreshExcuse(D, dr, as, e)[i] = e[i]
BY DEF FreshExcuse

(* When every drive with a disk of an image is saved, and the image has no *)
(* excuse after that, its file holds what the machine last wrote to it.    *)
LEMMA Saves ==
    ASSUME InStep, Durable, NEW D \in SUBSET Drives, \A d \in D : drive[d].hasDisk,
           NEW out, NEW i \in Images,
           ExcuseOf(D, asset, out, excuse)[i] = "none",
           \A d \in Drives : drive[d].hasDisk /\ asset[d] = i => d \in D
    PROVE  excuse[i] = "none" /\ SaveTo(D, drive, asset, out, file)[i] = written[i]
<1>1. excuse[i] = "none" /\ \A d \in D : asset[d] = i => out[d] = "saved"
  BY ExcuseOfNone
<1>2. CASE \A d \in D : asset[d] # i
  <2>1. ~InADrive(i)
    BY <1>2 DEF InADrive
  <2>2. file[i] = written[i]
    BY <1>1, <2>1 DEF Durable
  <2>3. SaveTo(D, drive, asset, out, file)[i] = file[i]
    BY <1>2, SaveToOther
  <2> QED
    BY <1>1, <2>2, <2>3
<1>3. CASE \E d \in D : asset[d] = i
  <2>1. PICK d \in D : asset[d] = i
    BY <1>3
  <2>2. drive[d].content = written[i] /\ \A e \in D : asset[e] = i => e = d
    BY <1>1, <2>1 DEF InStep
  <2>3. SaveTo(D, drive, asset, out, file)[i] = drive[d].content
    BY <1>1, <2>1, <2>2, SaveToSole
  <2> QED
    BY <1>1, <2>2, <2>3
<1> QED
  BY <1>2, <1>3

(* The drives a machine that is running has disks in are those it ejects.  *)
LEMMA AllEject == ASSUME DiskIsTracked PROVE CanEject = {d \in Drives : drive[d].hasDisk}
BY DEF DiskIsTracked, CanEject, IsMounted

-----------------------------------------------------------------------------
(* Every step keeps the types.                                             *)

LEMMA EmptyTyped == Empty \in DriveType /\ Empty.hasDisk = FALSE
BY NumbersTyped DEF Empty, DriveType

LEMMA InsertNibblesTyped ==
    ASSUME NEW r \in DriveType, NEW v \in Versions
    PROVE  /\ InsertNibbles(r, v) \in DriveType
           /\ InsertNibbles(r, v).hasDisk /\ InsertNibbles(r, v).content = v
BY DEF InsertNibbles, DriveType

LEMMA EjectNibblesTyped ==
    ASSUME NEW r \in DriveType, NEW d
    PROVE  EjectNibbles(r, d) \in DriveType /\ ~EjectNibbles(r, d).hasDisk
BY NumbersTyped DEF EjectNibbles, DriveType

LEMMA ReportsTyped ==
    /\ \A p \in Paths : Mount(p) \in [assetPath : Paths, isEjecting : BOOLEAN]
    /\ \A r \in [assetPath : Paths, isEjecting : BOOLEAN] :
          MountFailed(r) \in [assetPath : Paths, isEjecting : BOOLEAN]
    /\ NoImage \in Paths /\ Images \subseteq Paths
    /\ Empty \in DriveType
BY NumbersTyped DEF Mount, MountFailed, Paths, Empty, DriveType

LEMMA ConfigTyped ==
    ASSUME NEW r \in [Drives -> [assetPath : Paths, isEjecting : BOOLEAN]]
    PROVE  SavedConfig(r) \in [Drives -> Paths]
BY DEF SavedConfig

(* What the drives hold, under which paths, when the images in R are read. *)
Holding(R) == [d \in Drives |-> IF d \in R THEN InsertNibbles(Empty, file[config[d]]) ELSE Empty]
Named(R) == [d \in Drives |-> IF d \in R THEN config[d] ELSE NoImage]

LEMMA PowersOn ==
    ASSUME PowerOn
    PROVE  \E R \in SUBSET {d \in Drives : config[d] # NoImage} :
              /\ drive' = Holding(R)
              /\ asset' = Named(R)
              /\ report' = [d \in Drives |->
                               IF d \notin R /\ config[d] # NoImage
                               THEN MountFailed(report[d]) ELSE Mount(Named(R)[d])]
              /\ config' = SavedConfig(report')
              /\ written' = [i \in Images |->
                                IF \E d \in R : config[d] = i THEN file[i] ELSE written[i]]
              /\ excuse' = FreshExcuse(R, Holding(R), Named(R), excuse)
BY Zenon DEF PowerOn, Holding, Named

LEMMA HoldingTyped ==
    ASSUME TypeOK, NEW R \in SUBSET {d \in Drives : config[d] # NoImage}
    PROVE  /\ Holding(R) \in [Drives -> DriveType]
           /\ Named(R) \in [Drives -> Paths]
           /\ \A d \in Drives : Holding(R)[d].hasDisk <=> d \in R
           /\ \A d \in R : /\ config[d] \in Images /\ Named(R)[d] = config[d]
                          /\ Holding(R)[d].content = file[config[d]]
           /\ \A d \in Drives \ R : Named(R)[d] = NoImage
<1>1. \A d \in R : d \in Drives /\ config[d] \in Images
  BY DEF TypeOK, Paths
<1>2. \A d \in R : file[config[d]] \in Versions
  BY <1>1 DEF TypeOK
<1>3. Named(R) \in [Drives -> Paths]
  BY <1>1, ReportsTyped DEF Named
<1>4. ASSUME NEW d \in R
      PROVE  /\ Holding(R)[d] \in DriveType
             /\ Holding(R)[d].hasDisk /\ Holding(R)[d].content = file[config[d]]
             /\ Named(R)[d] = config[d]
  BY <1>1, <1>2, EmptyTyped, InsertNibblesTyped DEF Holding, Named
<1>5. ASSUME NEW d \in Drives \ R
      PROVE  /\ Holding(R)[d] \in DriveType
             /\ ~Holding(R)[d].hasDisk
             /\ Named(R)[d] = NoImage
  BY EmptyTyped DEF Holding, Named
<1>6. \A d \in Drives : Holding(R)[d] \in DriveType
  BY <1>4, <1>5
<1>7. Holding(R) = [d \in Drives |-> Holding(R)[d]]
  BY DEF Holding
<1>8. Holding(R) \in [Drives -> DriveType]
  BY <1>6, <1>7
<1> QED
  BY <1>1, <1>3, <1>4, <1>5, <1>8

LEMMA TypePowerOn == ASSUME TypeOK, PowerOn PROVE TypeOK'
<1>1. PICK R \in SUBSET {d \in Drives : config[d] # NoImage} :
         /\ drive' = Holding(R)
         /\ asset' = Named(R)
         /\ report' = [d \in Drives |->
                          IF d \notin R /\ config[d] # NoImage
                          THEN MountFailed(report[d]) ELSE Mount(Named(R)[d])]
         /\ config' = SavedConfig(report')
         /\ written' = [i \in Images |->
                           IF \E d \in R : config[d] = i THEN file[i] ELSE written[i]]
         /\ excuse' = FreshExcuse(R, Holding(R), Named(R), excuse)
  BY PowersOn
<1>2. drive' \in [Drives -> DriveType] /\ asset' \in [Drives -> Paths]
  BY <1>1, HoldingTyped
<1>3. report' \in [Drives -> [assetPath : Paths, isEjecting : BOOLEAN]]
  BY <1>1, <1>2, ReportsTyped DEF TypeOK
<1>4. config' \in [Drives -> Paths]
  BY <1>1, <1>3, ConfigTyped
<1>5. written' \in [Images -> Versions]
  BY <1>1 DEF TypeOK
<1>6. excuse' \in [Images -> Excuses]
  BY <1>1, FreshExcuseTyped DEF TypeOK, Excuses
<1>7. status' = "Ready" /\ UNCHANGED <<file, snapshot, writes>>
  BY Zenon DEF PowerOn
<1> QED
  BY <1>2, <1>3, <1>4, <1>5, <1>6, <1>7 DEF TypeOK, Excuses

LEMMA TypePowerOff == ASSUME TypeOK, PowerOff PROVE TypeOK'
<1>1. PICK out \in [Drives -> Outcomes] :
          LET D == IF Ok THEN CanEject ELSE {}
          IN /\ file' = SaveTo(D, drive, asset, out, file)
             /\ excuse' = [i \in Images |->
                              IF status = "Offline" /\ excuse[i] = "none"
                                 /\ \E d \in Drives : drive[d].hasDisk /\ asset[d] = i
                              THEN "halted"
                              ELSE ExcuseOf(D, asset, out, excuse)[i]]
  BY DEF PowerOff
<1> DEFINE D == IF Ok THEN CanEject ELSE {}
<1>2. D \in SUBSET Drives
  BY DEF CanEject
<1>3. file' \in [Images -> Versions]
  <2> HIDE DEF D
  <2>1. file' = SaveTo(D, drive, asset, out, file)
    BY <1>1 DEF D
  <2> QED
    BY <1>2, <2>1, SaveToTyped DEF TypeOK
<1>4. ExcuseOf(D, asset, out, excuse) \in [Images -> Excuses]
  BY ExcuseOfTyped DEF TypeOK, Excuses
<1>5. excuse' \in [Images -> Excuses]
  BY <1>1, <1>4 DEF Excuses
<1>6. config' \in [Drives -> Paths]
  BY ConfigTyped DEF PowerOff, TypeOK
<1> QED
  BY <1>3, <1>5, <1>6, ReportsTyped DEF PowerOff, TypeOK, Excuses

LEMMA TypeLoadMachine == ASSUME TypeOK, LoadMachine PROVE TypeOK'
<1> DEFINE D == IF Ok THEN CanEject ELSE {}
           L == {d \in Drives : drive'[d].hasDisk /\ asset'[d] # NoImage}
<1>1. PICK old, new \in [Drives -> Outcomes] :
          LET left == [i \in Images |->
                          IF status = "Offline" /\ excuse[i] = "none"
                             /\ \E d \in Drives : drive[d].hasDisk /\ asset[d] = i
                          THEN "halted"
                          ELSE ExcuseOf(D, asset, old, excuse)[i]]
          IN /\ file' = SaveTo(L, drive', asset', new,
                               SaveTo(D, drive, asset, old, file))
             /\ report' = [d \in Drives |-> Mount(asset'[d])]
             /\ excuse' = ExcuseOf(L, asset', new,
                                   FreshExcuse(L, drive', asset', left))
             /\ written' = [i \in Images |->
                               LET W == {d \in L : asset'[d] = i}
                               IN IF W = {} THEN written[i] ELSE drive'[Max(W)].content]
  BY DEF LoadMachine
<1>2. snapshot \in [drive : [Drives -> DriveType], asset : [Drives -> Paths]]
  BY DEF LoadMachine, TypeOK
<1>3. drive' \in [Drives -> DriveType] /\ asset' \in [Drives -> Paths]
  BY <1>2 DEF LoadMachine
<1>4. D \in SUBSET Drives /\ L \in SUBSET Drives
  BY DEF CanEject
<1> HIDE DEF D, L
<1>5. file' \in [Images -> Versions]
  <2>1. SaveTo(D, drive, asset, old, file) \in [Images -> Versions]
    BY <1>4, SaveToTyped DEF TypeOK
  <2> QED
    BY <1>1, <1>3, <1>4, <2>1, SaveToTyped
<1>6. report' \in [Drives -> [assetPath : Paths, isEjecting : BOOLEAN]]
  BY <1>1, <1>3, ReportsTyped
<1>7. config' \in [Drives -> Paths]
  BY <1>6, ConfigTyped DEF LoadMachine
<1>8. excuse' \in [Images -> Excuses]
  <2> DEFINE left == [i \in Images |->
                          IF status = "Offline" /\ excuse[i] = "none"
                             /\ \E d \in Drives : drive[d].hasDisk /\ asset[d] = i
                          THEN "halted"
                          ELSE ExcuseOf(D, asset, old, excuse)[i]]
  <2>1. ExcuseOf(D, asset, old, excuse) \in [Images -> Excuses]
    BY ExcuseOfTyped DEF TypeOK, Excuses
  <2>2. left \in [Images -> Excuses]
    BY <2>1 DEF Excuses
  <2>3. excuse' = ExcuseOf(L, asset', new, FreshExcuse(L, drive', asset', left))
    BY <1>1
  <2> HIDE DEF left
  <2> QED
    BY <2>2, <2>3, FreshExcuseTyped, ExcuseOfTyped
<1>9. written' \in [Images -> Versions]
  <2> DEFINE W(i) == {d \in L : asset'[d] = i}
             value(i) == IF W(i) = {} THEN written[i] ELSE drive'[Max(W(i))].content
  <2>1. ASSUME NEW i \in Images
        PROVE  value(i) \in Versions
    <3>1. CASE W(i) = {}
      BY <3>1 DEF TypeOK
    <3>2. CASE W(i) # {}
      <4>1. W(i) \in SUBSET Drives
        BY <1>4
      <4>2. Max(W(i)) \in Drives
        BY <3>2, <4>1, LastDrive
      <4>3. drive'[Max(W(i))].content \in Versions
        BY <1>3, <4>2 DEF DriveType
      <4> QED
        BY <3>2, <4>3
    <3> QED
      BY <3>1, <3>2
  <2>2. written' = [i \in Images |-> value(i)]
    BY <1>1
  <2> QED
    BY <2>1, <2>2
<1> QED
  BY <1>3, <1>5, <1>6, <1>7, <1>8, <1>9 DEF LoadMachine, TypeOK, Excuses

LEMMA FlagsTyped ==
    ASSUME NEW r \in DriveType
    PROVE  \A s \in {Ejecting(r), TimedOut(r), [r EXCEPT !.ejected = FALSE]} :
              s \in DriveType /\ s.hasDisk = r.hasDisk /\ s.content = r.content
<1>1. /\ Ejecting(r) \in DriveType
      /\ Ejecting(r).hasDisk = r.hasDisk /\ Ejecting(r).content = r.content
  BY DEF Ejecting, DriveType
<1>2. /\ TimedOut(r) \in DriveType
      /\ TimedOut(r).hasDisk = r.hasDisk /\ TimedOut(r).content = r.content
  BY DEF TimedOut, DriveType
<1>3. [r EXCEPT !.ejected = FALSE] \in [hasDisk : BOOLEAN, content : Versions, ejecting : BOOLEAN,
                                       ejected : BOOLEAN, timer : BOOLEAN]
  BY DEF DriveType
<1>4. /\ [r EXCEPT !.ejected = FALSE].hasDisk = r.hasDisk
      /\ [r EXCEPT !.ejected = FALSE].content = r.content
  BY DEF DriveType
<1> QED
  BY <1>1, <1>2, <1>3, <1>4 DEF DriveType

(* What the guest does to the flags of a drive leaves the disk alone.      *)
LEMMA FlagSteps ==
    ASSUME TypeOK, NEW d \in Drives, StartEject(d) \/ EjectTimer(d) \/ EjectedReset(d)
    PROVE  /\ drive' \in [Drives -> DriveType]
           /\ \A e \in Drives : /\ drive'[e].hasDisk = drive[e].hasDisk
                              /\ drive'[e].content = drive[e].content
           /\ UNCHANGED <<status, asset, report, file, config, snapshot, writes,
                          written, excuse>>
           /\ Ok
<1>1. drive[d] \in DriveType
  BY DEF TypeOK
<1>2. PICK r \in DriveType : /\ drive' = [drive EXCEPT ![d] = r]
                            /\ r.hasDisk = drive[d].hasDisk /\ r.content = drive[d].content
  <2>1. CASE StartEject(d)
    BY <1>1, <2>1, FlagsTyped DEF StartEject
  <2>2. CASE EjectTimer(d)
    BY <1>1, <2>2, FlagsTyped DEF EjectTimer
  <2>3. CASE EjectedReset(d)
    <3>1. drive' = [drive EXCEPT ![d] = [@ EXCEPT !.ejected = FALSE]]
      BY <2>3 DEF EjectedReset
    <3> QED
      BY <1>1, <3>1, FlagsTyped
  <2> QED
    BY <2>1, <2>2, <2>3
<1>3. UNCHANGED <<status, asset, report, file, config, snapshot, writes, written, excuse>> /\ Ok
  BY DEF StartEject, EjectTimer, EjectedReset, history
<1> QED
  BY <1>2, <1>3 DEF TypeOK

(* The poll gives a drive a report of its own, or none, and none only when *)
(* there is no disk in it.                                                 *)
LEMMA UpdateTyped ==
    ASSUME TypeOK, Update
    PROVE  /\ report' \in [Drives -> [assetPath : Paths, isEjecting : BOOLEAN]]
           /\ \A d \in Drives : drive[d].hasDisk => report'[d].assetPath = report[d].assetPath
<1> DEFINE polled == {d \in Drives35 : IsMounted(d)}
           busy(d) == d \in polled /\ EjectStatus(d) = "InProgress"
           polling(d) == [report[d] EXCEPT !.isEjecting = busy(d)]
<1>1. ASSUME NEW d \in Drives
      PROVE  /\ polling(d) \in [assetPath : Paths, isEjecting : BOOLEAN]
             /\ polling(d).assetPath = report[d].assetPath
  <2>1. report[d] \in [assetPath : Paths, isEjecting : BOOLEAN] /\ busy(d) \in BOOLEAN
    BY DEF TypeOK
  <2> HIDE DEF busy
  <2> QED
    BY <2>1
<1>2. report' = report \/ report' = [d \in Drives |->
                     IF d \in polled /\ ~drive[d].hasDisk THEN Mount(NoImage)
                     ELSE polling(d)]
  BY DEF Update
<1> HIDE DEF polling, busy, polled
<1>3. Mount(NoImage) \in [assetPath : Paths, isEjecting : BOOLEAN]
  BY ReportsTyped
<1>4. report' \in [Drives -> [assetPath : Paths, isEjecting : BOOLEAN]]
  BY <1>1, <1>2, <1>3 DEF TypeOK
<1>5. \A d \in Drives : drive[d].hasDisk => report'[d].assetPath = report[d].assetPath
  BY <1>1, <1>2
<1> QED
  BY <1>4, <1>5

(* What one drive does, and the steps of the machine that move no image.   *)
LEMMA TypeSmallSteps ==
    ASSUME TypeOK,
           \/ Relaunch \/ Step \/ SaveMachine \/ Update
           \/ \E d \in Drives : \/ GuestWrite(d) \/ StartEject(d) \/ EjectTimer(d)
                               \/ EjectedReset(d)
    PROVE  TypeOK'
<1>1. CASE Relaunch
  BY <1>1, ReportsTyped DEF Relaunch, TypeOK
<1>2. CASE Step
  BY <1>2 DEF Step, TypeOK, history
<1>3. CASE SaveMachine
  BY <1>3 DEF SaveMachine, TypeOK, history
<1>4. CASE Update
  <2>1. report' \in [Drives -> [assetPath : Paths, isEjecting : BOOLEAN]]
    BY <1>4, UpdateTyped
  <2>2. status' \in {status, "Aborted"}
    BY <1>4 DEF Update
  <2> QED
    BY <1>4, <2>1, <2>2 DEF Update, TypeOK, history
<1>5. CASE \E d \in Drives : GuestWrite(d)
  <2>1. PICK d \in Drives : GuestWrite(d)
    BY <1>5
  <2>2. writes' \in 0 .. MaxWrites /\ writes' \in Versions
    BY <2>1, NumbersTyped DEF GuestWrite, TypeOK
  <2>3. drive' \in [Drives -> DriveType] /\ written' \in [Images -> Versions]
    <3>1. /\ drive' = [drive EXCEPT ![d].content = writes']
          /\ written' = [i \in Images |-> IF asset[d] = i THEN writes' ELSE written[i]]
      BY <2>1 DEF GuestWrite
    <3>2. drive \in [Drives -> DriveType] /\ written \in [Images -> Versions]
      BY DEF TypeOK
    <3>3. [drive[d] EXCEPT !.content = writes'] \in DriveType
      BY <2>2, <3>2 DEF DriveType
    <3>4. drive' \in [Drives -> DriveType]
      BY <3>1, <3>2, <3>3
    <3>5. written' \in [Images -> Versions]
      BY <2>2, <3>1, <3>2
    <3> QED
      BY <3>4, <3>5
  <2>4. UNCHANGED <<status, asset, report, file, config, snapshot, excuse>>
    BY <2>1 DEF GuestWrite
  <2> QED
    BY <2>2, <2>3, <2>4 DEF TypeOK
<1>6. CASE \E d \in Drives : StartEject(d) \/ EjectTimer(d) \/ EjectedReset(d)
  <2>1. PICK d \in Drives : StartEject(d) \/ EjectTimer(d) \/ EjectedReset(d)
    BY <1>6
  <2>2. drive' \in [Drives -> DriveType]
    BY <2>1, FlagSteps
  <2>3. UNCHANGED <<status, asset, report, file, config, snapshot, writes, written, excuse>>
    BY <2>1, FlagSteps
  <2> QED
    BY <2>2, <2>3 DEF TypeOK
<1> QED
  BY <1>1, <1>2, <1>3, <1>4, <1>5, <1>6

LEMMA TypeEjectDisk == ASSUME TypeOK, NEW d \in Drives, EjectDisk(d) PROVE TypeOK'
<1>1. CASE d \in CanEject
  <2>1. PICK o \in Outcomes :
            LET out == [e \in Drives |-> o]
            IN /\ file' = SaveTo({d}, drive, asset, out, file)
               /\ excuse' = ExcuseOf({d}, asset, out, excuse)
    BY <1>1 DEF EjectDisk
  <2>2. file' \in [Images -> Versions]
    BY <2>1, SaveToTyped DEF TypeOK
  <2>3. excuse' \in [Images -> Excuses]
    BY <2>1, ExcuseOfTyped DEF TypeOK, Excuses
  <2>4. drive' \in [Drives -> DriveType]
    BY <1>1, EjectNibblesTyped DEF EjectDisk, TypeOK
  <2>5. report' \in [Drives -> [assetPath : Paths, isEjecting : BOOLEAN]]
    BY <1>1, ReportsTyped DEF EjectDisk, TypeOK
  <2>6. config' \in [Drives -> Paths]
    BY <2>5, ConfigTyped DEF EjectDisk
  <2> QED
    BY <2>2, <2>3, <2>4, <2>5, <2>6 DEF EjectDisk, TypeOK, Excuses
<1>2. CASE d \notin CanEject
  <2>1. UNCHANGED <<file, excuse, drive, report>>
    BY <1>2 DEF EjectDisk
  <2>2. config' \in [Drives -> Paths]
    BY <2>1, ConfigTyped DEF EjectDisk, TypeOK
  <2> QED
    BY <2>1, <2>2 DEF EjectDisk, TypeOK
<1> QED
  BY <1>1, <1>2

(* What insertDisk finds once it has ejected what was in the drive.        *)
Leaving(d) == CanEject \intersect {d}
Old(d) == IF Leaving(d) = {} THEN drive[d] ELSE EjectNibbles(drive[d], d)
Blank(d) == IF Leaving(d) = {} THEN report[d] ELSE Mount(NoImage)
Saved(d, o) == SaveTo(Leaving(d), drive, asset, [e \in Drives |-> o], file)
Left(d, o) == ExcuseOf(Leaving(d), asset, [e \in Drives |-> o], excuse)

(* A drive whose disk is tracked is empty by then.                         *)
LEMMA OldIsEmpty ==
    ASSUME TypeOK, DiskIsTracked, NEW d \in Drives
    PROVE  /\ Old(d) \in DriveType /\ ~Old(d).hasDisk
           /\ Blank(d) \in [assetPath : Paths, isEjecting : BOOLEAN]
<1>1. drive[d] \in DriveType /\ report[d] \in [assetPath : Paths, isEjecting : BOOLEAN]
  BY DEF TypeOK
<1>2. Blank(d) \in [assetPath : Paths, isEjecting : BOOLEAN]
  BY <1>1, ReportsTyped DEF Blank
<1>3. CASE Leaving(d) = {}
  <2>1. ~drive[d].hasDisk
    BY <1>3, AllEject DEF Leaving
  <2> QED
    BY <1>1, <1>2, <1>3, <2>1 DEF Old
<1>4. CASE Leaving(d) # {}
  BY <1>1, <1>2, <1>4, EjectNibblesTyped DEF Old
<1> QED
  BY <1>3, <1>4

(* insertDisk ends in one of three ways: there was no file, it was no      *)
(* image, or it is in the drive.                                           *)
InsertFails(d, o) ==
    /\ drive' = [drive EXCEPT ![d] = Old(d)]
    /\ report' = [report EXCEPT ![d] = MountFailed(Blank(d))]
    /\ excuse' = Left(d, o)
    /\ UNCHANGED <<asset, written, config>>

InsertRefused(d, o) ==
    /\ drive' = [drive EXCEPT ![d] = EjectNibbles(Old(d), d)]
    /\ asset' = [asset EXCEPT ![d] = NoImage]
    /\ report' = [report EXCEPT ![d] = MountFailed(Blank(d))]
    /\ excuse' = Left(d, o)
    /\ UNCHANGED <<written, config>>

InsertSucceeds(d, i, o) ==
    /\ drive' = [drive EXCEPT ![d] = InsertNibbles(Old(d), Saved(d, o)[i])]
    /\ asset' = [asset EXCEPT ![d] = i]
    /\ report' = [report EXCEPT ![d] = Mount(i)]
    /\ written' = [written EXCEPT ![i] = Saved(d, o)[i]]
    /\ excuse' = FreshExcuse({d}, drive', asset', Left(d, o))
    /\ config' = SavedConfig(report')

LEMMA Inserts ==
    ASSUME TypeOK, DiskIsTracked, NEW d \in Drives, NEW i \in Images, InsertDisk(d, i)
    PROVE  \E o \in Outcomes :
              /\ file' = Saved(d, o)
              /\ InsertFails(d, o) \/ InsertRefused(d, o) \/ InsertSucceeds(d, i, o)
<1>1. PICK o \in Outcomes, read \in {"ok", "noFile", "badImage"} :
          LET D == CanEject \intersect {d}
              out == [e \in Drives |-> o]
              saved == SaveTo(D, drive, asset, out, file)
              old == IF D = {} THEN drive[d] ELSE EjectNibbles(drive[d], d)
              blank == IF D = {} THEN report[d] ELSE Mount(NoImage)
              left == ExcuseOf(D, asset, out, excuse)
          IN /\ file' = saved
             /\ CASE read = "noFile" ->
                       /\ drive' = [drive EXCEPT ![d] = old]
                       /\ report' = [report EXCEPT ![d] = MountFailed(blank)]
                       /\ excuse' = left
                       /\ UNCHANGED <<asset, written, config>>
                  [] read # "noFile" /\ old.hasDisk ->
                       /\ drive' = [drive EXCEPT ![d] = old]
                       /\ report' = [report EXCEPT ![d] = blank]
                       /\ excuse' = left
                       /\ UNCHANGED <<asset, written, config>>
                  [] read = "badImage" /\ ~old.hasDisk ->
                       /\ drive' = [drive EXCEPT ![d] = EjectNibbles(old, d)]
                       /\ asset' = [asset EXCEPT ![d] = NoImage]
                       /\ report' = [report EXCEPT ![d] = MountFailed(blank)]
                       /\ excuse' = left
                       /\ UNCHANGED <<written, config>>
                  [] read = "ok" /\ ~old.hasDisk ->
                       /\ drive' = [drive EXCEPT ![d] = InsertNibbles(old, saved[i])]
                       /\ asset' = [asset EXCEPT ![d] = i]
                       /\ report' = [report EXCEPT ![d] = Mount(i)]
                       /\ written' = [written EXCEPT ![i] = saved[i]]
                       /\ excuse' = FreshExcuse({d}, drive', asset', left)
                       /\ config' = SavedConfig(report')
  BY Zenon DEF InsertDisk
<1>2. /\ file' = Saved(d, o)
      /\ CASE read = "noFile" -> InsertFails(d, o)
           [] read # "noFile" /\ Old(d).hasDisk ->
                       /\ drive' = [drive EXCEPT ![d] = Old(d)]
                       /\ report' = [report EXCEPT ![d] = Blank(d)]
                       /\ excuse' = Left(d, o)
                       /\ UNCHANGED <<asset, written, config>>
           [] read = "badImage" /\ ~Old(d).hasDisk -> InsertRefused(d, o)
           [] read = "ok" /\ ~Old(d).hasDisk -> InsertSucceeds(d, i, o)
  BY <1>1, Zenon
     DEF Leaving, Old, Blank, Saved, Left, InsertFails, InsertRefused, InsertSucceeds
<1>3. ~Old(d).hasDisk
  BY OldIsEmpty
<1>4. CASE read = "noFile"
  BY <1>2, <1>4
<1>5. CASE read = "badImage"
  BY <1>2, <1>3, <1>5
<1>6. CASE read = "ok"
  BY <1>2, <1>3, <1>6
<1> QED
  BY <1>4, <1>5, <1>6

LEMMA TypeInsertDisk ==
    ASSUME TypeOK, DiskIsTracked, NEW d \in Drives, NEW i \in Images, InsertDisk(d, i)
    PROVE  TypeOK'
<1>1. PICK o \in Outcomes :
         /\ file' = Saved(d, o)
         /\ InsertFails(d, o) \/ InsertRefused(d, o) \/ InsertSucceeds(d, i, o)
  BY Inserts
<1>2. /\ Old(d) \in DriveType
      /\ Blank(d) \in [assetPath : Paths, isEjecting : BOOLEAN]
  BY OldIsEmpty
<1>3. Saved(d, o) \in [Images -> Versions]
  BY SaveToTyped DEF Saved, Leaving, CanEject, TypeOK
<1>4. Left(d, o) \in [Images -> Excuses]
  BY ExcuseOfTyped DEF Left, TypeOK, Excuses
<1>5. UNCHANGED <<status, snapshot, writes>>
  BY Zenon DEF InsertDisk
<1>6. CASE InsertFails(d, o)
  <2>1. /\ drive' \in [Drives -> DriveType]
        /\ report' \in [Drives -> [assetPath : Paths, isEjecting : BOOLEAN]]
    BY <1>2, <1>6, ReportsTyped DEF InsertFails, TypeOK
  <2> QED
    BY <1>1, <1>3, <1>4, <1>5, <1>6, <2>1 DEF InsertFails, TypeOK, Excuses
<1>7. CASE InsertRefused(d, o)
  <2>1. /\ drive' \in [Drives -> DriveType] /\ asset' \in [Drives -> Paths]
        /\ report' \in [Drives -> [assetPath : Paths, isEjecting : BOOLEAN]]
    BY <1>2, <1>7, ReportsTyped, EjectNibblesTyped DEF InsertRefused, TypeOK
  <2> QED
    BY <1>1, <1>3, <1>4, <1>5, <1>7, <2>1 DEF InsertRefused, TypeOK, Excuses
<1>8. CASE InsertSucceeds(d, i, o)
  <2>1. InsertNibbles(Old(d), Saved(d, o)[i]) \in DriveType
    BY <1>2, <1>3, InsertNibblesTyped
  <2>2. /\ drive' \in [Drives -> DriveType] /\ asset' \in [Drives -> Paths]
        /\ report' \in [Drives -> [assetPath : Paths, isEjecting : BOOLEAN]]
    BY <1>8, <2>1, ReportsTyped DEF InsertSucceeds, TypeOK
  <2>3. written' \in [Images -> Versions]
    BY <1>3, <1>8 DEF InsertSucceeds, TypeOK
  <2>4. excuse' \in [Images -> Excuses]
    BY <1>4, <1>8, FreshExcuseTyped DEF InsertSucceeds
  <2>5. config' \in [Drives -> Paths]
    BY <1>8, <2>2, ConfigTyped DEF InsertSucceeds
  <2> QED
    BY <1>1, <1>3, <1>5, <2>2, <2>3, <2>4, <2>5 DEF TypeOK, Excuses
<1> QED
  BY <1>1, <1>6, <1>7, <1>8

(* No step of the machine, the guest or the user forgets a type.           *)
LEMMA TypeStep == ASSUME TypeOK, DiskIsTracked, [Next]_vars PROVE TypeOK'
<1>1. CASE UNCHANGED vars
  BY <1>1 DEF vars, TypeOK
<1>2. CASE \E d \in Drives : \E i \in Images : InsertDisk(d, i)
  BY <1>2, TypeInsertDisk
<1>3. CASE \E d \in Drives : EjectDisk(d)
  BY <1>3, TypeEjectDisk
<1>4. CASE PowerOn
  BY <1>4, TypePowerOn
<1>5. CASE PowerOff
  BY <1>5, TypePowerOff
<1>6. CASE LoadMachine
  BY <1>6, TypeLoadMachine
<1>7. CASE \/ Relaunch \/ Step \/ SaveMachine \/ Update
           \/ \E d \in Drives : \/ GuestWrite(d) \/ StartEject(d) \/ EjectTimer(d)
                               \/ EjectedReset(d)
  BY <1>7, TypeSmallSteps
<1> QED
  BY <1>1, <1>2, <1>3, <1>4, <1>5, <1>6, <1>7 DEF Next

-----------------------------------------------------------------------------
(* Every step keeps the disks tracked and the images in step.              *)

(* The drives a machine that ends, or is replaced, ejects...               *)
Leavers == IF Ok THEN CanEject ELSE {}

(* ...and the excuses that remain: a machine that is Offline ejects none.  *)
Abandoned(out) ==
    [i \in Images |->
        IF status = "Offline" /\ excuse[i] = "none"
           /\ \E d \in Drives : drive[d].hasDisk /\ asset[d] = i
        THEN "halted"
        ELSE ExcuseOf(Leavers, asset, out, excuse)[i]]

LEMMA Unmounts ==
    ASSUME InStep, Durable, DiskIsTracked, Alive, NEW out, NEW i \in Images,
           Abandoned(out)[i] = "none"
    PROVE  SaveTo(Leavers, drive, asset, out, file)[i] = written[i]
<1>1. ExcuseOf(Leavers, asset, out, excuse)[i] = "none"
  BY DEF Abandoned
<1>2. Leavers \in SUBSET Drives /\ \A d \in Leavers : drive[d].hasDisk
  BY DEF Leavers, CanEject
<1>3. CASE Ok
  <2>1. Leavers = {d \in Drives : drive[d].hasDisk}
    BY <1>3, AllEject DEF Leavers
  <2> QED
    BY <1>1, <1>2, <2>1, Saves
<1>4. CASE ~Ok
  <2>1. status = "Offline" /\ Leavers = {}
    BY <1>4 DEF Alive, Ok, Leavers
  <2>2. excuse[i] = "none"
    BY <1>1, ExcuseOfNone
  <2>3. ~InADrive(i)
    BY <2>1, <2>2 DEF Abandoned, InADrive
  <2>4. file[i] = written[i]
    BY <2>2, <2>3 DEF Durable
  <2> QED
    BY <2>1, <2>4, SaveToOther
<1> QED
  BY <1>3, <1>4

LEMMA KeepsPowerOn == ASSUME IInv, PowerOn, TypeOK' PROVE IInv'
<1>1. PICK R \in SUBSET {d \in Drives : config[d] # NoImage} :
         /\ drive' = Holding(R)
         /\ asset' = Named(R)
         /\ report' = [d \in Drives |->
                          IF d \notin R /\ config[d] # NoImage
                          THEN MountFailed(report[d]) ELSE Mount(Named(R)[d])]
         /\ config' = SavedConfig(report')
         /\ written' = [i \in Images |->
                           IF \E d \in R : config[d] = i THEN file[i] ELSE written[i]]
         /\ excuse' = FreshExcuse(R, Holding(R), Named(R), excuse)
  BY PowersOn
<1>2. status = "None" /\ status' = "Ready" /\ UNCHANGED <<file, snapshot>>
  BY Zenon DEF PowerOn
<1>3. /\ \A d \in Drives : drive'[d].hasDisk <=> d \in R
      /\ \A d \in R : /\ config[d] \in Images /\ asset'[d] = config[d]
                     /\ drive'[d].content = file[config[d]]
  BY <1>1, HoldingTyped DEF IInv
<1>4. DiskIsTracked'
  <2>1. \A d \in R : report'[d].assetPath = asset'[d] /\ asset'[d] # NoImage
    BY <1>1, <1>3 DEF Mount
  <2> QED
    BY <1>3, <2>1 DEF DiskIsTracked
<1>5. SnapshotTracked' /\ NoneIsEmpty'
  BY <1>2 DEF IInv, SnapshotTracked, NoneIsEmpty
<1>6. InStep'
  <2> SUFFICES ASSUME NEW i \in Images, NEW d \in Drives,
                      excuse'[i] = "none", drive'[d].hasDisk, asset'[d] = i
               PROVE  /\ drive'[d].content = written'[i]
                      /\ \A e \in Drives : drive'[e].hasDisk /\ asset'[e] = i => e = d
    BY DEF InStep
  <2>1. d \in R /\ config[d] = i
    BY <1>3
  <2>2. drive'[d].content = written'[i]
    BY <1>1, <1>3, <2>1
  <2>3. excuse' = FreshExcuse(R, drive', asset', excuse)
    BY <1>1
  <2>4. \A e \in Drives : drive'[e].hasDisk /\ asset'[e] = i => e = d
    BY <2>1, <2>3, FreshExcuseNone
  <2> QED
    BY <2>2, <2>4
<1>7. Durable'
  <2> SUFFICES ASSUME NEW i \in Images, ~InADrive(i)', excuse'[i] = "none"
               PROVE  file'[i] = written'[i]
    BY DEF Durable
  <2>1. \A d \in Drives : ~(drive'[d].hasDisk /\ asset'[d] = i)
    BY DEF InADrive
  <2>2. \A d \in R : config[d] # i
    BY <1>3, <2>1
  <2>3. excuse' = FreshExcuse(R, drive', asset', excuse)
    BY <1>1
  <2>4. excuse[i] = "none"
    BY <2>1, <2>3, FreshExcuseOther
  <2>5. ~InADrive(i)
    BY <1>2 DEF IInv, NoneIsEmpty, InADrive
  <2>6. file[i] = written[i]
    BY <2>4, <2>5 DEF IInv, Durable
  <2> QED
    BY <1>1, <1>2, <2>2, <2>6
<1> QED
  BY <1>4, <1>5, <1>6, <1>7 DEF IInv

LEMMA KeepsPowerOff == ASSUME IInv, PowerOff, TypeOK' PROVE IInv'
<1>1. PICK out \in [Drives -> Outcomes] :
         /\ file' = SaveTo(Leavers, drive, asset, out, file)
         /\ excuse' = Abandoned(out)
  BY DEF PowerOff, Leavers, Abandoned
<1>2. /\ \A d \in Drives : ~drive'[d].hasDisk
      /\ Alive /\ UNCHANGED <<snapshot, written>>
  BY DEF PowerOff, Empty
<1>3. DiskIsTracked' /\ SnapshotTracked' /\ NoneIsEmpty' /\ InStep'
  BY <1>2 DEF IInv, DiskIsTracked, SnapshotTracked, NoneIsEmpty, InStep
<1>4. Durable'
  BY <1>1, <1>2, Unmounts DEF IInv, Durable
<1> QED
  BY <1>3, <1>4 DEF IInv

LEMMA KeepsRelaunch == ASSUME IInv, Relaunch, TypeOK' PROVE IInv'
<1>1. /\ \A d \in Drives : ~drive'[d].hasDisk
      /\ UNCHANGED <<file, snapshot, written>>
      /\ excuse' = [i \in Images |->
                       IF excuse[i] = "none" /\ \E d \in Drives : drive[d].hasDisk /\ asset[d] = i
                       THEN "halted" ELSE excuse[i]]
  BY DEF Relaunch, Empty
<1>2. DiskIsTracked' /\ SnapshotTracked' /\ NoneIsEmpty' /\ InStep'
  BY <1>1 DEF IInv, DiskIsTracked, SnapshotTracked, NoneIsEmpty, InStep
<1>3. ASSUME NEW i \in Images, excuse'[i] = "none"
      PROVE  file'[i] = written'[i]
  <2>1. excuse[i] = "none" /\ ~InADrive(i)
    BY <1>1, <1>3 DEF InADrive
  <2> QED
    BY <1>1, <2>1 DEF IInv, Durable
<1> QED
  BY <1>2, <1>3 DEF IInv, Durable

(* The drives of a snapshot that mount() of the loaded machine saves.      *)
Loaded == {d \in Drives : drive'[d].hasDisk /\ asset'[d] # NoImage}

LEMMA KeepsLoadMachine == ASSUME IInv, LoadMachine, TypeOK' PROVE IInv'
<1>1. PICK old, new \in [Drives -> Outcomes] :
         /\ file' = SaveTo(Loaded, drive', asset', new,
                          SaveTo(Leavers, drive, asset, old, file))
         /\ report' = [d \in Drives |-> Mount(asset'[d])]
         /\ excuse' = ExcuseOf(Loaded, asset', new,
                              FreshExcuse(Loaded, drive', asset', Abandoned(old)))
         /\ written' = [i \in Images |->
                           LET W == {d \in Loaded : asset'[d] = i}
                           IN IF W = {} THEN written[i] ELSE drive'[Max(W)].content]
  BY DEF LoadMachine, Leavers, Loaded, Abandoned
<1>2. /\ Alive /\ snapshot # NoSnapshot /\ UNCHANGED snapshot /\ status' = "Ready"
      /\ drive' = snapshot.drive /\ asset' = snapshot.asset
  BY DEF LoadMachine
<1>3. \A d \in Drives : drive'[d].hasDisk => d \in Loaded /\ asset'[d] # NoImage
  BY <1>2 DEF IInv, SnapshotTracked, Loaded
<1>4. Loaded \in SUBSET Drives /\ \A d \in Loaded : drive'[d].hasDisk
  BY DEF Loaded
<1> HIDE DEF Loaded
<1>5. DiskIsTracked' /\ SnapshotTracked' /\ NoneIsEmpty'
  BY <1>1, <1>2, <1>3 DEF IInv, DiskIsTracked, SnapshotTracked, NoneIsEmpty, Mount
<1>6. ASSUME NEW i \in Images, excuse'[i] = "none"
      PROVE  /\ FreshExcuse(Loaded, drive', asset', Abandoned(old))[i] = "none"
             /\ \A d \in Loaded : asset'[d] = i => new[d] = "saved"
  BY <1>1, <1>6, ExcuseOfNone
<1>7. InStep'
  <2> SUFFICES ASSUME NEW i \in Images, NEW d \in Drives,
                      excuse'[i] = "none", drive'[d].hasDisk, asset'[d] = i
               PROVE  /\ drive'[d].content = written'[i]
                      /\ \A e \in Drives : drive'[e].hasDisk /\ asset'[e] = i => e = d
    BY DEF InStep
  <2>1. d \in Loaded
    BY <1>3
  <2>2. \A e \in Drives : drive'[e].hasDisk /\ asset'[e] = i => e = d
    BY <1>6, <2>1, FreshExcuseNone
  <2>3. {e \in Loaded : asset'[e] = i} = {d}
    BY <1>4, <2>1, <2>2
  <2>4. Max({d}) = d
    BY LastDrive
  <2>5. drive'[d].content = written'[i]
    BY <1>1, <2>3, <2>4
  <2> QED
    BY <2>2, <2>5
<1>8. Durable'
  <2> SUFFICES ASSUME NEW i \in Images, ~InADrive(i)', excuse'[i] = "none"
               PROVE  file'[i] = written'[i]
    BY DEF Durable
  <2>1. \A d \in Drives : ~(drive'[d].hasDisk /\ asset'[d] = i)
    BY DEF InADrive
  <2>2. \A d \in Loaded : asset'[d] # i
    BY <1>4, <2>1
  <2>3. Abandoned(old)[i] = "none"
    BY <1>6, <2>1, FreshExcuseOther
  <2>4. SaveTo(Leavers, drive, asset, old, file)[i] = written[i]
    BY <1>2, <2>3, Unmounts DEF IInv
  <2>5. file'[i] = SaveTo(Leavers, drive, asset, old, file)[i]
    BY <1>1, <2>2, SaveToOther
  <2>6. {d \in Loaded : asset'[d] = i} = {}
    BY <2>2
  <2>7. written'[i] = written[i]
    BY <1>1, <2>6
  <2> QED
    BY <2>4, <2>5, <2>7
<1> QED
  BY <1>5, <1>7, <1>8 DEF IInv

LEMMA KeepsSteps == ASSUME IInv, Step \/ SaveMachine \/ Update, TypeOK' PROVE IInv'
<1>1. UNCHANGED <<drive, asset, file, written, excuse>>
  BY DEF Step, SaveMachine, Update, history
<1>2. InStep' /\ Durable'
  BY <1>1 DEF IInv, InStep, Durable, InADrive
<1>3. NoneIsEmpty'
  BY <1>1 DEF IInv, NoneIsEmpty, Step, SaveMachine, Update, Ok
<1>4. CASE Step
  BY <1>1, <1>2, <1>3, <1>4 DEF IInv, Step, DiskIsTracked, SnapshotTracked
<1>5. CASE SaveMachine
  <2>1. DiskIsTracked'
    BY <1>1, <1>5 DEF IInv, SaveMachine, DiskIsTracked
  <2>2. SnapshotTracked'
    BY <1>1, <1>5 DEF IInv, SaveMachine, DiskIsTracked, SnapshotTracked
  <2> QED
    BY <1>2, <1>3, <2>1, <2>2 DEF IInv
<1>6. CASE Update
  <2>1. \A d \in Drives : drive[d].hasDisk => report'[d].assetPath = report[d].assetPath
    BY <1>6, UpdateTyped DEF IInv
  <2>2. DiskIsTracked' /\ SnapshotTracked'
    BY <1>1, <1>6, <2>1 DEF IInv, Update, DiskIsTracked, SnapshotTracked
  <2> QED
    BY <1>2, <1>3, <2>2 DEF IInv
<1> QED
  BY <1>4, <1>5, <1>6

LEMMA KeepsFlags ==
    ASSUME IInv, NEW d \in Drives, StartEject(d) \/ EjectTimer(d) \/ EjectedReset(d), TypeOK'
    PROVE  IInv'
<1>1. /\ \A e \in Drives : /\ drive'[e].hasDisk = drive[e].hasDisk
                          /\ drive'[e].content = drive[e].content
      /\ UNCHANGED <<status, asset, report, file, snapshot, written, excuse>>
      /\ Ok
  BY FlagSteps DEF IInv
<1>2. DiskIsTracked' /\ SnapshotTracked' /\ NoneIsEmpty'
  BY <1>1 DEF IInv, DiskIsTracked, SnapshotTracked, NoneIsEmpty, Ok
<1>3. InStep' /\ Durable'
  BY <1>1 DEF IInv, InStep, Durable, InADrive
<1> QED
  BY <1>2, <1>3 DEF IInv

LEMMA KeepsGuestWrite ==
    ASSUME IInv, NEW d \in Drives, GuestWrite(d), TypeOK'
    PROVE  IInv'
<1>1. /\ Ok /\ drive[d].hasDisk
      /\ drive' = [drive EXCEPT ![d].content = writes']
      /\ written' = [i \in Images |-> IF asset[d] = i THEN writes' ELSE written[i]]
      /\ UNCHANGED <<status, asset, report, file, snapshot, excuse>>
  BY DEF GuestWrite
<1>2. /\ \A e \in Drives : drive'[e].hasDisk = drive[e].hasDisk
      /\ \A e \in Drives : e # d => drive'[e].content = drive[e].content
      /\ drive'[d].content = writes'
  BY <1>1 DEF IInv, TypeOK, DriveType
<1>3. DiskIsTracked' /\ SnapshotTracked' /\ NoneIsEmpty'
  BY <1>1, <1>2 DEF IInv, DiskIsTracked, SnapshotTracked, NoneIsEmpty
<1>4. InStep'
  BY <1>1, <1>2 DEF IInv, InStep
<1>5. Durable'
  BY <1>1, <1>2 DEF IInv, Durable, InADrive
<1> QED
  BY <1>3, <1>4, <1>5 DEF IInv

LEMMA KeepsEjectDisk ==
    ASSUME IInv, NEW d \in Drives, EjectDisk(d), TypeOK'
    PROVE  IInv'
<1>1. UNCHANGED <<status, asset, snapshot, written>> /\ Alive
  BY DEF EjectDisk
<1>2. CASE d \notin CanEject
  <2>1. UNCHANGED <<file, excuse, drive, report>>
    BY <1>2 DEF EjectDisk
  <2> QED
    BY <1>1, <2>1 DEF IInv, DiskIsTracked, SnapshotTracked, NoneIsEmpty, InStep, Durable, InADrive
<1>3. CASE d \in CanEject
  <2>1. PICK o \in Outcomes :
           /\ file' = SaveTo({d}, drive, asset, [e \in Drives |-> o], file)
           /\ excuse' = ExcuseOf({d}, asset, [e \in Drives |-> o], excuse)
    BY <1>3 DEF EjectDisk
  <2>2. /\ drive' = [drive EXCEPT ![d] = EjectNibbles(drive[d], d)]
        /\ report' = [report EXCEPT ![d] = Mount(NoImage)]
    BY <1>3 DEF EjectDisk
  <2>3. ~EjectNibbles(drive[d], d).hasDisk
    BY EjectNibblesTyped DEF IInv, TypeOK
  <2>4. /\ ~drive'[d].hasDisk
        /\ \A e \in Drives \ {d} : drive'[e] = drive[e] /\ report'[e] = report[e]
    BY <2>2, <2>3 DEF IInv, TypeOK
  <2>5. DiskIsTracked' /\ SnapshotTracked' /\ NoneIsEmpty'
    BY <1>1, <2>4 DEF IInv, DiskIsTracked, SnapshotTracked, NoneIsEmpty, Alive
  <2>6. \A i \in Images : excuse'[i] = "none" => excuse[i] = "none"
    BY <2>1, ExcuseOfNone
  <2>7. InStep'
    BY <1>1, <2>4, <2>6 DEF IInv, InStep
  <2>8. Durable'
    <3> SUFFICES ASSUME NEW i \in Images, ~InADrive(i)', excuse'[i] = "none"
                 PROVE  file'[i] = written'[i]
      BY DEF Durable
    <3>1. \A e \in Drives : drive[e].hasDisk /\ asset[e] = i => e \in {d}
      BY <1>1, <2>4 DEF InADrive
    <3>2. drive[d].hasDisk
      BY <1>3 DEF CanEject
    <3> QED
      BY <1>1, <2>1, <3>1, <3>2, Saves DEF IInv
  <2> QED
    BY <2>5, <2>7, <2>8 DEF IInv
<1> QED
  BY <1>2, <1>3

LEMMA KeepsInsertDisk ==
    ASSUME IInv, NEW d \in Drives, NEW i \in Images, InsertDisk(d, i), TypeOK'
    PROVE  IInv'
<1>1. PICK o \in Outcomes :
         /\ file' = Saved(d, o)
         /\ InsertFails(d, o) \/ InsertRefused(d, o) \/ InsertSucceeds(d, i, o)
  BY Inserts DEF IInv
<1>2. /\ Old(d) \in DriveType /\ ~Old(d).hasDisk
      /\ Blank(d) \in [assetPath : Paths, isEjecting : BOOLEAN]
  BY OldIsEmpty DEF IInv
<1>3. UNCHANGED <<status, snapshot>> /\ Alive
  BY Zenon DEF InsertDisk
<1>4. SnapshotTracked' /\ NoneIsEmpty'
  BY <1>3 DEF IInv, SnapshotTracked, NoneIsEmpty, Alive
<1>5. Leaving(d) \in SUBSET Drives /\ Leaving(d) \subseteq {d}
      /\ \A e \in Leaving(d) : drive[e].hasDisk
  BY DEF Leaving, CanEject
<1>6. Saved(d, o) \in [Images -> Versions]
  BY <1>5, SaveToTyped DEF Saved, IInv, TypeOK
<1>7. \A j \in Images : Left(d, o)[j] = "none" => excuse[j] = "none"
  BY ExcuseOfNone DEF Left
(* An image only d could hold has been saved, if nothing excuses it.       *)
<1>8. ASSUME NEW j \in Images, Left(d, o)[j] = "none",
             \A e \in Drives \ {d} : ~(drive[e].hasDisk /\ asset[e] = j)
      PROVE  Saved(d, o)[j] = written[j]
  <2>1. \A e \in Drives : drive[e].hasDisk /\ asset[e] = j => e \in Leaving(d)
    BY <1>8, AllEject DEF IInv, Leaving
  <2> QED
    BY <1>5, <1>8, <2>1, Saves DEF IInv, Left, Saved
<1>9. CASE InsertFails(d, o) \/ InsertRefused(d, o)
  <2>1. /\ ~drive'[d].hasDisk
        /\ \A e \in Drives \ {d} : drive'[e] = drive[e] /\ report'[e] = report[e]
                               /\ asset'[e] = asset[e]
        /\ excuse' = Left(d, o) /\ written' = written
    BY <1>2, <1>9, EjectNibblesTyped DEF InsertFails, InsertRefused, IInv, TypeOK
  <2>2. DiskIsTracked'
    BY <2>1 DEF IInv, DiskIsTracked
  <2>3. InStep'
    BY <1>7, <2>1 DEF IInv, InStep
  <2>4. Durable'
    <3> SUFFICES ASSUME NEW j \in Images, ~InADrive(j)', excuse'[j] = "none"
                 PROVE  file'[j] = written'[j]
      BY DEF Durable
    <3>1. \A e \in Drives \ {d} : ~(drive[e].hasDisk /\ asset[e] = j)
      BY <2>1 DEF InADrive
    <3> QED
      BY <1>1, <1>8, <2>1, <3>1
  <2> QED
    BY <1>4, <2>2, <2>3, <2>4 DEF IInv
<1>10. CASE InsertSucceeds(d, i, o)
  <2>1. /\ InsertNibbles(Old(d), Saved(d, o)[i]).hasDisk
        /\ InsertNibbles(Old(d), Saved(d, o)[i]).content = Saved(d, o)[i]
    BY <1>2, <1>6, InsertNibblesTyped
  <2>2. /\ drive'[d].hasDisk /\ drive'[d].content = Saved(d, o)[i]
        /\ asset'[d] = i /\ report'[d] = Mount(i)
        /\ \A e \in Drives \ {d} : drive'[e] = drive[e] /\ report'[e] = report[e]
                               /\ asset'[e] = asset[e]
        /\ written' = [written EXCEPT ![i] = Saved(d, o)[i]]
        /\ excuse' = FreshExcuse({d}, drive', asset', Left(d, o))
    BY <1>10, <2>1 DEF InsertSucceeds, IInv, TypeOK
  <2>3. DiskIsTracked'
    BY <2>2, ImagesAssumption DEF IInv, DiskIsTracked, Mount
  <2>4. \A j \in Images \ {i} : excuse'[j] = Left(d, o)[j] /\ written'[j] = written[j]
    BY <2>2, FreshExcuseOther DEF IInv, TypeOK
  <2>5. InStep'
    <3> SUFFICES ASSUME NEW j \in Images, NEW c \in Drives,
                        excuse'[j] = "none", drive'[c].hasDisk, asset'[c] = j
                 PROVE  /\ drive'[c].content = written'[j]
                        /\ \A e \in Drives : drive'[e].hasDisk /\ asset'[e] = j => e = c
      BY DEF InStep
    <3>1. CASE j = i
      <4>1. \A e \in Drives : drive'[e].hasDisk /\ asset'[e] = i => e = d
        BY <2>2, <3>1, FreshExcuseNone
      <4>2. c = d
        BY <3>1, <4>1
      <4> QED
        BY <2>2, <3>1, <4>1, <4>2 DEF IInv, TypeOK
    <3>2. CASE j # i
      <4>1. excuse[j] = "none" /\ c # d
        BY <1>7, <2>2, <2>4, <3>2
      <4>2. drive[c].content = written[j] /\ \A e \in Drives : drive[e].hasDisk /\ asset[e] = j => e = c
        BY <2>2, <4>1 DEF IInv, InStep
      <4> QED
        BY <2>2, <2>4, <3>2, <4>1, <4>2
    <3> QED
      BY <3>1, <3>2
  <2>6. Durable'
    <3> SUFFICES ASSUME NEW j \in Images, ~InADrive(j)', excuse'[j] = "none"
                 PROVE  file'[j] = written'[j]
      BY DEF Durable
    <3>1. j # i /\ \A e \in Drives \ {d} : ~(drive[e].hasDisk /\ asset[e] = j)
      BY <2>2 DEF InADrive
    <3> QED
      BY <1>1, <1>8, <2>4, <3>1
  <2> QED
    BY <1>4, <2>3, <2>5, <2>6 DEF IInv
<1> QED
  BY <1>1, <1>9, <1>10

LEMMA IInvStep == IInv /\ [Next]_vars => IInv'
<1> SUFFICES ASSUME IInv, [Next]_vars PROVE IInv'
  OBVIOUS
<1>1. TypeOK'
  BY TypeStep DEF IInv
<1>2. CASE UNCHANGED vars
  BY <1>1, <1>2 DEF vars, IInv, DiskIsTracked, SnapshotTracked, NoneIsEmpty, InStep, Durable,
                    InADrive
<1>3. CASE PowerOn \/ PowerOff \/ Relaunch \/ LoadMachine
  BY <1>1, <1>3, KeepsPowerOn, KeepsPowerOff, KeepsRelaunch, KeepsLoadMachine
<1>4. CASE Step \/ SaveMachine \/ Update
  BY <1>1, <1>4, KeepsSteps
<1>5. ASSUME NEW d \in Drives,
             \/ GuestWrite(d) \/ StartEject(d) \/ EjectTimer(d) \/ EjectedReset(d)
             \/ EjectDisk(d)
             \/ \E i \in Images : InsertDisk(d, i)
      PROVE  IInv'
  BY <1>1, <1>5, KeepsGuestWrite, KeepsFlags, KeepsEjectDisk, KeepsInsertDisk
<1> QED
  BY <1>2, <1>3, <1>4, <1>5 DEF Next

LEMMA Invariant == Spec => []IInv
BY StartsSound, IInvStep, PTL DEF Spec

-----------------------------------------------------------------------------

(***************************************************************************)
(* Drives, files, reports and the snapshot stay what their C++ types say,  *)
(* through every sequence of commands, polls and steps of the guest.       *)
(***************************************************************************)
THEOREM TypeCorrect == Spec => []TypeOK
<1>1. IInv => TypeOK
  BY DEF IInv
<1> QED
  BY <1>1, Invariant, PTL

(***************************************************************************)
(* insertDisk, mountDisk, ejectDisk and unserialize change the drive, the  *)
(* asset and the report in different places; a disk in a drive is always   *)
(* known under the path it will be saved to, so that ejectDisk's early     *)
(* return never skips a save.                                              *)
(***************************************************************************)
THEOREM DisksAreTracked == Spec => []DiskIsTracked
<1>1. IInv => DiskIsTracked
  BY DEF IInv
<1> QED
  BY <1>1, Invariant, PTL

(***************************************************************************)
(* No write of the guest to a floppy disk is lost: an image in no drive    *)
(* holds what the machine last wrote to it, with the exceptions Durable    *)
(* names.                                                                  *)
(***************************************************************************)
THEOREM WritesAreDurable == Spec => []Durable
<1>1. IInv => Durable
  BY DEF IInv
<1> QED
  BY <1>1, Invariant, PTL
=============================================================================
