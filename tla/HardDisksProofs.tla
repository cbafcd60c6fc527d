-------------------------- MODULE HardDisksProofs --------------------------
(***************************************************************************)
(* The writes of the guest to a hard disk are not lost, and what the host  *)
(* reports of a unit is there, for every set of units and images.  A       *)
(* handler works on a situation (the unit, the files, the excuses); first  *)
(* what each part of a handler makes of a situation, then one lemma per    *)
(* action.                                                                 *)
(*                                                                         *)
(* Then the card: its firmware says of a call only what was done to the    *)
(* disks, for disks of every size and whatever is asked of it.             *)
(***************************************************************************)
EXTENDS MCHardDisks, TLAPS

Excuses == {"none", "failed", "untracked", "halted"}
Sit == [r : UnitType, f : [Images -> Versions], e : [Images -> Excuses], aborted : BOOLEAN]

LEMMA Values == /\ NoImage \in Paths /\ Images \subseteq Paths /\ NoImage \notin Images
                /\ Torn \in Versions /\ Empty \notin Versions
                /\ 0 \in Versions /\ 0 .. MaxWrites \subseteq Versions
BY ImagesAssumption, BoundsAssumption DEF Paths, Torn, Versions, Empty

LEMMA SaveEffect ==
    ASSUME NEW s \in Sit, NEW o \in Outcomes
    PROVE  LET t == SaveDisk(s, o) IN
           /\ t \in Sit
           /\ t.r = s.r
           /\ \A j \in Images \ {s.r.bound} : t.f[j] = s.f[j] /\ t.e[j] = s.e[j]
           /\ s.r.bound # NoImage /\ ~t.aborted /\ o = "saved" =>
                 t.f = [s.f EXCEPT ![s.r.bound] = s.r.data] /\ t.e = s.e
           /\ s.r.bound # NoImage /\ ~t.aborted /\ o # "saved" => t.e[s.r.bound] = "failed"
<1> DEFINE t == SaveDisk(s, o)
<1> USE Values
<1>1. CASE s.r.bound = NoImage \/ s.aborted
  BY <1>1 DEF SaveDisk, Sit
<1>2. CASE ~(s.r.bound = NoImage \/ s.aborted) /\ s.r.data = Empty
  BY <1>2 DEF SaveDisk, Sit
<1>3. CASE ~(s.r.bound = NoImage \/ s.aborted) /\ s.r.data # Empty /\ o = "saved"
  BY <1>3 DEF SaveDisk, Sit, UnitType, Paths
<1>4. CASE ~(s.r.bound = NoImage \/ s.aborted) /\ s.r.data # Empty /\ o = "notOpened"
  BY <1>4 DEF SaveDisk, Sit, UnitType, Paths, Excuses
<1>5. CASE ~(s.r.bound = NoImage \/ s.aborted) /\ s.r.data # Empty /\ o = "torn"
  BY <1>5 DEF SaveDisk, Sit, UnitType, Paths, Excuses
<1> QED
  BY <1>1, <1>2, <1>3, <1>4, <1>5 DEF Outcomes
(* The image of a disk that is trusted (no excuse) is in step with it, and *)
(* the disk is on the bus or the card and reported, so that an eject saves *)
(* it.                                                                     *)
Held(s, w) ==
    s.r.bound # NoImage /\ s.e[s.r.bound] = "none"
        => s.r.attached /\ s.r.data = w[s.r.bound] /\ s.r.report # NoImage

(* The disk, if any is left, is no longer trusted.                         *)
Released(s) == s.r.bound # NoImage => s.e[s.r.bound] # "none"

Same(s, t, j) == t.f[j] = s.f[j] /\ t.e[j] = s.e[j]

(* What remains to be true of the image a unit had.                        *)
LeavesBehind(s, t, w) ==
    s.r.bound # NoImage /\ t.e[s.r.bound] = "none" => t.f[s.r.bound] = w[s.r.bound]

LEMMA SaveAborts ==
    ASSUME NEW s \in Sit, NEW o \in Outcomes, ~s.aborted, SaveDisk(s, o).aborted
    PROVE  s.r.bound # NoImage /\ s.r.data = Empty
           /\ SaveDisk(s, o).e = s.e /\ SaveDisk(s, o).f = s.f
BY DEF SaveDisk, Sit, Outcomes

LEMMA SaveLeaves ==
    ASSUME NEW s \in Sit, NEW o \in Outcomes, ~s.aborted,
           NEW w \in [Images -> Versions], Held(s, w)
    PROVE  /\ LeavesBehind(s, SaveDisk(s, o), w)
           /\ s.r.bound # NoImage /\ o # "saved" => SaveDisk(s, o).e[s.r.bound] # "none"
<1> DEFINE t == SaveDisk(s, o)
<1>0. /\ t \in Sit /\ t.r = s.r
      /\ s.r.bound # NoImage /\ ~t.aborted /\ o = "saved" =>
            t.f = [s.f EXCEPT ![s.r.bound] = s.r.data] /\ t.e = s.e
      /\ s.r.bound # NoImage /\ ~t.aborted /\ o # "saved" => t.e[s.r.bound] = "failed"
  BY SaveEffect
<1>1. t.aborted => s.r.bound # NoImage /\ s.r.data = Empty /\ t.e = s.e
  BY SaveAborts
<1>2. s.r.bound # NoImage => s.r.bound \in Images
  BY DEF Sit, UnitType, Paths
<1>3. t.aborted => t.e[s.r.bound] # "none"
  <2>1. s.r.bound \in Images => w[s.r.bound] # Empty
    BY Values
  <2> QED
    BY <1>1, <1>2, <2>1 DEF Held
<1> HIDE DEF t
<1>4. ASSUME ~t.aborted, s.r.bound # NoImage, o = "saved"
      PROVE  LeavesBehind(s, t, w)
  <2>1. t.f[s.r.bound] = s.r.data
    BY <1>0, <1>2, <1>4 DEF Sit
  <2> QED
    BY <1>0, <1>4, <2>1 DEF LeavesBehind, Held
<1>5. LeavesBehind(s, t, w) /\ (s.r.bound # NoImage /\ o # "saved" => t.e[s.r.bound] # "none")
  <2>1. CASE t.aborted
    BY <1>3, <2>1 DEF LeavesBehind
  <2>2. CASE ~t.aborted /\ o # "saved"
    BY <1>0, <2>2 DEF LeavesBehind
  <2>3. CASE ~t.aborted /\ o = "saved"
    BY <1>4, <2>3 DEF LeavesBehind
  <2> QED
    BY <2>1, <2>2, <2>3
<1> QED
  BY <1>5 DEF t

LEMMA EjectEffect ==
    ASSUME NEW s \in Sit, NEW o \in Outcomes, ~s.aborted,
           NEW w \in [Images -> Versions], Held(s, w)
    PROVE  LET t == Eject(s, o) IN
           /\ t \in Sit /\ t.r.report = NoImage /\ t.r.asset = s.r.asset
           /\ t.r.bound \in {s.r.bound, NoImage}
           /\ t.r.attached => s.r.attached /\ s.r.report = NoImage /\ t.r.bound = s.r.bound
           /\ Released(t) /\ LeavesBehind(s, t, w)
           /\ \A j \in Images \ {s.r.bound} : Same(s, t, j)
<1> DEFINE t == Eject(s, o)
           a == SaveDisk(s, o)
<1> USE Values
<1>1. CASE s.r.report = NoImage
  <2>1. t = s
    BY <1>1 DEF Eject
  <2> QED
    BY <1>1, <2>1 DEF Held, Released, LeavesBehind, Same
<1>2. CASE s.r.report # NoImage /\ ~s.r.attached
  <2>1. t = [s EXCEPT !.r.attached = FALSE, !.r.report = NoImage]
    BY <1>2 DEF Eject
  <2> HIDE DEF t
  <2>2. /\ t \in Sit /\ t.r.report = NoImage /\ t.r.asset = s.r.asset
        /\ t.r.bound = s.r.bound /\ t.r.attached = FALSE /\ t.f = s.f /\ t.e = s.e
    BY <1>2, <2>1 DEF Sit, UnitType
  <2> QED
    BY <1>2, <2>2 DEF Held, Released, LeavesBehind, Same, t
<1>3. CASE s.r.report # NoImage /\ s.r.attached
  <2>0. t = [Release(s, o) EXCEPT !.r.attached = FALSE, !.r.report = NoImage]
    BY <1>3 DEF Eject
  <2>1. a \in Sit /\ a.r = s.r /\ \A j \in Images \ {s.r.bound} : a.f[j] = s.f[j] /\ a.e[j] = s.e[j]
    BY SaveEffect
  <2>2. LeavesBehind(s, a, w) /\ (s.r.bound # NoImage /\ o # "saved" => a.e[s.r.bound] # "none")
    BY SaveLeaves
  <2>3. CASE s.r.bound # NoImage /\ o # "saved"
    <3>1. t = [a EXCEPT !.r.attached = FALSE, !.r.report = NoImage]
      BY <2>0, <2>3 DEF Release
    <3> HIDE DEF t, a
    <3>2. /\ t \in Sit /\ t.r.report = NoImage /\ t.r.asset = s.r.asset
          /\ t.r.bound = s.r.bound /\ ~t.r.attached /\ t.f = a.f /\ t.e = a.e
      BY <2>1, <3>1 DEF Sit, UnitType
    <3> QED
      BY <2>1, <2>2, <2>3, <3>2 DEF Released, LeavesBehind, Same, t
  <2>4. CASE ~(s.r.bound # NoImage /\ o # "saved")
    <3>1. t = [[a EXCEPT !.r.bound = NoImage, !.r.data = Empty]
                  EXCEPT !.r.attached = FALSE, !.r.report = NoImage]
      BY <2>0, <2>4 DEF Release
    <3> HIDE DEF t, a
    <3>2. /\ t \in Sit /\ t.r.report = NoImage /\ t.r.asset = s.r.asset
          /\ t.r.bound = NoImage /\ ~t.r.attached /\ t.f = a.f /\ t.e = a.e
      BY <2>1, <3>1 DEF Sit, UnitType
    <3> QED
      BY <2>1, <2>2, <2>4, <3>2 DEF Released, LeavesBehind, Same, t
  <2> QED
    BY <2>3, <2>4
<1> QED
  BY <1>1, <1>2, <1>3

LEMMA BindEffect ==
    ASSUME NEW s \in Sit, NEW i \in Images, NEW o \in Outcomes, NEW read \in Reads, Released(s)
    PROVE  LET t == Bind(s, i, o, read) IN
           /\ t \in Sit /\ t.r.report = s.r.report /\ t.r.asset = s.r.asset
           /\ t.r.attached = s.r.attached
           /\ \A j \in Images \ {s.r.bound, i} : Same(s, t, j)
           /\ \A j \in Images \ {s.r.bound} : t.f[j] = s.f[j]
           /\ read = "ok" =>
                 /\ t.r.bound = i /\ t.r.data = t.f[i] /\ t.e[i] = "none"
                 /\ s.r.bound \notin {NoImage, i} => t.e[s.r.bound] # "none"
           /\ read # "ok" =>
                 /\ t.r.bound = s.r.bound /\ Released(t)
                 /\ i # s.r.bound => Same(s, t, i)
<1> DEFINE t == Bind(s, i, o, read)
           a == SaveDisk(s, o)
<1> USE Values
<1>1. a \in Sit /\ a.r = s.r /\ \A j \in Images \ {s.r.bound} : a.f[j] = s.f[j] /\ a.e[j] = s.e[j]
  BY SaveEffect
<1>2. s.r.bound # NoImage => a.e[s.r.bound] # "none"
  BY DEF SaveDisk, Sit, UnitType, Paths, Released, Outcomes
<1>3. CASE read = "ok"
  <2>1. t = [a EXCEPT !.r.bound = i, !.r.data = a.f[i], !.e[i] = "none"]
    BY <1>3 DEF Bind
  <2> HIDE DEF t, a
  <2>2. /\ t \in Sit /\ t.r.report = a.r.report /\ t.r.asset = a.r.asset
        /\ t.r.attached = a.r.attached /\ t.r.bound = i /\ t.r.data = a.f[i] /\ t.f = a.f
        /\ t.e = [a.e EXCEPT ![i] = "none"]
    BY <1>1, <2>1 DEF Sit, UnitType, Excuses
  <2>3. t.e[i] = "none" /\ \A j \in Images \ {i} : t.e[j] = a.e[j]
    BY <1>1, <2>2 DEF Sit
  <2>4. s.r.bound # NoImage => s.r.bound \in Images
    BY DEF Sit, UnitType, Paths
  <2> QED
    BY <1>1, <1>2, <1>3, <2>2, <2>3, <2>4 DEF Same, t
<1>4. ASSUME NEW v \in {Empty, Torn}, t = [a EXCEPT !.r.data = v], read # "ok"
      PROVE  /\ t \in Sit /\ t.r.report = s.r.report /\ t.r.asset = s.r.asset
             /\ t.r.attached = s.r.attached /\ t.r.bound = s.r.bound /\ t.f = a.f /\ t.e = a.e
  <2> HIDE DEF t, a
  <2> QED
    BY <1>1, <1>4 DEF Sit, UnitType
<1>5. CASE read # "ok"
  <2>1. \E v \in {Empty, Torn} : t = [a EXCEPT !.r.data = v]
    BY <1>5 DEF Bind, Reads
  <2>2. /\ t \in Sit /\ t.r.report = s.r.report /\ t.r.asset = s.r.asset
        /\ t.r.attached = s.r.attached /\ t.r.bound = s.r.bound /\ t.f = a.f /\ t.e = a.e
    BY <1>4, <1>5, <2>1
  <2> HIDE DEF t, a
  <2> QED
    BY <1>1, <1>2, <1>5, <2>2 DEF Same, Released, t
<1> QED
  BY <1>3, <1>5

Assigned(s, t, i, read, w) ==
    /\ t \in Sit /\ t.r.asset = i
    /\ \A j \in Images \ {s.r.bound, i} : Same(s, t, j)
    /\ \A j \in Images \ {s.r.bound} : t.f[j] = s.f[j]
    /\ read # "ok" \/ s.r.bound # i => LeavesBehind(s, t, w)
    /\ read = "ok" =>
          /\ t.r.attached /\ t.r.bound = i /\ t.r.data = t.f[i]
          /\ t.r.report \in {i, NoImage}
          /\ t.r.report = NoImage => s.r.attached /\ s.r.report = NoImage /\ t.e[i] # "none"
    /\ read # "ok" =>
          /\ t.r.report = NoImage /\ t.r.bound \in {s.r.bound, NoImage} /\ Released(t)
          /\ t.r.attached => s.r.attached /\ s.r.report = NoImage /\ t.r.bound = s.r.bound
          /\ i # s.r.bound => Same(s, t, i)

LEMMA AssignEffect ==
    ASSUME NEW s \in Sit, NEW u \in Units, NEW i \in Images,
           NEW o1 \in Outcomes, NEW o2 \in Outcomes, NEW read \in Reads,
           ~s.aborted, NEW w \in [Images -> Versions], Held(s, w)
    PROVE  Assigned(s, Assign(u, s, i, o1, o2, read), i, read, w)
<1> DEFINE t == Assign(u, s, i, o1, o2, read)
           x == Eject(s, o1)
           y == [x EXCEPT !.r.asset = i]
           b == Bind(y, i, o2, read)
<1> USE Values
<1>1. /\ x \in Sit /\ x.r.report = NoImage
      /\ x.r.bound \in {s.r.bound, NoImage}
      /\ x.r.attached => s.r.attached /\ s.r.report = NoImage /\ x.r.bound = s.r.bound
      /\ Released(x) /\ LeavesBehind(s, x, w)
      /\ \A j \in Images \ {s.r.bound} : Same(s, x, j)
  BY EjectEffect
<1>2. /\ y \in Sit /\ y.r.report = NoImage /\ y.r.bound = x.r.bound /\ y.r.asset = i
      /\ y.r.attached = x.r.attached /\ y.f = x.f /\ y.e = x.e /\ Released(y)
  <2> HIDE DEF x
  <2> QED
    BY <1>1 DEF Sit, UnitType, Released
<1>3. t = IF read # "ok" THEN [b EXCEPT !.r.report = NoImage]
          ELSE IF u \in PortUnits /\ b.r.attached THEN [b EXCEPT !.e[i] = "untracked"]
          ELSE [b EXCEPT !.r.attached = TRUE, !.r.report = i]
  BY DEF Assign
<1> HIDE DEF x, y
<1>4. /\ b \in Sit /\ b.r.report = y.r.report /\ b.r.asset = y.r.asset
      /\ b.r.attached = y.r.attached
      /\ \A j \in Images \ {y.r.bound, i} : Same(y, b, j)
      /\ \A j \in Images \ {y.r.bound} : b.f[j] = y.f[j]
      /\ read = "ok" =>
            /\ b.r.bound = i /\ b.r.data = b.f[i] /\ b.e[i] = "none"
            /\ y.r.bound \notin {NoImage, i} => b.e[y.r.bound] # "none"
      /\ read # "ok" =>
            /\ b.r.bound = y.r.bound /\ Released(b)
            /\ i # y.r.bound => Same(y, b, i)
  BY <1>2, BindEffect
<1> HIDE DEF b, t
<1>5. s.r.bound \in Images \union {NoImage}
  BY DEF Sit, UnitType, Paths
<1>6. \A j \in Images \ {s.r.bound, i} : Same(s, b, j)
  BY <1>1, <1>2, <1>4 DEF Same
<1>11. \A j \in Images \ {s.r.bound} : b.f[j] = s.f[j]
  BY <1>1, <1>2, <1>4 DEF Same
<1>7. read # "ok" \/ s.r.bound # i => LeavesBehind(s, b, w)
  <2>1. CASE s.r.bound = NoImage
    BY <2>1 DEF LeavesBehind
  <2>2. CASE s.r.bound # NoImage /\ x.r.bound = NoImage
    BY <1>1, <1>2, <1>4, <1>5, <2>2 DEF LeavesBehind, Same
  <2>3. CASE s.r.bound # NoImage /\ x.r.bound = s.r.bound
    BY <1>1, <1>2, <1>4, <1>5, <2>3 DEF LeavesBehind, Released
  <2> QED
    BY <1>1, <2>1, <2>2, <2>3
<1>8. CASE read # "ok"
  <2>1. t = [b EXCEPT !.r.report = NoImage]
    BY <1>3, <1>8
  <2>2. /\ t \in Sit /\ t.r.asset = i /\ t.r.report = NoImage /\ t.r.bound = x.r.bound
        /\ t.r.attached = x.r.attached /\ t.f = b.f /\ t.e = b.e
    BY <1>2, <1>4, <1>8, <2>1 DEF Sit, UnitType
  <2>3. Released(t)
    BY <1>2, <1>4, <1>8, <2>2 DEF Released
  <2>4. i # s.r.bound => Same(s, t, i)
    BY <1>1, <1>2, <1>4, <1>8, <2>2 DEF Same
  <2> QED
    BY <1>1, <1>6, <1>7, <1>8, <1>11, <2>2, <2>3, <2>4 DEF Same, LeavesBehind, Assigned, t
<1>9. CASE read = "ok" /\ u \in PortUnits /\ b.r.attached
  <2>1. t = [b EXCEPT !.e[i] = "untracked"]
    BY <1>3, <1>9
  <2>2. /\ t \in Sit /\ t.r = b.r /\ t.f = b.f /\ t.e = [b.e EXCEPT ![i] = "untracked"]
    BY <1>4, <2>1 DEF Sit, Excuses
  <2>3. t.e[i] # "none" /\ \A j \in Images \ {i} : t.e[j] = b.e[j]
    BY <1>4, <2>2 DEF Sit
  <2>4. s.r.bound # i => LeavesBehind(s, t, w)
    BY <1>5, <1>7, <2>2, <2>3 DEF LeavesBehind
  <2>5. \A j \in Images \ {s.r.bound, i} : Same(s, t, j)
    BY <1>6, <2>2, <2>3 DEF Same
  <2> QED
    BY <1>1, <1>2, <1>4, <1>9, <1>11, <2>2, <2>3, <2>4, <2>5 DEF Assigned, t
<1>10. CASE read = "ok" /\ ~(u \in PortUnits /\ b.r.attached)
  <2>1. t = [b EXCEPT !.r.attached = TRUE, !.r.report = i]
    BY <1>3, <1>10
  <2>2. /\ t \in Sit /\ t.r.attached /\ t.r.report = i /\ t.r.bound = b.r.bound
        /\ t.r.data = b.r.data /\ t.r.asset = b.r.asset /\ t.f = b.f /\ t.e = b.e
    BY <1>4, <2>1 DEF Sit, UnitType
  <2> QED
    BY <1>1, <1>2, <1>4, <1>6, <1>7, <1>10, <1>11, <2>2 DEF Same, LeavesBehind, Assigned, t
<1> QED
  BY <1>8, <1>9, <1>10

-----------------------------------------------------------------------------
(* The invariant.                                                          *)
Apart(U) ==
    /\ \A u, v \in Units : u # v /\ U[u].bound # NoImage => U[u].bound # U[v].bound
    /\ \A u \in Units : U[u].attached => U[u].bound # NoImage /\ U[u].asset # NoImage

NoneIsEmpty == status = "None" => \A u \in Units : unit[u] = NoUnit

InStep == \A u \in Units : Held(Situation(u), written)

(* Beside what ReportedUnitIsReal says, every device is reported and has   *)
(* blocks, and a snapshot will be reported under the right path.           *)
Real ==
    \A u \in Units \ mistyped :
        /\ unit[u].attached =>
              /\ unit[u].report # NoImage /\ unit[u].bound = unit[u].report
              /\ unit[u].asset = unit[u].report /\ unit[u].data # Empty
        /\ snapshot # NoSnapshot /\ snapshot[u].attached => snapshot[u].bound = snapshot[u].asset

Reported ==
    \A u \in Units : unit[u].report # NoImage =>
        unit[u].attached \/ (u \in PortUnits /\ snapshot # NoSnapshot)

IInv ==
    /\ TypeOK /\ Apart(unit) /\ (snapshot # NoSnapshot => Apart(snapshot))
    /\ NoneIsEmpty /\ InStep /\ Real /\ Reported /\ Durable

LEMMA NoUnitIs ==
    /\ NoUnit \in UnitType /\ NoUnit.attached = FALSE /\ NoUnit.bound = NoImage
    /\ NoUnit.data = Empty /\ NoUnit.asset = NoImage /\ NoUnit.report = NoImage
BY Values DEF NoUnit, UnitType

LEMMA StartsWell == Init => IInv
<1> SUFFICES ASSUME Init PROVE IInv
  OBVIOUS
<1> USE Values, NoUnitIs
<1>1. TypeOK
  BY BoundsAssumption DEF Init, TypeOK
<1>2. \A u \in Units : unit[u] = NoUnit
  BY DEF Init
<1>3. Apart(unit) /\ NoneIsEmpty /\ Real /\ Reported
  BY <1>2 DEF Apart, NoneIsEmpty, Real, Reported, Init
<1>4. InStep
  BY <1>2 DEF InStep, Held, Situation
<1>5. Durable
  BY DEF Durable, Init
<1> QED
  BY <1>1, <1>3, <1>4, <1>5 DEF IInv, Init

(* What the handlers work on.                                              *)
LEMMA SituationIs ==
    ASSUME IInv, NEW u \in Units
    PROVE  /\ Situation(u) \in Sit /\ Situation(u).r = unit[u]
           /\ Situation(u).f = file /\ Situation(u).e = excuse
           /\ ~Situation(u).aborted /\ Held(Situation(u), written)
           /\ written \in [Images -> Versions]
BY DEF IInv, TypeOK, Situation, Sit, Excuses, InStep

LEMMA BoundIs ==
    ASSUME NEW r \in UnitType
    PROVE  r.bound # NoImage => r.bound \in Images
BY DEF UnitType, Paths

(* An image with no excuse that no unit holds is what it should be.        *)
LEMMA UnboundIsDurable ==
    ASSUME IInv, NEW i \in Images, \A u \in Units : unit[u].bound # i, excuse[i] = "none"
    PROVE  file[i] = written[i]
BY DEF IInv, Durable, InUse

-----------------------------------------------------------------------------
(* One unit at a time.                                                     *)
LEMMA HaltKeeps == ASSUME IInv, Halt PROVE IInv'
BY DEF Halt, IInv, TypeOK, Apart, NoneIsEmpty, InStep, Held, Situation, Real, Reported,
       Durable, InUse

LEMMA SaveMachineKeeps == ASSUME IInv, SaveMachine PROVE IInv'
<1> USE DEF SaveMachine, IInv
<1>1. TypeOK'
  BY DEF TypeOK
<1>2. Apart(unit)' /\ (snapshot # NoSnapshot => Apart(snapshot))'
  BY DEF Apart
<1>3. InStep' /\ Durable' /\ NoneIsEmpty'
  BY DEF InStep, Held, Situation, Durable, InUse, NoneIsEmpty
<1>4. Real'
  BY DEF Real
<1>5. Reported'
  <2> SUFFICES ASSUME NEW u \in Units, unit[u].report # NoImage, ~unit[u].attached
               PROVE  u \in PortUnits /\ snapshot' # NoSnapshot
    BY DEF Reported
  <2>1. u \in PortUnits /\ snapshot # NoSnapshot
    BY DEF Reported
  <2> QED
    BY <2>1, SnapshotAssumption DEF TypeOK
<1> QED
  BY <1>1, <1>2, <1>3, <1>4, <1>5

LEMMA GuestWriteKeeps == ASSUME IInv, NEW u \in Units, GuestWrite(u) PROVE IInv'
<1> USE Values
<1> DEFINE b == unit[u].bound
           n == writes + 1
<1>0. /\ status = "Ready" /\ unit[u].attached /\ unit[u].data # Empty /\ writes < MaxWrites
      /\ writes' = n /\ unit' = [unit EXCEPT ![u].data = n]
      /\ written' = [written EXCEPT ![b] = n]
      /\ UNCHANGED <<status, file, config, snapshot, excuse, mistyped>>
  BY DEF GuestWrite
<1>1. /\ unit \in [Units -> UnitType] /\ written \in [Images -> Versions]
      /\ writes \in 0 .. MaxWrites
  BY DEF IInv, TypeOK
<1>2. n \in 0 .. MaxWrites /\ n \in Versions
  BY <1>0, <1>1, BoundsAssumption
<1>3. b \in Images
  BY <1>0, <1>1, BoundIs DEF IInv, Apart
<1>4. unit' \in [Units -> UnitType] /\ written' \in [Images -> Versions]
  BY <1>0, <1>1, <1>2, <1>3 DEF UnitType
<1>5. \A v \in Units : /\ unit'[v].bound = unit[v].bound /\ unit'[v].attached = unit[v].attached
                       /\ unit'[v].asset = unit[v].asset /\ unit'[v].report = unit[v].report
                       /\ v # u => unit'[v].data = unit[v].data
  BY <1>0, <1>1 DEF UnitType
<1>6. unit'[u].data = n /\ written'[b] = n /\ \A i \in Images \ {b} : written'[i] = written[i]
  BY <1>0, <1>1, <1>3 DEF UnitType
<1>7. TypeOK'
  BY <1>0, <1>2, <1>4 DEF IInv, TypeOK
<1>8. Apart(unit)' /\ (snapshot # NoSnapshot => Apart(snapshot))'
  BY <1>0, <1>5 DEF IInv, Apart
<1>9. NoneIsEmpty' /\ Reported'
  BY <1>0, <1>5 DEF IInv, NoneIsEmpty, Reported
<1>10. InStep'
  <2> SUFFICES ASSUME NEW v \in Units, unit[v].bound # NoImage, excuse[unit[v].bound] = "none"
               PROVE  /\ unit[v].attached /\ unit[v].report # NoImage
                      /\ unit'[v].data = written'[unit[v].bound]
    BY <1>0, <1>5 DEF InStep, Held, Situation
  <2>1. unit[v].attached /\ unit[v].report # NoImage /\ unit[v].data = written[unit[v].bound]
    BY DEF IInv, InStep, Held, Situation
  <2>2. CASE v = u
    BY <1>6, <2>1, <2>2
  <2>3. CASE v # u
    BY <1>1, <1>3, <1>5, <1>6, <2>1, <2>3, BoundIs DEF IInv, Apart
  <2> QED
    BY <2>2, <2>3
<1>11. Real'
  BY <1>0, <1>2, <1>5, <1>6 DEF IInv, Real
<1>12. Durable'
  <2>1. \A i \in Images : InUse(i)' <=> InUse(i)
    BY <1>5 DEF InUse
  <2>2. InUse(b)
    BY <1>0 DEF InUse
  <2> QED
    BY <1>0, <1>6, <2>1, <2>2 DEF IInv, Durable
<1> QED
  BY <1>7, <1>8, <1>9, <1>10, <1>11, <1>12 DEF IInv

LEMMA InsertWrongTypeKeeps == ASSUME IInv, NEW u \in Units, InsertWrongType(u) PROVE IInv'
<1> USE Values
<1>0. /\ Alive
      /\ unit' = [unit EXCEPT ![u].report = NoImage]
      /\ mistyped' = mistyped \union {u}
      /\ config' = [config EXCEPT ![u] = NoImage]
      /\ excuse' = [i \in Images |->
                       IF unit[u].attached /\ unit[u].bound = i /\ excuse[i] = "none"
                       THEN "untracked" ELSE excuse[i]]
      /\ UNCHANGED <<status, file, snapshot, writes, written>>
  BY DEF InsertWrongType
<1>1. /\ unit \in [Units -> UnitType] /\ excuse \in [Images -> Excuses]
      /\ config \in [Units -> Paths] /\ mistyped \subseteq Units
  BY DEF IInv, TypeOK, Excuses
<1>2. \A v \in Units : /\ unit'[v].bound = unit[v].bound /\ unit'[v].attached = unit[v].attached
                       /\ unit'[v].asset = unit[v].asset /\ unit'[v].data = unit[v].data
                       /\ v # u => unit'[v].report = unit[v].report
  BY <1>0, <1>1 DEF UnitType
<1>3. unit'[u].report = NoImage
  BY <1>0, <1>1 DEF UnitType
<1>4. \A i \in Images : /\ excuse'[i] = "none" => excuse[i] = "none"
                        /\ unit[u].attached /\ unit[u].bound = i => excuse'[i] # "none"
  BY <1>0
<1>5. TypeOK'
  <2>1. unit' \in [Units -> UnitType]
    BY <1>0, <1>1 DEF UnitType
  <2>2. excuse' \in [Images -> Excuses]
    BY <1>0, <1>1 DEF Excuses
  <2> QED
    BY <1>0, <1>1, <2>1, <2>2 DEF IInv, TypeOK, Excuses
<1>6. Apart(unit)' /\ (snapshot # NoSnapshot => Apart(snapshot))'
  BY <1>0, <1>2 DEF IInv, Apart
<1>7. NoneIsEmpty'
  BY <1>0 DEF Alive, NoneIsEmpty
<1>8. InStep'
  <2> SUFFICES ASSUME NEW v \in Units, unit[v].bound # NoImage, excuse'[unit[v].bound] = "none"
               PROVE  /\ unit[v].attached /\ unit'[v].report # NoImage
                      /\ unit[v].data = written[unit[v].bound]
    BY <1>0, <1>2 DEF InStep, Held, Situation
  <2>1. unit[v].bound \in Images
    BY <1>1, BoundIs
  <2>2. unit[v].attached /\ unit[v].report # NoImage /\ unit[v].data = written[unit[v].bound]
    BY <1>4, <2>1 DEF IInv, InStep, Held, Situation
  <2>3. v # u
    BY <1>4, <2>1, <2>2
  <2> QED
    BY <1>2, <2>2, <2>3
<1>9. Real' /\ Reported'
  BY <1>0, <1>2, <1>3 DEF IInv, Real, Reported
<1>10. Durable'
  <2>1. \A i \in Images : InUse(i)' <=> InUse(i)
    BY <1>2 DEF InUse
  <2> QED
    BY <1>0, <1>4, <2>1 DEF IInv, Durable
<1> QED
  BY <1>5, <1>6, <1>7, <1>8, <1>9, <1>10 DEF IInv

LEMMA RelaunchKeeps == ASSUME IInv, Relaunch PROVE IInv'
<1> USE Values, NoUnitIs
<1>0. /\ status' = "None" /\ excuse' = Abandon(excuse) /\ unit' = [u \in Units |-> NoUnit]
      /\ UNCHANGED <<file, config, snapshot, writes, written, mistyped>>
  BY DEF Relaunch
<1>1. \A i \in Images :
          excuse'[i] = "none" => excuse[i] = "none" /\ ~InUse(i)
  BY <1>0 DEF Abandon, InUse
<1>2. excuse' \in [Images -> Excuses]
  BY <1>0 DEF IInv, TypeOK, Abandon, Excuses
<1>3. TypeOK'
  BY <1>0, <1>2 DEF IInv, TypeOK, Excuses
<1>4. \A u \in Units : unit'[u] = NoUnit
  BY <1>0
<1>5. Apart(unit)' /\ (snapshot # NoSnapshot => Apart(snapshot))' /\ NoneIsEmpty'
  BY <1>0, <1>4 DEF IInv, Apart, NoneIsEmpty
<1>6. InStep'
  BY <1>4 DEF InStep, Held, Situation
<1>7. Real' /\ Reported'
  BY <1>0, <1>4 DEF IInv, Real, Reported
<1>8. Durable'
  BY <1>0, <1>1 DEF IInv, Durable
<1> QED
  BY <1>3, <1>5, <1>6, <1>7, <1>8 DEF IInv
-----------------------------------------------------------------------------
(* A command of the user: it works on one unit and the images I, which no  *)
(* other unit has.                                                         *)
Concludes(u, t, I) ==
    /\ Alive /\ \A v \in Units \ {u} : unit[v].bound \notin I
    /\ unit' = [unit EXCEPT ![u] = t.r] /\ file' = t.f /\ excuse' = t.e
    /\ status' \in {status, "Aborted"} /\ config' \in [Units -> Paths]
    /\ UNCHANGED <<snapshot, writes, mistyped>>
    /\ written' \in [Images -> Versions] /\ \A j \in Images \ I : written'[j] = written[j]
    /\ t.r.bound \in I \union {unit[u].bound, NoImage}
    /\ t.r.attached => t.r.bound # NoImage /\ t.r.asset # NoImage
    /\ \A j \in Images \ (I \union {unit[u].bound}) : Same(Situation(u), t, j)
    /\ Held(t, written')
    /\ \A j \in Images : j \in I \union {unit[u].bound} /\ t.e[j] = "none" =>
           (t.r.attached /\ t.r.bound = j) \/ t.f[j] = written'[j]
    /\ t.r.report # NoImage => t.r.attached
    /\ u \notin mistyped /\ t.r.attached =>
           /\ t.r.report # NoImage /\ t.r.bound = t.r.report
           /\ t.r.asset = t.r.report /\ t.r.data # Empty

LEMMA ConcludedKeeps ==
    ASSUME IInv, NEW u \in Units, NEW t \in Sit, NEW I \in SUBSET Images, Concludes(u, t, I)
    PROVE  IInv'
<1> USE DEF Concludes
<1>1. unit \in [Units -> UnitType] /\ t.r \in UnitType
  BY DEF IInv, TypeOK, Sit
<1>2. unit'[u] = t.r /\ \A v \in Units \ {u} : unit'[v] = unit[v]
  BY <1>1
<1>3. \A j \in Images \ (I \union {unit[u].bound}) : file'[j] = file[j] /\ excuse'[j] = excuse[j]
  BY SituationIs DEF Same
<1>4. \A v \in Units \ {u} : unit[v].bound # NoImage =>
          unit[v].bound \in Images \ (I \union {unit[u].bound})
  BY <1>1, BoundIs DEF IInv, Apart
<1>5. TypeOK'
  <2>1. unit' \in [Units -> UnitType]
    BY <1>1
  <2>2. file' \in [Images -> Versions] /\ excuse' \in [Images -> Excuses]
    BY DEF Sit
  <2>3. status' \in {"None", "Ready", "Offline", "Aborted"}
    BY DEF IInv, TypeOK
  <2> QED
    BY <2>1, <2>2, <2>3 DEF IInv, TypeOK, Excuses
<1>6. Apart(unit)'
  <2>1. ASSUME NEW v \in Units, NEW x \in Units, v # x, unit'[v].bound # NoImage
        PROVE  unit'[v].bound # unit'[x].bound
    <3>1. CASE v = u
      BY <1>2, <1>4, <2>1, <3>1
    <3>2. CASE x = u
      BY <1>2, <1>4, <2>1, <3>2
    <3>3. CASE v # u /\ x # u
      BY <1>2, <2>1, <3>3 DEF IInv, Apart
    <3> QED
      BY <3>1, <3>2, <3>3
  <2>2. \A v \in Units : unit'[v].attached => unit'[v].bound # NoImage /\ unit'[v].asset # NoImage
    BY <1>2 DEF IInv, Apart
  <2> QED
    BY <2>1, <2>2 DEF Apart
<1>7. (snapshot # NoSnapshot => Apart(snapshot))'
  BY DEF IInv, Apart
<1>8. NoneIsEmpty'
  BY DEF Alive, NoneIsEmpty
<1>9. InStep'
  <2> SUFFICES ASSUME NEW v \in Units,
                      unit'[v].bound # NoImage, excuse'[unit'[v].bound] = "none"
               PROVE  /\ unit'[v].attached /\ unit'[v].data = written'[unit'[v].bound]
                      /\ unit'[v].report # NoImage
    BY DEF InStep, Held, Situation
  <2>1. CASE v = u
    BY <1>2, <2>1 DEF Held
  <2>2. CASE v # u
    BY <1>2, <1>3, <1>4, <2>2 DEF IInv, InStep, Held, Situation
  <2> QED
    BY <2>1, <2>2
<1>10. Real'
  BY <1>2 DEF IInv, Real
<1>11. Reported'
  BY <1>2 DEF IInv, Reported
<1>12. Durable'
  <2> SUFFICES ASSUME NEW j \in Images, ~InUse(j)', excuse'[j] = "none"
               PROVE  file'[j] = written'[j]
    BY DEF Durable
  <2>1. \A v \in Units : ~(unit'[v].attached /\ unit'[v].bound = j)
    BY DEF InUse
  <2>2. CASE j \in I \union {unit[u].bound}
    BY <1>2, <2>1, <2>2
  <2>3. CASE j \notin I \union {unit[u].bound}
    <3>1. ~InUse(j)
      BY <1>2, <2>1, <2>3 DEF InUse
    <3> QED
      BY <1>3, <2>3, <3>1 DEF IInv, Durable
  <2> QED
    BY <2>2, <2>3
<1> QED
  BY <1>5, <1>6, <1>7, <1>8, <1>9, <1>10, <1>11, <1>12 DEF IInv

LEMMA EjectKeeps == ASSUME IInv, NEW u \in Units, EjectSmartPortDisk(u) PROVE IInv'
<1>1. PICK out \in Answers({u}, unit) : Conclude(u, Eject(Situation(u), out[u]))
  BY DEF EjectSmartPortDisk
<1> DEFINE s == Situation(u)
           t == Eject(s, out[u])
<1>2. out[u] \in Outcomes
  BY DEF Answers
<1>3. /\ s \in Sit /\ s.r = unit[u] /\ ~s.aborted /\ Held(s, written)
      /\ written \in [Images -> Versions]
  BY SituationIs
<1> HIDE DEF s
<1>4. /\ t \in Sit /\ t.r.report = NoImage /\ t.r.asset = s.r.asset
      /\ t.r.bound \in {s.r.bound, NoImage}
      /\ t.r.attached => s.r.attached /\ s.r.report = NoImage /\ t.r.bound = s.r.bound
      /\ Released(t) /\ LeavesBehind(s, t, written)
      /\ \A j \in Images \ {s.r.bound} : Same(s, t, j)
  BY <1>2, <1>3, EjectEffect
<1> HIDE DEF t
<1>5. /\ unit' = [unit EXCEPT ![u] = t.r] /\ file' = t.f /\ excuse' = t.e
      /\ status' \in {status, "Aborted"}
      /\ Alive /\ UNCHANGED <<config, snapshot, writes, written, mistyped>>
  BY <1>1 DEF Conclude, EjectSmartPortDisk, t, s
<1>6. config' \in [Units -> Paths]
  BY <1>5 DEF IInv, TypeOK
<1>7. t.r.attached => t.r.bound # NoImage /\ t.r.asset # NoImage /\ u \in mistyped
  BY <1>3, <1>4 DEF IInv, Apart, Real
<1>8. Held(t, written')
  BY <1>4 DEF Held, Released
<1>9. \A j \in Images : j = unit[u].bound /\ t.e[j] = "none" => t.f[j] = written'[j]
  BY <1>3, <1>4, <1>5, ImagesAssumption DEF LeavesBehind
<1>10. \A j \in Images \ {unit[u].bound} : Same(Situation(u), t, j)
  BY <1>3, <1>4 DEF s
<1>11. t.r.bound \in {unit[u].bound, NoImage}
  BY <1>3, <1>4
<1>12. {} \in SUBSET Images
  OBVIOUS
<1> QED
  <2>1. Concludes(u, t, {})
    BY <1>3, <1>4, <1>5, <1>6, <1>7, <1>8, <1>9, <1>10, <1>11 DEF Concludes
  <2> QED
    BY <1>4, <1>12, <2>1, ConcludedKeeps

LEMMA InsertKeeps ==
    ASSUME IInv, NEW u \in Units, NEW i \in Images, InsertSmartPortDisk(u, i) PROVE IInv'
<1>1. PICK out1 \in Answers({u}, unit), out2 \in Answers({u}, unit), read \in Reads :
          /\ Conclude(u, Assign(u, Situation(u), i, out1[u], out2[u], read))
          /\ written' = IF read = "ok" THEN [written EXCEPT ![i] = unit'[u].data]
                                       ELSE written
  BY DEF InsertSmartPortDisk
<1> DEFINE s == Situation(u)
           t == Assign(u, s, i, out1[u], out2[u], read)
<1> USE Values
<1>2. out1[u] \in Outcomes /\ out2[u] \in Outcomes
  BY DEF Answers
<1>3. /\ s \in Sit /\ s.r = unit[u] /\ ~s.aborted /\ Held(s, written)
      /\ written \in [Images -> Versions]
  BY SituationIs
<1> HIDE DEF s
<1>4. /\ t \in Sit /\ t.r.asset = i
      /\ \A j \in Images \ {s.r.bound, i} : Same(s, t, j)
      /\ read # "ok" \/ s.r.bound # i => LeavesBehind(s, t, written)
      /\ read = "ok" =>
            /\ t.r.attached /\ t.r.bound = i /\ t.r.data = t.f[i]
            /\ t.r.report \in {i, NoImage}
            /\ t.r.report = NoImage => s.r.attached /\ s.r.report = NoImage /\ t.e[i] # "none"
      /\ read # "ok" =>
            /\ t.r.report = NoImage /\ t.r.bound \in {s.r.bound, NoImage} /\ Released(t)
            /\ t.r.attached => s.r.attached /\ s.r.report = NoImage /\ t.r.bound = s.r.bound
            /\ i # s.r.bound => Same(s, t, i)
  BY <1>2, <1>3, AssignEffect DEF Assigned
<1> HIDE DEF t
<1>5. /\ unit' = [unit EXCEPT ![u] = t.r] /\ file' = t.f /\ excuse' = t.e
      /\ status' \in {status, "Aborted"}
      /\ Alive /\ UNCHANGED <<snapshot, writes, mistyped>>
      /\ config' = [config EXCEPT ![u] = unit'[u].report]
      /\ \A v \in Units \ {u} : unit[v].bound \notin {i}
  BY <1>1 DEF Conclude, InsertSmartPortDisk, t, s
<1>6. /\ unit \in [Units -> UnitType] /\ unit'[u] = t.r /\ t.f \in [Images -> Versions]
      /\ t.r.report \in Paths
  BY <1>4, <1>5 DEF IInv, TypeOK, Sit, UnitType
<1>7. config' \in [Units -> Paths]
  BY <1>5, <1>6 DEF IInv, TypeOK
<1>8. written' = IF read = "ok" THEN [written EXCEPT ![i] = t.f[i]] ELSE written
  BY <1>1, <1>4, <1>6
<1>9. /\ written' \in [Images -> Versions]
      /\ \A j \in Images \ {i} : written'[j] = written[j]
      /\ read = "ok" => written'[i] = t.f[i]
      /\ read # "ok" => written' = written
  BY <1>3, <1>6, <1>8
<1>10. t.r.attached => t.r.bound # NoImage /\ t.r.asset # NoImage
  BY <1>3, <1>4 DEF IInv, Apart
<1>11. u \notin mistyped /\ t.r.attached =>
          /\ t.r.report # NoImage /\ t.r.bound = t.r.report
          /\ t.r.asset = t.r.report /\ t.r.data # Empty
  BY <1>3, <1>4, <1>6 DEF IInv, Real
<1>12. t.r.report # NoImage => t.r.attached
  BY <1>4
<1>13. Held(t, written')
  <2>1. CASE read = "ok"
    BY <1>4, <1>9, <2>1 DEF Held
  <2>2. CASE read # "ok"
    BY <1>4, <2>2 DEF Held, Released
  <2> QED
    BY <2>1, <2>2
<1>14. ASSUME NEW j \in Images, j \in {i} \union {unit[u].bound}, t.e[j] = "none"
       PROVE  (t.r.attached /\ t.r.bound = j) \/ t.f[j] = written'[j]
  <2>1. CASE read = "ok" /\ j = i
    BY <1>4, <2>1
  <2>2. CASE read = "ok" /\ j # i
    BY <1>3, <1>4, <1>9, <1>14, <2>2 DEF LeavesBehind
  <2>3. CASE read # "ok" /\ j = unit[u].bound
    BY <1>3, <1>4, <1>9, <1>14, <2>3 DEF LeavesBehind
  <2>4. CASE read # "ok" /\ j # unit[u].bound
    <3>1. j = i /\ Same(s, t, i) /\ \A v \in Units : unit[v].bound # i
      BY <1>3, <1>4, <1>5, <1>14, <2>4
    <3>2. excuse[i] = "none" /\ t.f[i] = file[i]
      BY <1>14, <3>1, SituationIs DEF Same, s
    <3>3. file[i] = written[i]
      BY <3>1, <3>2, UnboundIsDurable
    <3> QED
      BY <1>9, <2>4, <3>1, <3>2, <3>3
  <2> QED
    BY <2>1, <2>2, <2>3, <2>4
<1>15. \A j \in Images \ ({i} \union {unit[u].bound}) : Same(Situation(u), t, j)
  BY <1>3, <1>4 DEF s
<1>16. t.r.bound \in {i} \union {unit[u].bound, NoImage}
  BY <1>3, <1>4
<1>17. \A j \in Images : j \in {i} \union {unit[u].bound} /\ t.e[j] = "none" =>
          (t.r.attached /\ t.r.bound = j) \/ t.f[j] = written'[j]
  BY <1>14
<1>18. Concludes(u, t, {i})
  BY <1>4, <1>5, <1>7, <1>9, <1>10, <1>11, <1>12, <1>13, <1>15, <1>16, <1>17 DEF Concludes
<1> QED
  BY <1>4, <1>18, ConcludedKeeps

-----------------------------------------------------------------------------
(* All units at once: each changes what it knows of its own image.         *)
Local(old, new, X, B) ==
    /\ old \in [Images -> X] /\ new \in [Units -> [Images -> X]]
    /\ \A u, v \in Units : u # v /\ B[u] # NoImage => B[u] # B[v]
    /\ \A u \in Units : \A j \in Images \ {B[u]} : new[u][j] = old[j]

LEMMA MergeIs ==
    ASSUME NEW old, NEW new, NEW X, NEW B, Local(old, new, X, B)
    PROVE  /\ Merge(old, new) \in [Images -> X]
           /\ \A i \in Images : (\A u \in Units : B[u] # i) => Merge(old, new)[i] = old[i]
           /\ \A u \in Units : B[u] \in Images => Merge(old, new)[B[u]] = new[u][B[u]]
<1> USE DEF Local
<1> DEFINE U(i) == {u \in Units : new[u][i] # old[i]}
           m(i) == IF U(i) = {} THEN old[i] ELSE new[CHOOSE u \in U(i) : TRUE][i]
<1>1. Merge(old, new) = [i \in Images |-> m(i)]
  BY DEF Merge
<1>2. ASSUME NEW i \in Images
      PROVE  /\ m(i) \in X
             /\ (\A u \in Units : B[u] # i) => m(i) = old[i]
             /\ \A u \in Units : B[u] = i => m(i) = new[u][i]
  <2>1. \A u \in U(i) : u \in Units /\ B[u] = i
    OBVIOUS
  <2>2. CASE U(i) = {}
    BY <2>2
  <2>3. CASE U(i) # {}
    <3> DEFINE c == CHOOSE u \in U(i) : TRUE
    <3>1. c \in U(i) /\ m(i) = new[c][i]
      BY <2>3
    <3>2. c \in Units /\ B[c] = i
      BY <2>1, <3>1
    <3>3. \A u \in Units : B[u] = i => u = c
      BY <3>2, ImagesAssumption
    <3> QED
      BY <3>1, <3>2, <3>3
  <2> QED
    BY <2>2, <2>3
<1> HIDE DEF m
<1> QED
  BY <1>1, <1>2, ImagesAssumption

LEMMA UnmountIs ==
    ASSUME IInv, NEW out \in [Units -> Outcomes]
    PROVE  /\ UnmountedFiles(out) \in [Images -> Versions]
           /\ UnmountedExcuses(out) \in [Images -> Excuses]
           /\ \A i \in Images : UnmountedExcuses(out)[i] = "none" =>
                 UnmountedFiles(out)[i] = written[i]
<1>1. /\ file \in [Images -> Versions] /\ excuse \in [Images -> Excuses]
      /\ unit \in [Units -> UnitType]
  BY DEF IInv, TypeOK, Excuses
<1>2. CASE status = "Offline"
  <2>1. UnmountedFiles(out) = file /\ UnmountedExcuses(out) = Abandon(excuse)
    BY <1>2 DEF UnmountedFiles, UnmountedExcuses
  <2>2. Abandon(excuse) \in [Images -> Excuses]
    BY <1>1 DEF Abandon, Excuses
  <2>3. \A i \in Images : Abandon(excuse)[i] = "none" => excuse[i] = "none" /\ ~InUse(i)
    BY DEF Abandon, InUse
  <2> QED
    BY <1>1, <2>1, <2>2, <2>3 DEF IInv, Durable
<1>3. CASE status # "Offline"
  <2> DEFINE t(u) == Ejected(out)[u]
             B == [u \in Units |-> unit[u].bound]
             F == [u \in Units |-> t(u).f]
             E == [u \in Units |-> t(u).e]
  <2>1. UnmountedFiles(out) = Merge(file, F) /\ UnmountedExcuses(out) = Merge(excuse, E)
    BY <1>3 DEF UnmountedFiles, UnmountedExcuses
  <2>2. ASSUME NEW u \in Units
        PROVE  /\ t(u).f \in [Images -> Versions] /\ t(u).e \in [Images -> Excuses]
               /\ unit[u].bound # NoImage /\ t(u).e[unit[u].bound] = "none"
                     => t(u).f[unit[u].bound] = written[unit[u].bound]
               /\ \A j \in Images \ {unit[u].bound} : t(u).f[j] = file[j] /\ t(u).e[j] = excuse[j]
    <3> DEFINE x == Eject(Situation(u), out[u])
    <3>1. t(u) = x
      BY DEF Ejected
    <3>2. out[u] \in Outcomes
      OBVIOUS
    <3>3. /\ x \in Sit /\ LeavesBehind(Situation(u), x, written)
          /\ \A j \in Images \ {Situation(u).r.bound} : Same(Situation(u), x, j)
      BY <3>2, EjectEffect, SituationIs
    <3> HIDE DEF x
    <3>4. x.f \in [Images -> Versions] /\ x.e \in [Images -> Excuses]
      BY <3>3 DEF Sit
    <3> QED
      BY <3>1, <3>3, <3>4, SituationIs DEF LeavesBehind, Same
  <2> HIDE DEF t
  <2>3. F \in [Units -> [Images -> Versions]] /\ E \in [Units -> [Images -> Excuses]]
    BY <2>2
  <2>4. \A u, v \in Units : u # v /\ B[u] # NoImage => B[u] # B[v]
    BY DEF IInv, Apart
  <2>5. \A u \in Units : \A j \in Images \ {B[u]} : F[u][j] = file[j] /\ E[u][j] = excuse[j]
    BY <2>2
  <2> HIDE DEF B, F, E
  <2>6. /\ Merge(file, F) \in [Images -> Versions]
        /\ \A i \in Images : (\A u \in Units : B[u] # i) => Merge(file, F)[i] = file[i]
        /\ \A u \in Units : B[u] \in Images => Merge(file, F)[B[u]] = F[u][B[u]]
    <3>1. Local(file, F, Versions, B)
      BY <1>1, <2>3, <2>4, <2>5 DEF Local
    <3> QED
      BY <3>1, MergeIs
  <2>7. /\ Merge(excuse, E) \in [Images -> Excuses]
        /\ \A i \in Images : (\A u \in Units : B[u] # i) => Merge(excuse, E)[i] = excuse[i]
        /\ \A u \in Units : B[u] \in Images => Merge(excuse, E)[B[u]] = E[u][B[u]]
    <3>1. Local(excuse, E, Excuses, B)
      BY <1>1, <2>3, <2>4, <2>5 DEF Local
    <3> QED
      BY <3>1, MergeIs
  <2>8. ASSUME NEW i \in Images, Merge(excuse, E)[i] = "none"
        PROVE  Merge(file, F)[i] = written[i]
    <3>1. CASE \A u \in Units : B[u] # i
      BY <2>6, <2>7, <2>8, <3>1, UnboundIsDurable DEF B
    <3>2. CASE \E u \in Units : B[u] = i
      <4>1. PICK u \in Units : B[u] = i
        BY <3>2
      <4>2. F[u] = t(u).f /\ E[u] = t(u).e /\ unit[u].bound = i /\ i # NoImage
        BY <4>1, ImagesAssumption DEF B, F, E
      <4> QED
        BY <2>2, <2>6, <2>7, <2>8, <4>1, <4>2
    <3> QED
      BY <3>1, <3>2
  <2> QED
    BY <2>1, <2>6, <2>7, <2>8
<1> QED
  BY <1>2, <1>3

LEMMA AnswersAre ==
    ASSUME NEW r, NEW out \in Answers(Units, r)
    PROVE  out \in [Units -> Outcomes]
BY DEF Answers

LEMMA PowerOffKeeps == ASSUME IInv, PowerOff PROVE IInv'
<1> USE Values, NoUnitIs
<1>0. PICK out \in Answers(Units, unit) :
          /\ file' = UnmountedFiles(out)
          /\ excuse' = UnmountedExcuses(out)
          /\ status' = IF status # "Offline" /\ \E u \in Units : Ejected(out)[u].aborted
                       THEN "Aborted" ELSE "None"
  BY DEF PowerOff
<1>1. /\ unit' = [u \in Units |-> NoUnit] /\ UNCHANGED <<snapshot, writes, written, mistyped>>
      /\ config' = [u \in Units |-> unit[u].report]
  BY DEF PowerOff
<1>2. /\ file' \in [Images -> Versions] /\ excuse' \in [Images -> Excuses]
      /\ \A i \in Images : excuse'[i] = "none" => file'[i] = written[i]
  BY <1>0, AnswersAre, UnmountIs
<1>3. TypeOK'
  <2>1. config' \in [Units -> Paths] /\ unit' \in [Units -> UnitType]
    BY <1>1 DEF IInv, TypeOK, UnitType
  <2>2. status' \in {"None", "Ready", "Offline", "Aborted"}
    BY <1>0
  <2> QED
    BY <1>1, <1>2, <2>1, <2>2 DEF IInv, TypeOK, Excuses
<1>4. \A u \in Units : unit'[u] = NoUnit
  BY <1>1
<1>5. Apart(unit)' /\ (snapshot # NoSnapshot => Apart(snapshot))' /\ NoneIsEmpty'
  BY <1>1, <1>4 DEF IInv, Apart, NoneIsEmpty
<1>6. InStep' /\ Real' /\ Reported'
  BY <1>1, <1>4 DEF IInv, InStep, Held, Situation, Real, Reported
<1>7. Durable'
  BY <1>1, <1>2 DEF Durable
<1> QED
  BY <1>3, <1>5, <1>6, <1>7 DEF IInv

(* A unit of a new machine: it has the image it is configured for, or none *)
(* if that cannot be read.                                                 *)
Started(u, t) ==
    /\ t \in Sit
    /\ \A j \in Images \ {t.r.bound} : t.e[j] = excuse[j]
    /\ t.r.bound # NoImage =>
          /\ t.r.attached /\ t.r.report = t.r.bound /\ t.r.asset = t.r.bound
          /\ t.r.data = file[t.r.bound]
    /\ t.r.bound = NoImage => t.r.attached = FALSE /\ t.r.report = NoImage

LEMMA StartedIs ==
    ASSUME IInv, status = "None", NEW u \in Units, NEW read \in Reads, NEW fresh,
           fresh = [r |-> NoUnit, f |-> file, e |-> excuse, aborted |-> FALSE]
    PROVE  Started(u, IF config[u] = NoImage THEN fresh
                      ELSE Assign(u, fresh, config[u], "saved", "saved", read))
<1> DEFINE i == config[u]
           o == "saved"
           t == Assign(u, fresh, i, o, o, read)
<1>0. unit[u] = NoUnit
  BY DEF IInv, NoneIsEmpty
<1>1. fresh = Situation(u)
  BY <1>0 DEF Situation
<1>2. /\ fresh \in Sit /\ fresh.r = NoUnit /\ fresh.f = file /\ fresh.e = excuse
      /\ ~fresh.aborted /\ Held(fresh, written) /\ written \in [Images -> Versions]
  BY <1>0, <1>1, SituationIs
<1>3. CASE i = NoImage
  BY <1>2, <1>3, NoUnitIs, Values DEF Started
<1>4. CASE i # NoImage
  <2>1. i \in Images
    BY <1>4 DEF IInv, TypeOK, Paths
  <2>2. o \in Outcomes
    BY DEF Outcomes
  <2>3. Assigned(fresh, t, i, read, written)
    BY <1>2, <2>1, <2>2, AssignEffect
  <2> HIDE DEF t
  <2>4. t.r.attached \in BOOLEAN
    BY <2>3 DEF Assigned, Sit, UnitType
  <2>5. Started(u, t)
    BY <1>2, <1>4, <2>1, <2>3, <2>4, NoUnitIs, Values DEF Assigned, Started, Same
  <2> QED
    BY <1>4, <2>5 DEF t
<1> QED
  BY <1>3, <1>4

LEMMA PowerOnKeeps == ASSUME IInv, PowerOn PROVE IInv'
<1> USE Values, NoUnitIs
<1>1. PICK read \in {f \in [Units -> Reads] :
                     \A u \in Units : config[u] = NoImage => f[u] = "ok"} :
          LET fresh == [r |-> NoUnit, f |-> file, e |-> excuse, aborted |-> FALSE]
              After == [u \in Units |->
                           IF config[u] = NoImage THEN fresh
                           ELSE Assign(u, fresh, config[u], "saved", "saved", read[u])]
          IN /\ unit' = [u \in Units |-> After[u].r]
             /\ \A u, v \in Units :
                   u # v /\ unit'[u].bound # NoImage => unit'[u].bound # unit'[v].bound
             /\ excuse' = Merge(excuse, [u \in Units |-> After[u].e])
  BY Zenon DEF PowerOn
<1> DEFINE fresh == [r |-> NoUnit, f |-> file, e |-> excuse, aborted |-> FALSE]
           A == [u \in Units |-> IF config[u] = NoImage THEN fresh
                                 ELSE Assign(u, fresh, config[u], "saved", "saved", read[u])]
           E == [u \in Units |-> A[u].e]
           B == [u \in Units |-> A[u].r.bound]
<1>2. /\ unit' = [u \in Units |-> A[u].r] /\ excuse' = Merge(excuse, E)
      /\ \A u, v \in Units :
            u # v /\ unit'[u].bound # NoImage => unit'[u].bound # unit'[v].bound
  BY <1>1, Zenon
<1>3. /\ status = "None" /\ status' = "Ready" /\ UNCHANGED <<file, snapshot, writes, mistyped>>
      /\ written' = [i \in Images |->
                        IF \E u \in Units : unit'[u].bound = i THEN file[i] ELSE written[i]]
      /\ config' = [u \in Units |-> unit'[u].report]
  BY DEF PowerOn
<1>4. ASSUME NEW u \in Units PROVE Started(u, A[u])
  <2>1. read[u] \in Reads
    OBVIOUS
  <2>2. Started(u, IF config[u] = NoImage THEN fresh
                   ELSE Assign(u, fresh, config[u], "saved", "saved", read[u]))
    BY <1>3, <2>1, StartedIs
  <2> HIDE DEF fresh
  <2> QED
    BY <2>2
<1> HIDE DEF fresh, A
<1>5. /\ unit \in [Units -> UnitType] /\ excuse \in [Images -> Excuses]
      /\ file \in [Images -> Versions] /\ written \in [Images -> Versions]
  BY DEF IInv, TypeOK, Excuses
<1>6. \A u \in Units :
          /\ unit'[u] \in UnitType /\ unit'[u].bound = B[u]
          /\ unit'[u].bound # NoImage =>
                /\ unit'[u].attached /\ unit'[u].report = unit'[u].bound
                /\ unit'[u].asset = unit'[u].bound /\ unit'[u].data = file[unit'[u].bound]
          /\ unit'[u].bound = NoImage => unit'[u].attached = FALSE /\ unit'[u].report = NoImage
          /\ E[u] \in [Images -> Excuses]
          /\ \A j \in Images \ {B[u]} : E[u][j] = excuse[j]
  BY <1>2, <1>4 DEF Started, Sit
<1>7. /\ excuse' \in [Images -> Excuses]
      /\ \A i \in Images : (\A u \in Units : B[u] # i) => excuse'[i] = excuse[i]
  <2>1. E \in [Units -> [Images -> Excuses]]
    BY <1>6
  <2>2. Local(excuse, E, Excuses, B)
    <3> HIDE DEF E, B
    <3> QED
      BY <1>2, <1>5, <1>6, <2>1 DEF Local
  <2> HIDE DEF E, B
  <2> QED
    BY <1>2, <2>2, MergeIs
<1> HIDE DEF E, B
<1>8. \A u \in Units : unit'[u].bound # NoImage => unit'[u].bound \in Images
  BY <1>6, BoundIs
<1>9. TypeOK'
  <2>1. unit' \in [Units -> UnitType]
    BY <1>2, <1>6
  <2>2. config' \in [Units -> Paths]
    BY <1>3, <1>6 DEF UnitType
  <2>3. written' \in [Images -> Versions]
    BY <1>3, <1>5
  <2> QED
    BY <1>3, <1>7, <2>1, <2>2, <2>3 DEF IInv, TypeOK, Excuses
<1>10. Apart(unit)'
  BY <1>2, <1>6 DEF Apart
<1>11. (snapshot # NoSnapshot => Apart(snapshot))' /\ NoneIsEmpty'
  BY <1>3 DEF IInv, Apart, NoneIsEmpty
<1>12. InStep'
  <2> SUFFICES ASSUME NEW v \in Units, unit'[v].bound # NoImage
               PROVE  /\ unit'[v].attached /\ unit'[v].data = written'[unit'[v].bound]
                      /\ unit'[v].report # NoImage
    BY DEF InStep, Held, Situation
  <2>1. written'[unit'[v].bound] = file[unit'[v].bound]
    BY <1>3, <1>8
  <2> QED
    BY <1>6, <2>1
<1>13. Real'
  <2>1. ASSUME NEW u \in Units \ mistyped, unit'[u].attached
        PROVE  /\ unit'[u].report # NoImage /\ unit'[u].bound = unit'[u].report
               /\ unit'[u].asset = unit'[u].report /\ unit'[u].data # Empty
    BY <1>5, <1>6, <1>8, <2>1
  <2> QED
    BY <1>3, <2>1 DEF IInv, Real
<1>14. Reported'
  BY <1>6 DEF Reported
<1>15. Durable'
  <2> SUFFICES ASSUME NEW i \in Images, ~InUse(i)', excuse'[i] = "none"
               PROVE  file'[i] = written'[i]
    BY DEF Durable
  <2>1. \A u \in Units : unit'[u].bound # i
    BY <1>6, ImagesAssumption DEF InUse
  <2>2. excuse[i] = "none" /\ written'[i] = written[i]
    BY <1>3, <1>6, <1>7, <2>1
  <2>3. \A u \in Units : unit[u].bound # i
    BY <1>3, ImagesAssumption DEF IInv, NoneIsEmpty
  <2> QED
    BY <1>3, <2>2, <2>3, UnboundIsDurable
<1> QED
  BY <1>9, <1>10, <1>11, <1>12, <1>13, <1>14, <1>15 DEF IInv

-----------------------------------------------------------------------------
(* A saved machine.                                                        *)
LEMMA LoadedIs ==
    ASSUME IInv, snapshot # NoSnapshot, NEW u \in Units
    PROVE  /\ snapshot[u] \in UnitType /\ Loaded(u) \in UnitType
           /\ Loaded(u).attached = snapshot[u].attached /\ Loaded(u).bound = snapshot[u].bound
           /\ Loaded(u).data = snapshot[u].data /\ Loaded(u).asset = snapshot[u].asset
           /\ Loaded(u).report = IF u \in PortUnits \/ snapshot[u].attached
                                 THEN snapshot[u].asset ELSE NoImage
<1>1. snapshot[u] \in UnitType
  BY DEF IInv, TypeOK
<1> QED
  BY <1>1, Values DEF Loaded, UnitType

LEMMA LoadMachineKeeps == ASSUME IInv, LoadMachine PROVE IInv'
<1> USE Values
<1>1. PICK old \in Answers(Units, unit), new \in Answers(Units, snapshot) :
          /\ file' = [i \in Images |->
                         IF Holders(i) = {} THEN UnmountedFiles(old)[i]
                         ELSE LET u == CHOOSE u \in Holders(i) : TRUE
                              IN CASE new[u] = "saved" -> Loaded(u).data
                                   [] new[u] = "notOpened" -> UnmountedFiles(old)[i]
                                   [] new[u] = "torn" -> Torn]
          /\ excuse' = [i \in Images |->
                         IF \E u \in Units : Loaded(u).bound = i /\ ~Loaded(u).attached
                         THEN "failed"
                         ELSE IF Holders(i) = {} THEN UnmountedExcuses(old)[i]
                         ELSE IF new[CHOOSE u \in Holders(i) : TRUE] = "saved"
                              THEN "none" ELSE "failed"]
          /\ written' = [i \in Images |->
                          IF Holders(i) = {} THEN written[i]
                          ELSE Loaded(CHOOSE u \in Holders(i) : TRUE).data]
  BY Zenon DEF LoadMachine
<1>2. /\ snapshot # NoSnapshot
      /\ \A u \in Units : ~(snapshot[u].bound # NoImage /\ snapshot[u].data = Empty)
      /\ unit' = [u \in Units |-> Loaded(u)]
      /\ config' = [u \in Units |-> unit'[u].report]
      /\ status' = "Ready"
      /\ UNCHANGED <<snapshot, writes, mistyped>>
  BY DEF LoadMachine
<1> DEFINE f == UnmountedFiles(old)
           e == UnmountedExcuses(old)
           c(i) == CHOOSE u \in Holders(i) : TRUE
<1>3. /\ f \in [Images -> Versions] /\ e \in [Images -> Excuses]
      /\ \A i \in Images : e[i] = "none" => f[i] = written[i]
  BY AnswersAre, UnmountIs
<1>4. ASSUME NEW i \in Images
      PROVE  /\ Holders(i) # {} =>
                   c(i) \in Units /\ Loaded(c(i)).bound = i /\ Loaded(c(i)).report # NoImage
             /\ \A u \in Units : Loaded(u).bound = i /\ Loaded(u).report # NoImage =>
                   Holders(i) # {} /\ c(i) = u
  <2>1. Holders(i) # {} => c(i) \in Holders(i)
    OBVIOUS
  <2>2. Holders(i) # {} =>
            c(i) \in Units /\ Loaded(c(i)).bound = i /\ Loaded(c(i)).report # NoImage
    BY <2>1 DEF Holders
  <2>3. \A u \in Units : Loaded(u).bound = i /\ Loaded(u).report # NoImage => u \in Holders(i)
    BY DEF Holders
  <2>4. \A u, v \in Units : u # v /\ Loaded(u).bound # NoImage => Loaded(u).bound # Loaded(v).bound
    BY <1>2, LoadedIs DEF IInv, Apart
  <2> HIDE DEF c
  <2> QED
    BY <2>2, <2>3, <2>4
<1>5. \A u \in Units : Loaded(u).bound # NoImage =>
          Loaded(u).bound \in Images /\ Loaded(u).data \in Versions
  BY <1>2, LoadedIs DEF UnitType, Paths
<1>6. ASSUME NEW i \in Images
      PROVE  /\ file'[i] \in Versions /\ excuse'[i] \in Excuses /\ written'[i] \in Versions
             /\ Holders(i) = {} => written'[i] = written[i] /\ file'[i] = f[i]
             /\ Holders(i) # {} => written'[i] = Loaded(c(i)).data
             /\ \A u \in Units : Loaded(u).bound = i /\ excuse'[i] = "none" => Loaded(u).attached
             /\ Holders(i) = {} /\ excuse'[i] = "none" => e[i] = "none"
  <2>1. written \in [Images -> Versions]
    BY DEF IInv, TypeOK
  <2>2. Holders(i) # {} => c(i) \in Units /\ Loaded(c(i)).data \in Versions
    BY <1>4, <1>5
  <2>3. Holders(i) # {} => new[c(i)] \in Outcomes
    BY <2>2, AnswersAre
  <2>4. file'[i] = IF Holders(i) = {} THEN f[i]
                   ELSE CASE new[c(i)] = "saved" -> Loaded(c(i)).data
                          [] new[c(i)] = "notOpened" -> f[i]
                          [] new[c(i)] = "torn" -> Torn
    BY <1>1
  <2>5. excuse'[i] = IF \E u \in Units : Loaded(u).bound = i /\ ~Loaded(u).attached
                     THEN "failed"
                     ELSE IF Holders(i) = {} THEN e[i]
                     ELSE IF new[c(i)] = "saved" THEN "none" ELSE "failed"
    BY <1>1
  <2>6. written'[i] = IF Holders(i) = {} THEN written[i] ELSE Loaded(c(i)).data
    BY <1>1
  <2> HIDE DEF c, f, e
  <2>7. file'[i] \in Versions
    BY <1>3, <2>2, <2>3, <2>4 DEF Outcomes
  <2>8. excuse'[i] \in Excuses
    BY <1>3, <2>5 DEF Excuses
  <2> QED
    BY <2>1, <2>2, <2>4, <2>5, <2>6, <2>7, <2>8
<1>7. \A u \in Units : unit'[u] = Loaded(u)
  BY <1>2
<1>8. TypeOK'
  <2>1. file' \in [Images -> Versions] /\ excuse' \in [Images -> Excuses]
        /\ written' \in [Images -> Versions]
    BY <1>1, <1>6
  <2>2. unit' \in [Units -> UnitType] /\ config' \in [Units -> Paths]
    BY <1>2, LoadedIs DEF UnitType
  <2> QED
    BY <1>2, <2>1, <2>2 DEF IInv, TypeOK, Excuses
<1> HIDE DEF c, f, e
<1>9. Apart(unit)' /\ (snapshot # NoSnapshot => Apart(snapshot))'
  BY <1>2, <1>7, LoadedIs DEF IInv, Apart
<1>10. NoneIsEmpty'
  BY <1>2 DEF NoneIsEmpty
<1>11. \A u \in Units : Loaded(u).attached =>
           Loaded(u).bound # NoImage /\ Loaded(u).asset # NoImage
           /\ Loaded(u).report = Loaded(u).asset
  BY <1>2, LoadedIs DEF IInv, Apart
<1>12. InStep'
  <2> SUFFICES ASSUME NEW v \in Units,
                      Loaded(v).bound # NoImage, excuse'[Loaded(v).bound] = "none"
               PROVE  /\ Loaded(v).attached /\ Loaded(v).data = written'[Loaded(v).bound]
                      /\ Loaded(v).report # NoImage
    BY <1>7 DEF InStep, Held, Situation
  <2>1. Loaded(v).bound \in Images
    BY <1>5
  <2>2. Loaded(v).attached
    BY <1>6, <2>1
  <2>3. Loaded(v).report # NoImage
    BY <1>11, <2>2
  <2> QED
    BY <1>4, <1>6, <2>1, <2>2, <2>3
<1>13. Real'
  <2>1. ASSUME NEW u \in Units \ mistyped, Loaded(u).attached
        PROVE  /\ Loaded(u).report # NoImage /\ Loaded(u).bound = Loaded(u).report
               /\ Loaded(u).asset = Loaded(u).report /\ Loaded(u).data # Empty
    <3>1. Loaded(u).bound = Loaded(u).asset
      BY <1>2, <2>1, LoadedIs DEF IInv, Real
    <3> QED
      BY <1>5, <1>11, <2>1, <3>1
  <2> QED
    BY <1>2, <1>7, <2>1 DEF IInv, Real
<1>14. Reported'
  BY <1>2, <1>7, LoadedIs DEF Reported
<1>15. Durable'
  <2> SUFFICES ASSUME NEW i \in Images, ~InUse(i)', excuse'[i] = "none"
               PROVE  file'[i] = written'[i]
    BY DEF Durable
  <2>1. \A u \in Units : ~(Loaded(u).attached /\ Loaded(u).bound = i)
    BY <1>7 DEF InUse
  <2>2. \A u \in Units : Loaded(u).bound # i
    BY <1>6, <2>1
  <2>3. Holders(i) = {}
    BY <1>4, <2>2
  <2> QED
    BY <1>3, <1>6, <2>3
<1> QED
  BY <1>8, <1>9, <1>10, <1>12, <1>13, <1>14, <1>15 DEF IInv

-----------------------------------------------------------------------------
LEMMA StaysWell == IInv /\ [Next]_vars => IInv'
<1> SUFFICES ASSUME IInv, [Next]_vars PROVE IInv'
  OBVIOUS
<1>1. CASE PowerOn \/ PowerOff \/ Relaunch \/ Halt \/ SaveMachine \/ LoadMachine
  BY <1>1, PowerOnKeeps, PowerOffKeeps, RelaunchKeeps, HaltKeeps, SaveMachineKeeps,
     LoadMachineKeeps
<1>2. ASSUME NEW u \in Units, GuestWrite(u) PROVE IInv'
  BY <1>2, GuestWriteKeeps
<1>3. ASSUME NEW u \in Units, EjectSmartPortDisk(u) PROVE IInv'
  BY <1>3, EjectKeeps
<1>4. ASSUME NEW u \in Units, InsertWrongType(u) PROVE IInv'
  BY <1>4, InsertWrongTypeKeeps
<1>5. ASSUME NEW u \in Units, NEW i \in Images, InsertSmartPortDisk(u, i) PROVE IInv'
  BY <1>5, InsertKeeps
<1>6. CASE UNCHANGED vars
  BY <1>6 DEF vars, IInv, TypeOK, Apart, NoneIsEmpty, InStep, Held, Situation, Real, Reported,
              Durable, InUse
<1> QED
  BY <1>1, <1>2, <1>3, <1>4, <1>5, <1>6 DEF Next

(***************************************************************************)
(* The invariant the properties rest on: whatever the user inserts and     *)
(* ejects, and whichever saves and reads the host refuses, the bus, the    *)
(* disk objects, the assets and the reports stay as IInv has them.         *)
(***************************************************************************)
THEOREM Invariant == Spec => []IInv
BY StartsWell, StaysWell, PTL DEF Spec

(* All variables always have their types.                                  *)
THEOREM TypeCorrect == Spec => []TypeOK
<1>1. IInv => TypeOK
  BY DEF IInv
<1> QED
  BY <1>1, Invariant, PTL

(***************************************************************************)
(* No write of the guest to a hard disk is lost: what release(), bind()    *)
(* and the loading of a snapshot let go of is in its file, with the        *)
(* exceptions Durable names.                                               *)
(***************************************************************************)
THEOREM WritesAreDurable == Spec => []Durable
<1>1. IInv => Durable
  BY DEF IInv
<1> QED
  BY <1>1, Invariant, PTL

(***************************************************************************)
(* What the host reports of a unit is what the guest finds there.          *)
(***************************************************************************)
THEOREM ReportsAreTrue == Spec => []ReportedUnitIsReal
<1>1. IInv => ReportedUnitIsReal
  BY DEF IInv, Real, Reported, ReportedUnitIsReal
<1> QED
  BY <1>1, Invariant, PTL

-----------------------------------------------------------------------------
(* The card.  A call that has found the card idle is in it part by part,   *)
(* then fired; and as long as it is under way the drives but its own hold  *)
(* what was promised, and its own what was promised with as much of the    *)
(* call done to it as the card's state says.  A call that has found the    *)
(* card busy meets one that never writes: its leftover is a command that   *)
(* the card does not know, or a status call for a list of no bytes.  A     *)
(* call to a unit that the card lacks may do to a drive what it will: that *)
(* is not what was promised, and it does not end in one of the drives.     *)
Busy == card.state \in {"DMA_W", "DMA_R", "FORMAT"}
Listed == {"STATUS", "READ", "WRITE", "CONTROL"}

Stale ==
    /\ card.state = "SMARTPORT" /\ card.misc >= SMARTPORT_COMMAND_READY
    /\ card.cmd_num \in {"STATUS", "OTHER"}
    /\ card.cmd_num = "STATUS" => card.param_byte >= 2

Unasked == card.state = "SMARTPORT" /\ card.misc = 0     \* fired when idle

Reports == card.state = "DMA_W" /\ card.cmd_num = "STATUS"

(* How far the parts of a call have come.                                  *)
WrittenCommand(r, sent) ==
    /\ card.state = "COMMAND" /\ card.misc = sent /\ sent \in 0 .. 4
    /\ sent >= 1 => card.cmd_num = r.op
    /\ sent >= 2 => card.unit_num = r.unit
    /\ sent >= 4 => card.block_num = r.block

Complete(r) ==
    /\ card.misc = SMARTPORT_COMMAND_READY
    /\ card.cmd_num = r.op /\ card.unit_num = r.unit
    /\ r.op \in Listed => card.block_num = r.block /\ card.param_byte = 2

WrittenSmartport(r, sent) ==
    /\ card.state = "SMARTPORT"
    /\ sent < SMARTPORT_COMMAND_READY /\ card.misc = sent
    /\ sent >= 1 => card.cmd_num = r.op
    /\ sent = 2 => card.param_cnt = Card!Count(r)
    /\ sent >= 3 => /\ card.unit_num = r.unit /\ r.op \notin {"FORMAT", "INIT"}
                    /\ card.param_cnt = (IF r.op \in Listed THEN 5 - sent ELSE 3)
                    /\ r.op \in Listed => sent < 5
    /\ sent < 2 => card.param_cnt >= 1
    /\ card.param_byte = (IF sent >= 3 THEN sent - 3 ELSE 0)

Sending ==
    /\ firmware.call \in Calls
    /\ IF firmware.stray
       THEN card.state = "IDLE" \/ Stale \/ (Reports /\ firmware.sent = 0)
       ELSE IF firmware.call.mode = "COMMAND"
       THEN WrittenCommand(firmware.call, firmware.sent) /\ firmware.sent < 4
       ELSE WrittenSmartport(firmware.call, firmware.sent)

Firing ==
    /\ firmware.call \in Calls
    /\ IF firmware.stray THEN card.state = "IDLE" \/ Stale
       ELSE IF firmware.call.mode = "COMMAND" THEN WrittenCommand(firmware.call, 4)
       ELSE card.state = "SMARTPORT" /\ Complete(firmware.call)

Answerable(r) == r.op = "READ" /\ r.unit \in Card!Drives \union {0}

(* What a call that was fired has come to.                                 *)
Working(r) ==
    \/ /\ card.state = "IDLE" /\ card.misc \in {0, Card!Failed}
       /\ Answerable(r) /\ card.misc = 0 => due # Nothing /\ memory = due
    \/ Stale /\ r.op \in {"STATUS", "OTHER"}
    \/ /\ card.state = "DMA_W" /\ r.op = card.cmd_num /\ r.op \in {"STATUS", "READ"}
       /\ Answerable(r) => due # Nothing /\ card.block_data = due
    \/ /\ card.state = "DMA_R" /\ r.op = "WRITE"
       /\ card.unit_num = r.unit /\ r.unit # 0 /\ card.block_num = r.block
    \/ /\ card.state = "FORMAT" /\ r.op = "FORMAT"
       /\ card.unit_num = r.unit /\ card.block_data = Blank

Fired ==
    /\ firmware.call \in Calls
    /\ IF firmware.stray THEN card.state = "IDLE" \/ Stale \/ Unasked \/ Reports
       ELSE Working(firmware.call)

CardInPhase ==
    /\ firmware.phase = "idle" => card.state = "IDLE" \/ Stale \/ Unasked
    /\ firmware.phase = "command" => Sending
    /\ firmware.phase = "firing" => Firing
    /\ firmware.phase = "fired" => Fired

(* The disk of the drive d, with as much of the call r done as there is.   *)
PartDone(d, r) ==
    CASE card.state = "FORMAT" ->
            \A b \in Card!Blocks :
               hdd[d][b] = IF b < card.block_num THEN Blank ELSE promised[d][b]
      [] card.state = "IDLE" /\ card.misc # Card!Failed -> hdd[d] = Card!After(promised[d])
      [] OTHER -> hdd[d] = promised[d]

InCall(d) == firmware.phase = "fired" /\ ~firmware.stray /\ firmware.call.unit = d

DisksAsPromised ==
    \A d \in Card!Drives :
       /\ hdd[d] = Nothing <=> promised[d] = Nothing
       /\ ~InCall(d) => hdd[d] = promised[d]
       /\ InCall(d) /\ hdd[d] # Nothing =>
             IF d \in exchanged
             THEN \A b \in Card!Blocks : hdd[d][b] = promised[d][b] \/ Card!Doing(d, b)
             ELSE PartDone(d, firmware.call)

ReadsAnswered ==
    firmware.phase = "idle" /\ firmware.answer = "ok" /\ ~firmware.stray
       /\ Answerable(firmware.call) => due # Nothing /\ memory = due

CardInv == Card!TypeOK /\ CardInPhase /\ DisksAsPromised /\ ReadsAnswered

CardType == [state : Card!States, cmd_num : Card!Operations, unit_num : Card!Units,
             param_cnt : Nat, param_byte : Nat, block_num : Nat, outp_code : Card!Codes,
             misc : Nat, dma_offset : 0 .. DmaSize, block_data : Data]

DiskType == [Card!Blocks -> Data]
DrivesType == [Card!Drives -> DiskType \union {Nothing}]

CallType == [mode : {"COMMAND", "SMARTPORT"}, op : Card!Operations, code : Card!Codes,
             unit : Card!Units, block : Nat, data : Data]

LEMMA CardValues ==
    /\ BlockLimit \in Nat \ {0} /\ DmaSize \in Nat \ {0} /\ Blank \in Data
    /\ Calls \subseteq CallType /\ Disks \subseteq DiskType
    /\ 0 \in Card!Units /\ Card!Drives \subseteq Card!Units
    /\ PRODOS_COMMAND_READY = 4
    /\ SMARTPORT_COMMAND_READY \in Nat /\ SMARTPORT_COMMAND_READY >= 6
    /\ SMARTPORT_COMMAND_READY < Card!Failed /\ Card!Failed = 255
    /\ Nothing \notin Data /\ Nothing \notin Calls /\ Nothing \notin DiskType
BY CardFits DEF Card!CardAssumption, CallType, DiskType, Card!Failed, Card!Units, Card!Drives

LEMMA CardTypes ==
    ASSUME Card!TypeOK
    PROVE  /\ card \in CardType /\ hdd \in DrivesType /\ promised \in DrivesType
           /\ memory \in Data \union {Nothing} /\ due \in Data \union {Nothing}
           /\ exchanged \subseteq Card!Drives
           /\ firmware.phase \in {"idle", "command", "firing", "fired", "crashed"}
           /\ firmware.call \in Calls \union {Nothing} /\ firmware.sent \in Nat
           /\ firmware.stray \in BOOLEAN
BY DEF Card!TypeOK, CardType, DrivesType, DiskType

(* Steps that leave all of the card but the progress of a transfer.        *)
SameCard(c) ==
    /\ c \in CardType
    /\ c.state = card.state /\ c.cmd_num = card.cmd_num /\ c.unit_num = card.unit_num
    /\ c.param_cnt = card.param_cnt /\ c.param_byte = card.param_byte
    /\ c.block_num = card.block_num /\ c.misc = card.misc /\ c.block_data = card.block_data

LEMMA SameCardKeeps ==
    ASSUME CardInv, SameCard(card'),
           UNCHANGED <<hdd, memory, firmware, promised, due, exchanged>>
    PROVE  CardInv'
<1>1. Card!TypeOK'
  BY DEF CardInv, Card!TypeOK, SameCard, CardType
<1>2. Stale' = Stale /\ Unasked' = Unasked /\ Reports' = Reports
  BY DEF SameCard, Stale, Unasked, Reports
<1>3. CardInPhase'
  <2>1. Sending => Sending'
    BY <1>2 DEF SameCard, Sending, WrittenCommand, WrittenSmartport
  <2>2. Firing => Firing'
    BY <1>2 DEF SameCard, Firing, WrittenCommand, Complete
  <2>3. Fired => Fired'
    BY <1>2 DEF SameCard, Fired, Working
  <2> QED
    BY <1>2, <2>1, <2>2, <2>3 DEF SameCard, CardInv, CardInPhase
<1>4. DisksAsPromised'
  BY DEF CardInv, DisksAsPromised, InCall, PartDone, Card!Doing, Card!Asked, Card!After, SameCard
<1>5. ReadsAnswered'
  BY DEF CardInv, ReadsAnswered
<1> QED
  BY <1>1, <1>3, <1>4, <1>5 DEF CardInv

LEMMA DmaKeeps == ASSUME CardInv, Card!Dma PROVE CardInv'
<1>1. card \in CardType /\ DmaSize \in Nat
  BY CardTypes, CardValues DEF CardInv
<1>2. PICK n \in card.dma_offset + 1 .. DmaSize - 1 : card' = [card EXCEPT !.dma_offset = n]
  BY DEF Card!Dma
<1>3. n \in 0 .. DmaSize
  BY <1>1, <1>2 DEF CardType
<1>4. SameCard(card')
  BY <1>1, <1>2, <1>3 DEF SameCard, CardType
<1> QED
  BY <1>4, SameCardKeeps DEF Card!Dma

(* Where the card is in a transfer to the guest, or from it.               *)
LEMMA InTransfer ==
    ASSUME CardInv, Card!Running
    PROVE  /\ card.state = "DMA_W" =>
                 \/ firmware.phase = "command" /\ firmware.stray /\ Reports /\ firmware.sent = 0
                 \/ firmware.phase = "fired" /\ firmware.stray /\ Reports
                 \/ firmware.phase = "fired" /\ ~firmware.stray /\ Working(firmware.call)
           /\ card.state = "DMA_R" =>
                 firmware.phase = "fired" /\ ~firmware.stray /\ Working(firmware.call)
           /\ card.state = "FORMAT" =>
                 firmware.phase = "fired" /\ ~firmware.stray /\ Working(firmware.call)
<1>1. /\ firmware.phase \in {"idle", "command", "firing", "fired", "crashed"}
      /\ firmware.stray \in BOOLEAN
  BY CardTypes DEF CardInv
<1>2. CASE firmware.phase = "idle"
  BY <1>2 DEF CardInv, CardInPhase, Stale, Unasked
<1>3. CASE firmware.phase = "command"
  BY <1>3 DEF CardInv, CardInPhase, Sending, Stale, Reports, WrittenCommand, WrittenSmartport
<1>4. CASE firmware.phase = "firing"
  BY <1>4 DEF CardInv, CardInPhase, Firing, Stale, WrittenCommand
<1>5. CASE firmware.phase = "fired"
  BY <1>1, <1>5 DEF CardInv, CardInPhase, Fired, Stale, Unasked, Reports
<1> QED
  BY <1>1, <1>2, <1>3, <1>4, <1>5 DEF Card!Running

LEMMA DmaReadKeeps == ASSUME CardInv, Card!DmaRead PROVE CardInv'
<1>1. /\ card \in CardType /\ DmaSize \in Nat
      /\ memory \in Data \union {Nothing} /\ due \in Data \union {Nothing}
      /\ card.state = "DMA_W" /\ Card!Running
  BY CardTypes, CardValues DEF CardInv, Card!DmaRead
<1>2. /\ memory' = (IF card.cmd_num = "READ" THEN card.block_data ELSE memory)
      /\ card' = [Card!ok(card) EXCEPT !.dma_offset = DmaSize]
      /\ UNCHANGED <<hdd, firmware, promised, due, exchanged>>
  BY DEF Card!DmaRead
<1>3. /\ card' \in CardType /\ card'.state = "IDLE" /\ card'.misc = 0
      /\ memory' \in Data \union {Nothing}
  <2>1. card.block_data \in Data
    BY <1>1 DEF CardType
  <2>2. memory' \in Data \union {Nothing}
    BY <1>1, <1>2, <2>1
  <2>3. /\ DmaSize \in 0 .. DmaSize /\ 0 \in Nat
        /\ "IDLE" \in Card!States /\ "STATUS" \in Card!Operations
    BY <1>1 DEF Card!States, Card!Operations
  <2>4. card' \in CardType /\ card'.state = "IDLE" /\ card'.misc = 0
    BY <1>1, <1>2, <2>3 DEF Card!ok, CardType
  <2> QED
    BY <2>2, <2>4
<1>4. Card!TypeOK'
  BY <1>2, <1>3 DEF CardInv, Card!TypeOK, CardType
<1>5. /\ firmware.phase \in {"command", "fired"}
      /\ firmware.phase = "command" => firmware.stray
      /\ firmware.phase = "fired" /\ ~firmware.stray => Working(firmware.call)
  BY <1>1, InTransfer
<1>6. CardInPhase'
  <2>1. CASE firmware.phase = "command"
    BY <1>2, <1>3, <1>5, <2>1 DEF CardInv, CardInPhase, Sending
  <2>2. CASE firmware.phase = "fired"
    <3>1. firmware.call \in Calls
      BY <2>2 DEF CardInv, CardInPhase, Fired
    <3>2. CASE firmware.stray
      BY <1>2, <1>3, <2>2, <3>1, <3>2 DEF CardInPhase, Fired
    <3>3. CASE ~firmware.stray
      <4>1. Answerable(firmware.call) => due # Nothing /\ memory' = due
        BY <1>1, <1>2, <1>5, <2>2, <3>3 DEF Working, Stale, Answerable
      <4>2. Working(firmware.call)'
        BY <1>2, <1>3, <4>1 DEF Working, Answerable
      <4> QED
        BY <1>2, <2>2, <3>1, <3>3, <4>2 DEF CardInPhase, Fired
    <3> QED
      BY <3>2, <3>3
  <2> QED
    BY <1>5, <2>1, <2>2
<1>7. DisksAsPromised'
  <2>1. \A d \in Card!Drives : InCall(d)' = InCall(d) /\ \A b : Card!Doing(d, b)' = Card!Doing(d, b)
    BY <1>2 DEF InCall, Card!Doing, Card!Asked
  <2>2. ASSUME NEW d \in Card!Drives, InCall(d), hdd[d] # Nothing, PartDone(d, firmware.call)
        PROVE  PartDone(d, firmware.call)'
    <3>1. hdd[d] = promised[d]
      BY <1>1, <2>2 DEF PartDone
    <3>2. firmware.call.op \in {"STATUS", "READ"}
      BY <1>1, <1>5, <2>2 DEF InCall, Working, Stale
    <3> QED
      BY <1>2, <1>3, <3>1, <3>2, CardValues DEF PartDone, Card!After, Card!Asked
  <2> QED
    BY <1>2, <2>1, <2>2 DEF CardInv, DisksAsPromised
<1>8. ReadsAnswered'
  BY <1>2, <1>5 DEF ReadsAnswered
<1> QED
  BY <1>4, <1>6, <1>7, <1>8 DEF CardInv

Idle(c, misc) == c \in CardType /\ c.state = "IDLE" /\ c.misc = misc

LEMMA IdleCards ==
    ASSUME NEW c \in CardType
    PROVE  /\ Idle(Card!ok(c), 0) /\ Idle(Card!fail_idle(c), Card!Failed)
<1>1. 0 \in Nat /\ Card!Failed \in Nat /\ "IDLE" \in Card!States /\ "STATUS" \in Card!Operations
  BY CardValues DEF Card!States, Card!Operations
<1> QED
  BY <1>1 DEF Idle, CardType, Card!ok, Card!fail_idle

(* A call to a unit that the card does not have, at work on what passes    *)
(* for the disk of a drive, or on none.                                    *)
WrittenTo(d, b, data) ==
    /\ hdd' = [hdd EXCEPT ![d] = [hdd[d] EXCEPT ![b] = data]]
    /\ promised' = [promised EXCEPT ![d] = [hdd[d] EXCEPT ![b] = data]]

LEMMA Astray ==
    ASSUME CardInv, firmware.phase = "fired", ~firmware.stray, firmware.call \in Calls,
           firmware.call.unit \notin Card!Drives, card' \in CardType, Working(firmware.call)',
           NEW b, NEW data \in Data,
           \/ UNCHANGED <<hdd, promised>>
           \/ \E d \in Card!Drives : hdd[d] # Nothing /\ WrittenTo(d, b, data),
           UNCHANGED <<memory, firmware, due, exchanged>>
    PROVE  CardInv'
<1>1. hdd \in DrivesType /\ promised \in DrivesType
  BY CardTypes DEF CardInv
<1>2. \A x \in Card!Drives : hdd[x] = promised[x]
  BY DEF CardInv, DisksAsPromised, InCall
<1>3. hdd = promised
  BY <1>1, <1>2 DEF DrivesType
<1>4. hdd' = promised' /\ hdd' \in DrivesType
  <2>1. CASE UNCHANGED <<hdd, promised>>
    BY <1>1, <1>3, <2>1
  <2>2. ASSUME NEW d \in Card!Drives, hdd[d] # Nothing, WrittenTo(d, b, data)
        PROVE  hdd' = promised' /\ hdd' \in DrivesType
    <3>1. [hdd[d] EXCEPT ![b] = data] \in DiskType
      BY <1>1, <2>2 DEF DrivesType, DiskType
    <3> QED
      BY <1>1, <1>3, <2>2, <3>1 DEF WrittenTo, DrivesType
  <2> QED
    BY <2>1, <2>2
<1>5. Card!TypeOK'
  BY <1>4 DEF CardInv, Card!TypeOK, CardType, DrivesType, DiskType
<1>6. CardInPhase'
  BY DEF CardInPhase, Fired
<1>7. DisksAsPromised'
  BY <1>4 DEF DisksAsPromised, InCall
<1>8. ReadsAnswered'
  BY DEF ReadsAnswered
<1> QED
  BY <1>5, <1>6, <1>7, <1>8 DEF CardInv

Through(c, data) == [c EXCEPT !.dma_offset = DmaSize, !.block_data = data]

LEMMA DmaWriteTypes ==
    ASSUME card \in CardType, NEW data \in Data,
           NEW c \in {Card!ok(card), Card!fail_idle(card)}
    PROVE  /\ Through(c, data) \in CardType /\ Through(c, data).state = "IDLE"
           /\ Through(c, data).misc = c.misc
<1>1. c \in CardType /\ c.state = "IDLE"
  BY IdleCards DEF Idle
<1>2. DmaSize \in 0 .. DmaSize
  BY CardValues
<1> QED
  BY <1>1, <1>2 DEF CardType, Through

(* At the end of a write by a call to a unit that is none.                 *)
LEMMA DmaWriteAstray ==
    ASSUME CardInv, Card!DmaWrite, card.unit_num \notin Card!Drives PROVE CardInv'
<1> DEFINE r == firmware.call
<1>1. card \in CardType /\ Card!Running /\ card.state = "DMA_R"
  BY CardTypes DEF CardInv, Card!DmaWrite
<1>2. firmware.phase = "fired" /\ ~firmware.stray /\ Working(r)
  BY <1>1, InTransfer
<1>3. /\ r \in Calls /\ r \in CallType /\ r.op = "WRITE" /\ r.unit \notin Card!Drives
      /\ r.unit # 0 /\ r.data \in Data
  BY <1>1, <1>2, CardValues DEF Working, CardInv, CardInPhase, Fired, Stale, CallType
<1>4. PICK d \in Card!Reached(card) :
         LET commits == Card!Online(d) /\ card.block_num \in Card!Blocks
         IN  /\ IF commits THEN Card!Commits(d, card.block_num, r.data)
                ELSE UNCHANGED <<hdd, promised>>
             /\ card' = [(IF commits THEN Card!ok(card) ELSE Card!fail_idle(card))
                            EXCEPT !.dma_offset = DmaSize, !.block_data = r.data]
  BY Zenon DEF Card!DmaWrite
<1>5. UNCHANGED <<memory, firmware, due, exchanged>>
  BY DEF Card!DmaWrite
<1> DEFINE commits == Card!Online(d) /\ card.block_num \in Card!Blocks
<1>6. card' \in CardType /\ card'.state = "IDLE" /\ card'.misc \in {0, Card!Failed}
  <2>1. PICK c \in {Card!ok(card), Card!fail_idle(card)} :
           card' = Through(c, r.data)
    BY <1>4 DEF Through
  <2>2. c.misc \in {0, Card!Failed}
    BY <1>1, <2>1, IdleCards DEF Idle
  <2> QED
    BY <1>1, <1>3, <2>1, <2>2, DmaWriteTypes
<1>7. Working(r)'
  BY <1>3, <1>5, <1>6 DEF Working, Answerable
<1>8. \/ UNCHANGED <<hdd, promised>>
      \/ \E e \in Card!Drives : hdd[e] # Nothing /\ WrittenTo(e, card.block_num, r.data)
  <2>1. CASE ~commits
    BY <1>4, <2>1
  <2>2. CASE commits
    <3>1. d \in Card!Drives /\ hdd[d] # Nothing /\ d # card.unit_num
      BY <2>2 DEF Card!Online
    <3>2. Card!Commits(d, card.block_num, r.data)
      BY <1>4, <2>2
    <3>3. WrittenTo(d, card.block_num, r.data)
      BY <1>1, <3>1, <3>2, CardTypes DEF CardInv, Card!Commits, WrittenTo, DrivesType
    <3> QED
      BY <3>1, <3>3
  <2> QED
    BY <2>1, <2>2
<1> QED
  BY <1>2, <1>3, <1>5, <1>6, <1>7, <1>8, Astray

LEMMA DmaWriteToDrive ==
    ASSUME CardInv, Card!DmaWrite, card.unit_num \in Card!Drives PROVE CardInv'
<1> DEFINE commits == card.block_num \in Card!Blocks
           r == firmware.call
           d == card.unit_num
<1>reach. Card!Reached(card) = {d} /\ Card!Running
  BY DEF Card!Reached, Card!Beyond, Card!DmaWrite
<1>1. /\ card \in CardType /\ hdd \in DrivesType /\ promised \in DrivesType
      /\ memory \in Data \union {Nothing} /\ due \in Data \union {Nothing}
      /\ exchanged \subseteq Card!Drives
  BY CardTypes DEF CardInv
<1>2. /\ card.state = "DMA_R" /\ Card!Online(d)
      /\ hdd' = (IF commits THEN [hdd EXCEPT ![d][card.block_num] = r.data] ELSE hdd)
      /\ card' = [(IF commits THEN Card!ok(card) ELSE Card!fail_idle(card))
                     EXCEPT !.dma_offset = DmaSize, !.block_data = r.data]
      /\ UNCHANGED <<memory, firmware, promised, due, exchanged>>
  BY <1>reach DEF Card!DmaWrite, Card!Commits, Card!Beyond
<1>3. firmware.phase = "fired" /\ ~firmware.stray /\ Working(r)
  BY <1>reach, <1>2, InTransfer
<1>4. /\ r \in Calls /\ r.op = "WRITE" /\ d = r.unit /\ card.block_num = r.block
      /\ r \in CallType
  BY <1>2, <1>3, CardValues DEF Working, CardInv, CardInPhase, Fired, Stale
<1>5. /\ d \in Card!Drives /\ hdd[d] \in DiskType /\ hdd[d] # Nothing /\ r.data \in Data
      /\ r.block \in Nat
  BY <1>1, <1>2, <1>4 DEF Card!Online, DrivesType, CallType
<1> DEFINE disk == [hdd[d] EXCEPT ![r.block] = r.data]
<1>6. disk \in DiskType
  BY <1>5 DEF DiskType
<1>7. hdd' = IF commits THEN [hdd EXCEPT ![d] = disk] ELSE hdd
  BY <1>2, <1>4
<1>8. hdd' \in DrivesType
  BY <1>1, <1>6, <1>7 DEF DrivesType
<1>9. /\ card' \in CardType /\ card'.state = "IDLE"
      /\ card'.misc = (IF commits THEN 0 ELSE Card!Failed)
  <2>1. /\ DmaSize \in 0 .. DmaSize /\ 0 \in Nat /\ Card!Failed \in Nat
        /\ "IDLE" \in Card!States /\ "STATUS" \in Card!Operations
    BY CardValues DEF Card!States, Card!Operations
  <2>2. CASE commits
    BY <1>1, <1>2, <1>5, <2>1, <2>2 DEF Card!ok, CardType
  <2>3. CASE ~commits
    BY <1>1, <1>2, <1>5, <2>1, <2>3 DEF Card!fail_idle, CardType
  <2> QED
    BY <2>2, <2>3
<1> HIDE DEF disk
<1>10. Card!TypeOK'
  BY <1>2, <1>8, <1>9 DEF CardInv, Card!TypeOK, CardType, DrivesType, DiskType
<1>11. CardInPhase'
  <2>1. Working(r)'
    BY <1>2, <1>4, <1>9 DEF Working, Answerable
  <2> QED
    BY <1>2, <1>3, <1>4, <2>1 DEF CardInPhase, Fired
<1>12. DisksAsPromised'
  <2> SUFFICES ASSUME NEW x \in Card!Drives
               PROVE  /\ hdd'[x] = Nothing <=> promised'[x] = Nothing
                      /\ ~InCall(x)' => hdd'[x] = promised'[x]
                      /\ InCall(x)' /\ hdd'[x] # Nothing =>
                            IF x \in exchanged'
                            THEN \A b \in Card!Blocks :
                                    hdd'[x][b] = promised'[x][b] \/ Card!Doing(x, b)'
                            ELSE PartDone(x, firmware.call)'
    BY DEF DisksAsPromised
  <2>1. InCall(x)' = InCall(x) /\ (InCall(x) <=> x = d)
    BY <1>2, <1>3, <1>4 DEF InCall
  <2>2. CASE x # d
    <3>1. hdd'[x] = hdd[x] /\ promised'[x] = promised[x] /\ ~InCall(x)
      BY <1>1, <1>2, <1>7, <2>1, <2>2 DEF DrivesType
    <3> QED
      BY <2>1, <3>1 DEF CardInv, DisksAsPromised
  <2>3. CASE x = d
    <3>1. /\ promised'[x] = promised[x] /\ promised[x] # Nothing /\ exchanged' = exchanged
          /\ promised[x] \in DiskType
      BY <1>1, <1>2, <1>5, <2>3 DEF CardInv, DisksAsPromised, DrivesType
    <3>2. hdd'[x] = (IF commits THEN disk ELSE hdd[x]) /\ hdd'[x] # Nothing
      <4>1. disk # Nothing
        BY <1>6, <1>5, CardValues DEF disk
      <4> QED
        BY <1>1, <1>5, <1>7, <2>3, <4>1 DEF DrivesType
    <3>3. ASSUME x \in exchanged
          PROVE  \A b \in Card!Blocks : hdd'[x][b] = promised'[x][b] \/ Card!Doing(x, b)'
      <4>1. \A b \in Card!Blocks : hdd[x][b] = promised[x][b] \/ Card!Doing(x, b)
        BY <1>5, <2>1, <2>3, <3>3 DEF CardInv, DisksAsPromised
      <4>2. ASSUME NEW b \in Card!Blocks, hdd'[x][b] # hdd[x][b] PROVE Card!Doing(x, b)'
        <5>1. commits /\ b = r.block /\ hdd'[x][b] = r.data
          BY <1>5, <2>3, <3>2, <4>2 DEF disk, DiskType
        <5> QED
          BY <1>2, <1>3, <1>4, <2>3, <5>1 DEF Card!Doing, Card!Asked
      <4>3. ASSUME NEW b \in Card!Blocks, hdd'[x][b] = hdd[x][b]
            PROVE  hdd'[x][b] = promised'[x][b] \/ Card!Doing(x, b)'
        BY <1>2, <3>1, <4>1, <4>3 DEF Card!Doing, Card!Asked
      <4> QED
        BY <4>2, <4>3
    <3>4. ASSUME x \notin exchanged PROVE PartDone(x, firmware.call)'
      <4>1. hdd[x] = promised[x]
        <5>1. PartDone(x, r)
          BY <1>5, <2>1, <2>3, <3>4 DEF CardInv, DisksAsPromised
        <5> QED
          BY <1>2, <5>1 DEF PartDone
      <4>2. CASE commits
        <5>1. Card!After(promised[x])' = disk
          BY <1>2, <1>4, <2>3, <4>1 DEF Card!After, Card!Asked, disk
        <5>2. card'.state = "IDLE" /\ card'.misc # Card!Failed
          BY <1>9, <4>2, CardValues
        <5> QED
          BY <3>2, <4>2, <5>1, <5>2 DEF PartDone
      <4>3. CASE ~commits
        BY <1>9, <3>1, <3>2, <4>1, <4>3 DEF PartDone
      <4> QED
        BY <4>2, <4>3
    <3> QED
      BY <3>1, <3>2, <3>3, <3>4, <2>1, <2>3
  <2> QED
    BY <2>2, <2>3
<1>13. ReadsAnswered'
  BY <1>2, <1>3 DEF ReadsAnswered
<1> QED
  BY <1>10, <1>11, <1>12, <1>13 DEF CardInv

LEMMA DmaWriteKeeps == ASSUME CardInv, Card!DmaWrite PROVE CardInv'
BY DmaWriteToDrive, DmaWriteAstray

(* The program may end only where all the disks are as promised.           *)
LEMMA CrashKeeps ==
    ASSUME CardInv, Card!Crashes, \A d \in Card!Drives : hdd[d] = promised[d]
    PROVE  CardInv'
<1>1. /\ firmware' = [firmware EXCEPT !.phase = "crashed"]
      /\ UNCHANGED <<card, hdd, memory, promised, due, exchanged>>
  BY DEF Card!Crashes
<1>2. Card!TypeOK' /\ firmware'.phase = "crashed"
  BY <1>1 DEF CardInv, Card!TypeOK
<1>3. CardInPhase' /\ ReadsAnswered'
  BY <1>2 DEF CardInPhase, ReadsAnswered
<1>4. DisksAsPromised'
  BY <1>1, <1>2 DEF DisksAsPromised, InCall
<1> QED
  BY <1>2, <1>3, <1>4 DEF CardInv

LEMMA DmaCrashKeeps == ASSUME CardInv, Card!DmaCrash PROVE CardInv'
<1>1. /\ card.state = "DMA_R" /\ Card!Running /\ ~Card!Online(card.unit_num)
      /\ Card!Crashes
  BY DEF Card!DmaCrash
<1>2. firmware.phase = "fired" /\ ~firmware.stray /\ Working(firmware.call)
  BY <1>1, InTransfer
<1>3. ASSUME NEW d \in Card!Drives PROVE hdd[d] = promised[d]
  <2>1. CASE InCall(d)
    <3>1. d = card.unit_num
      BY <1>1, <1>2, <2>1 DEF Working, Stale, InCall
    <3>2. hdd[d] = Nothing
      BY <1>1, <3>1 DEF Card!Online
    <3> QED
      BY <3>2 DEF CardInv, DisksAsPromised
  <2>2. CASE ~InCall(d)
    BY <2>2 DEF CardInv, DisksAsPromised
  <2> QED
    BY <2>1, <2>2
<1> QED
  BY <1>1, <1>3, CrashKeeps

LEMMA StrayPointerKeeps == ASSUME CardInv, Card!StrayPointer PROVE CardInv'
<1>1. /\ card.unit_num \notin Card!Drives /\ Card!Crashes
      /\ firmware.phase = "firing" \/ (card.state = "FORMAT" /\ Card!Running)
  BY DEF Card!StrayPointer, Card!Beyond
<1>2. ASSUME NEW d \in Card!Drives PROVE ~InCall(d)
  <2>1. CASE firmware.phase = "firing"
    BY <2>1 DEF InCall
  <2>2. CASE card.state = "FORMAT" /\ Card!Running
    <3>1. Working(firmware.call)
      BY <2>2, InTransfer
    <3> QED
      BY <1>1, <2>2, <3>1 DEF Working, Stale, InCall
  <2> QED
    BY <1>1, <2>1, <2>2
<1>3. \A d \in Card!Drives : hdd[d] = promised[d]
  BY <1>2 DEF CardInv, DisksAsPromised
<1> QED
  BY <1>1, <1>3, CrashKeeps

LEMMA FormatAstray ==
    ASSUME CardInv, Card!FormatBlock, card.unit_num \notin Card!Drives PROVE CardInv'
<1> DEFINE r == firmware.call
           n == card.block_num
<1>1. card \in CardType /\ Card!Running /\ card.state = "FORMAT"
  BY CardTypes DEF CardInv, Card!FormatBlock
<1>2. firmware.phase = "fired" /\ ~firmware.stray /\ Working(r)
  BY <1>1, InTransfer
<1>3. /\ r \in Calls /\ r.op = "FORMAT" /\ r.unit = card.unit_num /\ card.block_data = Blank
      /\ n \in Nat /\ n + 1 \in Nat /\ Blank \in Data
  BY <1>1, <1>2, CardValues DEF Working, CardInv, CardInPhase, Fired, Stale, CardType
<1>4. UNCHANGED <<memory, firmware, due, exchanged>>
  BY DEF Card!FormatBlock
<1>5. PICK d \in Card!Reached(card) :
         CASE ~Card!Online(d) -> card' = Card!fail_idle(card) /\ UNCHANGED <<hdd, promised>>
           [] Card!Online(d) /\ n \in Card!Blocks ->
                 Card!Commits(d, n, card.block_data) /\ card' = [card EXCEPT !.block_num = @ + 1]
           [] OTHER -> card' = Card!ok(card) /\ UNCHANGED <<hdd, promised>>
  BY DEF Card!FormatBlock
<1>6. CASE Card!Online(d) /\ n \in Card!Blocks
  <2>1. Card!Commits(d, n, Blank) /\ card' = [card EXCEPT !.block_num = @ + 1]
    BY <1>3, <1>5, <1>6
  <2>2. d \in Card!Drives /\ hdd[d] # Nothing /\ d # card.unit_num
    BY <1>6 DEF Card!Online
  <2>3. WrittenTo(d, n, Blank)
    BY <2>1, <2>2, CardTypes DEF CardInv, Card!Commits, WrittenTo, DrivesType
  <2>4. /\ card' \in CardType /\ card'.state = "FORMAT" /\ card'.unit_num = r.unit
        /\ card'.block_data = Blank
    BY <1>1, <1>3, <2>1 DEF CardType
  <2>5. Working(r)'
    BY <1>3, <1>4, <2>4 DEF Working
  <2> QED
    BY <1>2, <1>3, <1>4, <2>2, <2>3, <2>4, <2>5, Astray
<1>7. CASE ~(Card!Online(d) /\ n \in Card!Blocks)
  <2>1. /\ card' \in {Card!ok(card), Card!fail_idle(card)}
        /\ UNCHANGED <<hdd, promised>>
    BY <1>5, <1>7
  <2>2. card' \in CardType /\ card'.state = "IDLE" /\ card'.misc \in {0, Card!Failed}
    BY <1>1, <2>1, IdleCards DEF Idle
  <2>3. Working(r)'
    BY <1>3, <1>4, <2>2 DEF Working, Answerable
  <2> QED
    BY <1>2, <1>3, <1>4, <2>1, <2>2, <2>3, Astray
<1> QED
  BY <1>6, <1>7

LEMMA FormatOfDrive ==
    ASSUME CardInv, Card!FormatBlock, card.unit_num \in Card!Drives PROVE CardInv'
<1> DEFINE r == firmware.call
           d == card.unit_num
           n == card.block_num
           formats == Card!Online(d) /\ n \in Card!Blocks
<1>reach. Card!Reached(card) = {d} /\ Card!Running
  BY DEF Card!Reached, Card!Beyond, Card!FormatBlock
<1>1. /\ card \in CardType /\ hdd \in DrivesType /\ promised \in DrivesType
  BY CardTypes DEF CardInv
<1>2. /\ card.state = "FORMAT"
      /\ UNCHANGED <<memory, firmware, promised, due, exchanged>>
      /\ hdd' = (IF formats THEN [hdd EXCEPT ![d][n] = card.block_data] ELSE hdd)
      /\ card' = (IF formats THEN [card EXCEPT !.block_num = @ + 1]
                  ELSE IF Card!Online(d) THEN Card!ok(card) ELSE Card!fail_idle(card))
  BY <1>reach DEF Card!FormatBlock, Card!Commits
<1>3. firmware.phase = "fired" /\ ~firmware.stray /\ Working(r)
  BY <1>reach, <1>2, InTransfer
<1>4. /\ r \in Calls /\ r.op = "FORMAT" /\ d = r.unit /\ card.block_data = Blank
      /\ r \in CallType
  BY <1>2, <1>3, CardValues DEF Working, CardInv, CardInPhase, Fired, Stale
<1>5. d \in Card!Drives /\ n \in Nat /\ Blank \in Data /\ (Card!Online(d) <=> hdd[d] # Nothing)
  BY <1>1, <1>4, CardValues DEF Card!Online, CallType, CardType
<1> DEFINE disk == [hdd[d] EXCEPT ![n] = Blank]
<1>6. hdd[d] # Nothing => hdd[d] \in DiskType /\ disk \in DiskType /\ disk # Nothing
  <2>1. hdd[d] # Nothing => hdd[d] \in DiskType
    BY <1>1, <1>5 DEF DrivesType
  <2>2. hdd[d] \in DiskType => disk \in DiskType
    BY <1>5 DEF DiskType
  <2> HIDE DEF disk
  <2> QED
    BY <2>1, <2>2, CardValues
<1>7. hdd' = IF formats THEN [hdd EXCEPT ![d] = disk] ELSE hdd
  BY <1>2, <1>4
<1>8. hdd' \in DrivesType
  BY <1>1, <1>5, <1>6, <1>7 DEF DrivesType
<1>9. card' \in CardType
  <2>1. /\ 0 \in Nat /\ Card!Failed \in Nat /\ n + 1 \in Nat
        /\ "IDLE" \in Card!States /\ "STATUS" \in Card!Operations
    BY <1>5, CardValues DEF Card!States, Card!Operations
  <2>2. CASE formats
    BY <1>1, <1>2, <2>1, <2>2 DEF CardType
  <2>3. CASE ~formats
    BY <1>1, <1>2, <2>1, <2>3 DEF Card!fail_idle, Card!ok, CardType
  <2> QED
    BY <2>2, <2>3
<1>10. /\ formats => /\ card'.state = "FORMAT" /\ card'.unit_num = d /\ card'.block_num = n + 1
                     /\ card'.block_data = Blank
       /\ ~formats => /\ card'.state = "IDLE"
                      /\ card'.misc = (IF Card!Online(d) THEN 0 ELSE Card!Failed)
  <2>1. CASE formats
    BY <1>1, <1>2, <1>4, <2>1 DEF CardType
  <2>2. CASE ~formats
    BY <1>1, <1>2, <2>2 DEF Card!fail_idle, Card!ok, CardType
  <2> QED
    BY <2>1, <2>2
<1> HIDE DEF disk
<1>11. Card!TypeOK'
  BY <1>2, <1>8, <1>9 DEF CardInv, Card!TypeOK, CardType, DrivesType, DiskType
<1>12. CardInPhase'
  <2>1. Working(r)'
    BY <1>2, <1>4, <1>10 DEF Working, Answerable
  <2> QED
    BY <1>2, <1>3, <1>4, <2>1 DEF CardInPhase, Fired
<1>13. DisksAsPromised'
  <2> SUFFICES ASSUME NEW x \in Card!Drives
               PROVE  /\ hdd'[x] = Nothing <=> promised'[x] = Nothing
                      /\ ~InCall(x)' => hdd'[x] = promised'[x]
                      /\ InCall(x)' /\ hdd'[x] # Nothing =>
                            IF x \in exchanged'
                            THEN \A b \in Card!Blocks :
                                    hdd'[x][b] = promised'[x][b] \/ Card!Doing(x, b)'
                            ELSE PartDone(x, firmware.call)'
    BY DEF DisksAsPromised
  <2>1. InCall(x)' = InCall(x) /\ (InCall(x) <=> x = d)
    BY <1>2, <1>3, <1>4 DEF InCall
  <2>2. CASE x # d
    <3>1. hdd'[x] = hdd[x] /\ promised'[x] = promised[x] /\ ~InCall(x)
      BY <1>1, <1>2, <1>7, <2>1, <2>2 DEF DrivesType
    <3> QED
      BY <2>1, <3>1 DEF CardInv, DisksAsPromised
  <2>3. CASE x = d /\ hdd[d] = Nothing
    BY <1>2, <1>5, <2>1, <2>3 DEF CardInv, DisksAsPromised
  <2>4. CASE x = d /\ hdd[d] # Nothing
    <3>1. /\ promised'[x] = promised[x] /\ promised[x] # Nothing /\ exchanged' = exchanged
          /\ promised[x] \in DiskType
      BY <1>1, <1>2, <1>5, <2>4 DEF CardInv, DisksAsPromised, DrivesType
    <3>2. hdd'[x] = (IF formats THEN disk ELSE hdd[x]) /\ hdd'[x] # Nothing /\ hdd[x] \in DiskType
      BY <1>1, <1>5, <1>6, <1>7, <2>4 DEF DrivesType
    <3>3. ASSUME x \in exchanged
          PROVE  \A b \in Card!Blocks : hdd'[x][b] = promised'[x][b] \/ Card!Doing(x, b)'
      <4>1. \A b \in Card!Blocks : hdd[x][b] = promised[x][b] \/ Card!Doing(x, b)
        BY <2>1, <2>4, <3>3 DEF CardInv, DisksAsPromised
      <4>2. ASSUME NEW b \in Card!Blocks, hdd'[x][b] # hdd[x][b] PROVE Card!Doing(x, b)'
        <5>1. hdd'[x][b] = Blank
          BY <1>5, <2>4, <3>2, <4>2 DEF disk, DiskType
        <5> QED
          BY <1>2, <1>3, <1>4, <2>4, <5>1 DEF Card!Doing, Card!Asked
      <4>3. ASSUME NEW b \in Card!Blocks, hdd'[x][b] = hdd[x][b]
            PROVE  hdd'[x][b] = promised'[x][b] \/ Card!Doing(x, b)'
        BY <1>2, <3>1, <4>1, <4>3 DEF Card!Doing, Card!Asked
      <4> QED
        BY <4>2, <4>3
    <3>4. ASSUME x \notin exchanged PROVE PartDone(x, firmware.call)'
      <4>1. \A b \in Card!Blocks : hdd[x][b] = IF b < n THEN Blank ELSE promised[x][b]
        <5>1. PartDone(x, r)
          BY <2>1, <2>4, <3>4 DEF CardInv, DisksAsPromised
        <5> QED
          BY <1>2, <5>1 DEF PartDone
      <4>2. CASE formats
        <5>1. ASSUME NEW b \in Card!Blocks
              PROVE  hdd'[x][b] = IF b < n + 1 THEN Blank ELSE promised[x][b]
          <6>1. b \in Nat /\ (b < n + 1 <=> b < n \/ b = n)
            BY <1>5, CardValues DEF Card!Blocks
          <6>2. hdd'[x][b] = IF b = n THEN Blank ELSE hdd[x][b]
            BY <2>4, <3>2, <4>2 DEF disk, DiskType
          <6> QED
            BY <4>1, <6>1, <6>2
        <5>2. \A b \in Card!Blocks :
                 hdd'[x][b] = IF b < card'.block_num THEN Blank ELSE promised'[x][b]
          BY <1>10, <3>1, <4>2, <5>1
        <5> QED
          BY <1>10, <4>2, <5>2 DEF PartDone
      <4>3. CASE ~formats
        <5>1. n \notin Card!Blocks /\ card'.state = "IDLE" /\ card'.misc # Card!Failed
          BY <1>5, <1>10, <2>4, <4>3, CardValues
        <5>2. \A b \in Card!Blocks : hdd[x][b] = Blank
          BY <1>5, <4>1, <5>1, CardValues DEF Card!Blocks
        <5>3. hdd[x] = [b \in Card!Blocks |-> Blank]
          BY <3>2, <5>2 DEF DiskType
        <5>4. Card!After(promised[x])' = [b \in Card!Blocks |-> Blank]
          BY <1>2, <1>4 DEF Card!After, Card!Asked
        <5> QED
          BY <3>1, <3>2, <4>3, <5>1, <5>3, <5>4, <1>2 DEF PartDone
      <4> QED
        BY <4>2, <4>3
    <3> QED
      BY <3>1, <3>2, <3>3, <3>4, <2>1, <2>4
  <2> QED
    BY <2>2, <2>3, <2>4
<1>14. ReadsAnswered'
  BY <1>2, <1>3 DEF ReadsAnswered
<1> QED
  BY <1>11, <1>12, <1>13, <1>14 DEF CardInv

LEMMA FormatBlockKeeps == ASSUME CardInv, Card!FormatBlock PROVE CardInv'
BY FormatOfDrive, FormatAstray

LEMMA CardReset ==
    ASSUME card \in CardType
    PROVE  /\ Card!io_reset(card) \in CardType /\ Card!io_reset(card).state = "IDLE"
<1>1. /\ 0 \in Nat /\ 0 \in 0 .. DmaSize /\ 0 \in Card!Units
      /\ "IDLE" \in Card!States /\ "STATUS" \in Card!Operations
  BY CardValues DEF Card!States, Card!Operations
<1> QED
  BY <1>1 DEF Card!io_reset, CardType

LEMMA CardResetKeeps == ASSUME CardInv, Card!Reset PROVE CardInv'
<1>1. card' \in CardType /\ card'.state = "IDLE" /\ firmware' = Card!Quiet
  BY CardTypes, CardReset DEF CardInv, Card!Reset
<1>2. promised' = hdd /\ memory' = Nothing /\ due' = Nothing /\ exchanged' = {} /\ hdd' = hdd
  BY DEF Card!Reset
<1>3. Card!TypeOK'
  BY <1>1, <1>2 DEF CardInv, Card!TypeOK, CardType, Card!Quiet
<1>4. firmware'.phase = "idle" /\ firmware'.answer = "none"
  BY <1>1 DEF Card!Quiet
<1> QED
  BY <1>1, <1>2, <1>3, <1>4 DEF CardInv, CardInPhase, DisksAsPromised, ReadsAnswered, InCall

LEMMA CardRelaunchKeeps == ASSUME CardInv, Card!Relaunch PROVE CardInv'
<1>1. card' \in CardType /\ card'.state = "IDLE" /\ firmware' = Card!Quiet
  BY CardTypes, CardReset DEF CardInv, Card!Relaunch
<1>2. /\ hdd' = [d \in Card!Drives |-> Nothing] /\ promised' = hdd'
      /\ memory' = Nothing /\ due' = Nothing /\ exchanged' = {}
  BY DEF Card!Relaunch
<1>3. hdd' \in DrivesType
  BY <1>2 DEF DrivesType
<1>4. Card!TypeOK'
  BY <1>1, <1>2, <1>3 DEF Card!TypeOK, CardType, Card!Quiet, DrivesType, DiskType
<1>5. firmware'.phase = "idle" /\ firmware'.answer = "none"
  BY <1>1 DEF Card!Quiet
<1> QED
  BY <1>1, <1>2, <1>4, <1>5 DEF CardInv, CardInPhase, DisksAsPromised, ReadsAnswered, InCall

LEMMA ExchangeKeeps ==
    ASSUME CardInv, NEW d \in Card!Drives, NEW disk \in DiskType \union {Nothing},
           Card!Exchange(d, disk)
    PROVE  CardInv'
<1>1. /\ firmware.phase # "crashed"
      /\ hdd' = [hdd EXCEPT ![d] = disk] /\ promised' = [promised EXCEPT ![d] = disk]
      /\ exchanged' = (IF firmware.phase = "fired" THEN exchanged \union {d} ELSE exchanged)
      /\ UNCHANGED <<card, memory, firmware, due>>
  BY DEF Card!Exchange
<1>2. hdd \in DrivesType /\ promised \in DrivesType /\ exchanged \subseteq Card!Drives
  BY CardTypes DEF CardInv
<1>3. hdd' \in DrivesType /\ promised' \in DrivesType /\ exchanged' \subseteq Card!Drives
  BY <1>1, <1>2 DEF DrivesType
<1>4. Card!TypeOK'
  BY <1>1, <1>3 DEF CardInv, Card!TypeOK, DrivesType, DiskType
<1>5. CardInPhase'
  BY <1>1 DEF CardInv, CardInPhase, Sending, Firing, Fired, Stale, Unasked, Reports, Working,
              WrittenCommand, WrittenSmartport, Complete
<1>6. DisksAsPromised'
  <2> SUFFICES ASSUME NEW x \in Card!Drives
               PROVE  /\ hdd'[x] = Nothing <=> promised'[x] = Nothing
                      /\ ~InCall(x)' => hdd'[x] = promised'[x]
                      /\ InCall(x)' /\ hdd'[x] # Nothing =>
                            IF x \in exchanged'
                            THEN \A b \in Card!Blocks :
                                    hdd'[x][b] = promised'[x][b] \/ Card!Doing(x, b)'
                            ELSE PartDone(x, firmware.call)'
    BY DEF DisksAsPromised
  <2>1. InCall(x)' = InCall(x)
    BY <1>1 DEF InCall
  <2>2. CASE x = d
    BY <1>1, <1>2, <2>1, <2>2 DEF DrivesType, InCall
  <2>3. CASE x # d
    <3>1. hdd'[x] = hdd[x] /\ promised'[x] = promised[x] /\ (x \in exchanged' <=> x \in exchanged)
      BY <1>1, <1>2, <2>3 DEF DrivesType
    <3>2. PartDone(x, firmware.call)' <=> PartDone(x, firmware.call)
      BY <1>1, <3>1 DEF PartDone, Card!After, Card!Asked
    <3>3. \A b \in Card!Blocks : Card!Doing(x, b)' <=> Card!Doing(x, b)
      BY <1>1, <3>1 DEF Card!Doing, Card!Asked
    <3> QED
      BY <2>1, <3>1, <3>2, <3>3 DEF CardInv, DisksAsPromised
  <2> QED
    BY <2>2, <2>3
<1>7. ReadsAnswered'
  BY <1>1 DEF CardInv, ReadsAnswered
<1> QED
  BY <1>4, <1>5, <1>6, <1>7 DEF CardInv

(* A call that ends has been done as a whole, or not at all.               *)
LEMMA CardReturnKeeps == ASSUME CardInv, Card!Return PROVE CardInv'
<1> DEFINE r == firmware.call
           Owed(d) == IF d # r.unit \/ promised[d] = Nothing THEN promised[d]
                      ELSE IF firmware.stray \/ d \in exchanged THEN hdd[d]
                      ELSE IF Card!Error(card) THEN promised[d] ELSE Card!After(promised[d])
<1>1. /\ card \in CardType /\ hdd \in DrivesType /\ promised \in DrivesType
      /\ memory \in Data \union {Nothing} /\ due \in Data \union {Nothing}
      /\ firmware.stray \in BOOLEAN
  BY CardTypes DEF CardInv
<1>2. /\ firmware.phase = "fired" /\ ~Card!InProgress(card)
      /\ firmware' = [firmware EXCEPT !.phase = "idle",
                                      !.answer = IF Card!Error(card) THEN "error" ELSE "ok"]
      /\ promised' = [d \in Card!Drives |-> Owed(d)]
      /\ UNCHANGED <<card, hdd, memory, due, exchanged>>
  BY Zenon DEF Card!Return, Card!Asked
<1> HIDE DEF Owed
<1>3. /\ firmware'.phase = "idle" /\ firmware'.call = r /\ firmware'.stray = firmware.stray
      /\ firmware'.answer = (IF Card!Error(card) THEN "error" ELSE "ok")
      /\ firmware' \in [phase : {"idle", "command", "firing", "fired", "crashed"},
                        call : Calls \union {Nothing}, sent : Nat, stray : BOOLEAN,
                        answer : {"none", "ok", "error"}]
  BY <1>2 DEF CardInv, Card!TypeOK
<1>4. Fired
  BY <1>2 DEF CardInv, CardInPhase
<1>5. card.state \notin {"DMA_W", "DMA_R", "FORMAT"}
  BY <1>2 DEF Card!InProgress
<1>6. ASSUME NEW d \in Card!Drives PROVE Owed(d) = hdd[d]
  <2>1. CASE hdd[d] = Nothing
    <3>1. promised[d] = Nothing
      BY <2>1 DEF CardInv, DisksAsPromised
    <3> QED
      BY <2>1, <3>1 DEF Owed
  <2>2. CASE hdd[d] # Nothing /\ ~InCall(d)
    BY <1>2, <2>2 DEF CardInv, DisksAsPromised, InCall, Owed
  <2>3. CASE hdd[d] # Nothing /\ InCall(d) /\ d \in exchanged
    BY <2>3 DEF CardInv, DisksAsPromised, InCall, Owed
  <2>4. CASE hdd[d] # Nothing /\ InCall(d) /\ d \notin exchanged
    <3>1. PartDone(d, r) /\ promised[d] # Nothing /\ d = r.unit /\ ~firmware.stray
      BY <2>4 DEF CardInv, DisksAsPromised, InCall
    <3>2. Owed(d) = IF Card!Error(card) THEN promised[d] ELSE Card!After(promised[d])
      BY <2>4, <3>1 DEF Owed
    <3>3. Working(r)
      BY <1>4, <3>1 DEF Fired
    <3>4. CASE card.state = "IDLE"
      BY <3>1, <3>2, <3>4 DEF PartDone, Card!Error
    <3>5. CASE card.state # "IDLE"
      <4>1. Stale /\ r.op \in {"STATUS", "OTHER"}
        BY <1>5, <3>3, <3>5 DEF Working
      <4>2. Owed(d) = promised[d]
        BY <3>2, <4>1 DEF Card!After, Card!Asked
      <4>3. hdd[d] = promised[d]
        BY <3>1, <3>5, <4>1 DEF PartDone, Stale
      <4> QED
        BY <4>2, <4>3
    <3> QED
      BY <3>4, <3>5
  <2> QED
    BY <2>1, <2>2, <2>3, <2>4
<1>7. promised' = hdd
  BY <1>1, <1>2, <1>6 DEF DrivesType
<1>8. Card!TypeOK'
  BY <1>1, <1>2, <1>3, <1>7 DEF CardInv, Card!TypeOK
<1>9. CardInPhase'
  <2>1. card.state = "IDLE" \/ Stale \/ Unasked
    BY <1>1, <1>4, <1>5 DEF Fired, Working, Reports
  <2> QED
    BY <1>2, <1>3, <2>1 DEF CardInPhase, Stale, Unasked
<1>10. DisksAsPromised'
  BY <1>2, <1>3, <1>7 DEF DisksAsPromised, InCall
<1>11. ReadsAnswered'
  <2> SUFFICES ASSUME ~Card!Error(card), ~firmware.stray, Answerable(r)
               PROVE  due # Nothing /\ memory = due
    BY <1>2, <1>3 DEF ReadsAnswered
  <2>1. Working(r)
    BY <1>4 DEF Fired
  <2> QED
    BY <1>5, <2>1 DEF Working, Card!Error, Answerable
<1> QED
  BY <1>8, <1>9, <1>10, <1>11 DEF CardInv
-----------------------------------------------------------------------------
(* What a write to IO_CONTROL makes of the card.                           *)
Begun(c, mode) ==
    /\ c \in CardType /\ c.state = mode /\ c.misc = 0 /\ c.cmd_num = "STATUS"
    /\ c.param_cnt = 255 /\ c.param_byte = 0

Kept(c) ==
    /\ c.cmd_num = card.cmd_num /\ c.unit_num = card.unit_num /\ c.misc = card.misc
    /\ c.param_byte = card.param_byte

Begin(c, s, o, k) == [c EXCEPT !.state = s, !.cmd_num = o, !.unit_num = 0, !.param_cnt = k,
                               !.param_byte = 0, !.misc = 0]

LEMMA BeginsCard ==
    ASSUME NEW c \in CardType, NEW s \in Card!States, NEW o \in Card!Operations, NEW k \in Nat
    PROVE  LET b == Begin(c, s, o, k)
           IN  /\ b \in CardType /\ b.state = s /\ b.misc = 0 /\ b.cmd_num = o
               /\ b.param_cnt = k /\ b.param_byte = 0
<1>1. Begin(c, s, o, k) \in CardType
  BY CardValues DEF CardType, Begin
<1>2. /\ Begin(c, s, o, k).state = s /\ Begin(c, s, o, k).misc = 0
      /\ Begin(c, s, o, k).cmd_num = o /\ Begin(c, s, o, k).param_cnt = k
      /\ Begin(c, s, o, k).param_byte = 0
  BY DEF CardType, Begin
<1> QED
  BY <1>1, <1>2

LEMMA ControlIdle ==
    ASSUME card \in CardType, card.state = "IDLE", NEW mode \in {"COMMAND", "SMARTPORT"},
           NEW d
    PROVE  Begun(Card!write_control(card, mode, d), mode)
<1>1. mode \in Card!States /\ "STATUS" \in Card!Operations /\ 255 \in Nat
  BY DEF Card!States, Card!Operations
<1>2. Card!write_control(card, mode, d) = Begin(card, mode, "STATUS", 255)
  BY DEF Card!write_control, Begin
<1> QED
  BY <1>1, <1>2, BeginsCard DEF Begun

LEMMA Transfers ==
    ASSUME card \in CardType, NEW s \in Card!States
    PROVE  LET c == Card!Transfer(card, s)
           IN  c \in CardType /\ c.state = s /\ Kept(c) /\ c.block_num = card.block_num
<1>1. 0 \in 0 .. DmaSize
  BY CardValues
<1> QED
  BY <1>1 DEF CardType, Card!Transfer, Kept

(* Of a status call that is stale.                                         *)
LEMMA ControlStale ==
    ASSUME card \in CardType, Stale, NEW mode, NEW d
    PROVE  LET c == Card!write_control(card, mode, d)
           IN  \/ Idle(c, Card!Failed)
               \/ c \in CardType /\ c.state = "DMA_W" /\ c.cmd_num = "STATUS"
               \/ c \in CardType /\ c.state = "SMARTPORT" /\ Kept(c)
<1> DEFINE c == Card!write_control(card, mode, d)
<1>1. c = Card!smartport(card, d)
  <2>1. card.misc >= SMARTPORT_COMMAND_READY /\ card.state = "SMARTPORT"
    BY DEF Stale
  <2> QED
    BY <2>1, Zenon DEF Card!write_control
<1>2. CASE card.cmd_num = "OTHER"
  <2>1. c = card
    BY <1>1, <1>2 DEF Card!smartport
  <2> QED
    BY <2>1 DEF Kept, Stale
<1>3. CASE card.cmd_num = "STATUS"
  <2>1. c = Card!smartport_status(card)
    BY <1>1, <1>3 DEF Card!smartport
  <2>2. /\ Idle(Card!fail_idle(card), Card!Failed)
        /\ Card!Transfer(card, "DMA_W") \in CardType
        /\ Card!Transfer(card, "DMA_W").state = "DMA_W"
        /\ Card!Transfer(card, "DMA_W").cmd_num = "STATUS"
    BY <1>3, IdleCards, Transfers DEF Card!States, Kept
  <2>3. LET s == [card EXCEPT !.dma_offset = 0]
        IN  s \in CardType /\ s.state = "SMARTPORT" /\ Kept(s)
    <3>1. 0 \in 0 .. DmaSize
      BY CardValues
    <3> QED
      BY <3>1 DEF CardType, Kept, Stale
  <2>4. \/ c = Card!fail_idle(card) \/ c = Card!Transfer(card, "DMA_W")
        \/ c = [card EXCEPT !.dma_offset = 0]
    BY <2>1 DEF Card!smartport_status
  <2> HIDE DEF c
  <2>5. \/ Idle(c, Card!Failed)
        \/ c \in CardType /\ c.state = "DMA_W" /\ c.cmd_num = "STATUS"
        \/ c \in CardType /\ c.state = "SMARTPORT" /\ Kept(c)
    BY <2>2, <2>3, <2>4
  <2> QED
    BY <2>5 DEF c
<1> QED
  BY <1>2, <1>3 DEF Stale

(* Without a call under way, before and after.                             *)
LEMMA DisksStay ==
    ASSUME DisksAsPromised, firmware.phase # "fired", UNCHANGED <<hdd, promised>>,
           firmware'.phase # "fired" \/ firmware'.stray
    PROVE  DisksAsPromised'
BY DEF DisksAsPromised, InCall

StartedAs(r, stray) == [phase |-> "command", call |-> r, sent |-> 0, answer |-> "none",
                        stray |-> stray]

LEMMA CardStartKeeps == ASSUME CardInv, NEW r \in Calls, Card!Start(r) PROVE CardInv'
<1>1. /\ card \in CardType /\ hdd \in DrivesType /\ promised \in DrivesType
      /\ exchanged \subseteq Card!Drives
  BY CardTypes DEF CardInv
<1>drive. PICK d \in Card!Reached(card) : card' = Card!write_control(card, r.mode, d)
  BY Zenon DEF Card!Start
<1>2. /\ firmware.phase = "idle" /\ card' = Card!write_control(card, r.mode, d)
      /\ firmware' = StartedAs(r, card.state # "IDLE")
      /\ memory' = Nothing /\ due' = Nothing
      /\ UNCHANGED <<hdd, promised, exchanged>>
  BY <1>drive, Zenon DEF Card!Start, StartedAs
<1>3. r.mode \in {"COMMAND", "SMARTPORT"}
  BY CardValues DEF CallType
<1>4. /\ firmware'.phase = "command" /\ firmware'.call = r /\ firmware'.sent = 0
      /\ firmware'.answer = "none" /\ (firmware'.stray <=> card.state # "IDLE")
      /\ firmware' \in [phase : {"idle", "command", "firing", "fired", "crashed"},
                        call : Calls \union {Nothing}, sent : Nat, stray : BOOLEAN,
                        answer : {"none", "ok", "error"}]
  BY <1>2 DEF StartedAs
<1>5. card.state = "IDLE" \/ Stale \/ Unasked
  BY <1>2 DEF CardInv, CardInPhase
<1>6. card' \in CardType /\ Sending'
  <2>1. CASE card.state = "IDLE"
    <3>1. Begun(card', r.mode)
      BY <1>1, <1>2, <1>3, <2>1, ControlIdle
    <3>2. r.mode = "COMMAND" => WrittenCommand(r, 0)'
      BY <3>1 DEF Begun, WrittenCommand
    <3>3. r.mode = "SMARTPORT" => WrittenSmartport(r, 0)'
      BY <3>1, CardValues DEF Begun, WrittenSmartport
    <3>4. ~firmware'.stray
      BY <1>4, <2>1
    <3>5. card' \in CardType
      BY <3>1 DEF Begun
    <3> QED
      BY <1>3, <1>4, <3>2, <3>3, <3>4, <3>5 DEF Sending, WrittenCommand
  <2>2. CASE Stale
    <3>1. \/ Idle(card', Card!Failed)
          \/ card' \in CardType /\ card'.state = "DMA_W" /\ card'.cmd_num = "STATUS"
          \/ card' \in CardType /\ card'.state = "SMARTPORT" /\ Kept(card')
      BY <1>1, <1>2, <2>2, ControlStale
    <3>2. firmware'.stray
      BY <1>4, <2>2 DEF Stale
    <3>3. card' \in CardType /\ (card'.state = "IDLE" \/ Reports' \/ Stale')
      BY <2>2, <3>1 DEF Idle, Reports, Stale, Kept
    <3> QED
      BY <1>4, <3>2, <3>3 DEF Sending
  <2>3. CASE Unasked
    <3>1. card' = Card!fail_idle(card)
      BY <1>2, <2>3, CardValues DEF Unasked, Card!write_control
    <3>2. Idle(card', Card!Failed)
      BY <1>1, <3>1, IdleCards
    <3>3. firmware'.stray
      BY <1>4, <2>3 DEF Unasked
    <3> QED
      BY <1>4, <3>2, <3>3 DEF Sending, Idle
  <2> QED
    BY <1>5, <2>1, <2>2, <2>3
<1>7. Card!TypeOK'
  BY <1>2, <1>4, <1>6 DEF CardInv, Card!TypeOK, CardType
<1>8. CardInPhase'
  BY <1>4, <1>6 DEF CardInPhase
<1>9. DisksAsPromised'
  BY <1>2, <1>4, DisksStay DEF CardInv
<1>10. ReadsAnswered'
  BY <1>4 DEF ReadsAnswered
<1> QED
  BY <1>7, <1>8, <1>9, <1>10 DEF CardInv
-----------------------------------------------------------------------------
(* The parts of a call.                                                    *)
LEMMA ProdosPart ==
    ASSUME NEW c \in CardType, NEW r \in CallType
    PROVE  LET p == Card!prodos_part(c, r)
           IN  /\ p \in CardType /\ p.state = c.state /\ p.misc = c.misc + 1
               /\ p.cmd_num = (IF c.misc = 0 THEN r.op ELSE c.cmd_num)
               /\ p.unit_num = (IF c.misc = 1 THEN r.unit ELSE c.unit_num)
               /\ p.block_num = (IF c.misc = 3 THEN r.block ELSE c.block_num)
<1>1. /\ r.op \in Card!Operations /\ r.unit \in Card!Units /\ r.block \in Nat
      /\ c.misc \in Nat /\ c.misc + 1 \in Nat
  BY DEF CallType, CardType
<1>2. Card!prodos_part(c, r) =
         [c EXCEPT !.cmd_num = IF c.misc = 0 THEN r.op ELSE @,
                   !.unit_num = IF c.misc = 1 THEN r.unit ELSE @,
                   !.block_num = IF c.misc = 3 THEN r.block ELSE @,
                   !.misc = @ + 1]
  BY DEF Card!prodos_part
<1>3. Card!prodos_part(c, r) \in CardType
  BY <1>1, <1>2 DEF CardType
<1>4. LET p == Card!prodos_part(c, r)
      IN  /\ p.state = c.state /\ p.misc = c.misc + 1
          /\ p.cmd_num = (IF c.misc = 0 THEN r.op ELSE c.cmd_num)
          /\ p.unit_num = (IF c.misc = 1 THEN r.unit ELSE c.unit_num)
          /\ p.block_num = (IF c.misc = 3 THEN r.block ELSE c.block_num)
  BY <1>1, <1>2 DEF CardType
<1> QED
  BY <1>3, <1>4

HasListOf(c) == c.cmd_num \in Listed

LEMMA SetupPart ==
    ASSUME NEW c \in CardType, NEW r \in CallType,
           HasListOf(c) /\ c.param_byte < 2 => c.param_cnt >= 1
    PROVE  LET p == Card!setup_smartport(c, r)
           IN  /\ p \in CardType /\ p.state = c.state /\ p.misc = c.misc
               /\ p.cmd_num = c.cmd_num /\ p.unit_num = c.unit_num
               /\ p.param_byte = c.param_byte + 1
               /\ p.param_cnt = (IF HasListOf(c) /\ c.param_byte < 2 THEN c.param_cnt - 1
                                 ELSE c.param_cnt)
               /\ HasListOf(c) /\ c.param_byte = 1 => p.block_num = r.block
<1> DEFINE is(n) == HasListOf(c) /\ c.param_byte = n
           p == Card!setup_smartport(c, r)
<1>1. /\ r.code \in Card!Codes /\ r.block \in Nat
      /\ c.param_byte \in Nat /\ c.param_cnt \in Nat /\ c.param_byte + 1 \in Nat
      /\ (is(0) \/ is(1) <=> HasListOf(c) /\ c.param_byte < 2)
      /\ (is(0) \/ is(1) => c.param_cnt - 1 \in Nat)
  BY DEF CallType, CardType
<1>2. p = [c EXCEPT !.outp_code = IF is(1) THEN r.code ELSE @,
                    !.block_num = IF is(1) THEN r.block ELSE @,
                    !.param_cnt = IF is(0) \/ is(1) THEN @ - 1 ELSE @,
                    !.param_byte = @ + 1]
  BY DEF Card!setup_smartport, Card!HasList, HasListOf, Listed
<1> HIDE DEF is, p
<1>3. p \in CardType
  BY <1>1, <1>2 DEF CardType
<1>4. /\ p.state = c.state /\ p.misc = c.misc
      /\ p.cmd_num = c.cmd_num /\ p.unit_num = c.unit_num
      /\ p.param_byte = c.param_byte + 1
      /\ p.param_cnt = (IF is(0) \/ is(1) THEN c.param_cnt - 1 ELSE c.param_cnt)
      /\ is(1) => p.block_num = r.block
  BY <1>1, <1>2 DEF CardType
<1>5. /\ p.param_cnt = (IF HasListOf(c) /\ c.param_byte < 2 THEN c.param_cnt - 1
                        ELSE c.param_cnt)
      /\ HasListOf(c) /\ c.param_byte = 1 => p.block_num = r.block
  BY <1>1, <1>4 DEF is
<1> QED
  BY <1>3, <1>4, <1>5 DEF p

(* A part of a SmartPort call is taken, and the card asks for another or   *)
(* has all of them.                                                        *)
Counted(c) == [c EXCEPT !.misc = IF c.param_cnt > 0 THEN @ + 1 ELSE SMARTPORT_COMMAND_READY]

LEMMA CountedPart ==
    ASSUME NEW c \in CardType
    PROVE  /\ Counted(c) \in CardType /\ Counted(c).state = c.state
           /\ Counted(c).cmd_num = c.cmd_num /\ Counted(c).unit_num = c.unit_num
           /\ Counted(c).param_byte = c.param_byte /\ Counted(c).param_cnt = c.param_cnt
           /\ Counted(c).block_num = c.block_num
           /\ Counted(c).misc = (IF c.param_cnt > 0 THEN c.misc + 1 ELSE SMARTPORT_COMMAND_READY)
<1>1. c.misc + 1 \in Nat /\ SMARTPORT_COMMAND_READY \in Nat
  BY CardValues DEF CardType
<1>2. Counted(c) \in CardType
  BY <1>1 DEF CardType, Counted
<1>3. /\ Counted(c).state = c.state
      /\ Counted(c).cmd_num = c.cmd_num /\ Counted(c).unit_num = c.unit_num
      /\ Counted(c).param_byte = c.param_byte /\ Counted(c).param_cnt = c.param_cnt
      /\ Counted(c).block_num = c.block_num
      /\ Counted(c).misc = (IF c.param_cnt > 0 THEN c.misc + 1 ELSE SMARTPORT_COMMAND_READY)
  BY <1>1 DEF CardType, Counted
<1> QED
  BY <1>2, <1>3

WithCommand(c, r) == [c EXCEPT !.cmd_num = r.op]
WithCount(c, r) == [c EXCEPT !.param_cnt = Card!Count(r)]
WithUnit(c, r) == [c EXCEPT !.unit_num = r.unit, !.param_cnt = @ - 1]

LEMMA SmartportPart ==
    ASSUME NEW c \in CardType, NEW r \in CallType
    PROVE  LET p == Card!smartport_part(c, r)
           IN  /\ c.misc = 0 => p = Counted(WithCommand(c, r))
               /\ c.misc = 1 => p = Counted(WithCount(c, r))
               /\ c.misc = 2 => p = Counted(WithUnit(c, r))
               /\ c.misc > 2 => p = Counted(Card!setup_smartport(c, r))
<1>1. c.misc \in Nat
  BY DEF CardType
<1> DEFINE taken == CASE c.misc = 0 -> WithCommand(c, r)
                      [] c.misc = 1 -> WithCount(c, r)
                      [] c.misc = 2 -> WithUnit(c, r)
                      [] OTHER -> Card!setup_smartport(c, r)
<1>2. Card!smartport_part(c, r) = Counted(taken)
  BY Zenon DEF Card!smartport_part, Counted, WithCommand, WithCount, WithUnit
<1>3. /\ c.misc = 0 => taken = WithCommand(c, r)
      /\ c.misc = 1 => taken = WithCount(c, r)
      /\ c.misc = 2 => taken = WithUnit(c, r)
      /\ c.misc > 2 => taken = Card!setup_smartport(c, r)
  BY <1>1
<1> HIDE DEF taken
<1> QED
  BY <1>2, <1>3

InCommand(r, sent) ==
    IF r.mode = "COMMAND" THEN sent = 4 ELSE sent > 1 /\ ~Card!InProgress(card')

(* What a part makes of a card that has been written to from the start.    *)
LEMMA SendSmartport ==
    ASSUME card \in CardType, NEW r \in CallType, r.mode = "SMARTPORT",
           NEW sent \in Nat, WrittenSmartport(r, sent),
           card' = Card!smartport_part(card, r)
    PROVE  /\ card' \in CardType
           /\ IF InCommand(r, sent + 1) THEN card'.state = "SMARTPORT" /\ Complete(r)'
              ELSE WrittenSmartport(r, sent + 1)'
<1> DEFINE end == SMARTPORT_COMMAND_READY
<1>1. /\ card.state = "SMARTPORT" /\ card.misc = sent /\ sent < end
      /\ end \in Nat /\ end >= 6 /\ card.param_cnt \in Nat /\ card.param_byte \in Nat
      /\ r.op \in Card!Operations /\ r.unit \in Card!Units
  BY CardValues DEF WrittenSmartport, CardType, CallType
<1>2. card'.state = "SMARTPORT" /\ card'.misc \in Nat =>
         (Card!InProgress(card') <=> card'.misc >= 1 /\ card'.misc < end)
  BY <1>1 DEF Card!InProgress
<1>3. InCommand(r, sent + 1) <=> sent >= 1 /\ ~Card!InProgress(card')
  BY DEF InCommand
<1>4. CASE sent = 0
  <2> DEFINE t == WithCommand(card, r)
  <2>1. /\ t \in CardType /\ t.state = "SMARTPORT" /\ t.misc = 0 /\ t.cmd_num = r.op
        /\ t.param_cnt = card.param_cnt /\ t.param_byte = card.param_byte
    BY <1>1, <1>4 DEF CardType, WithCommand
  <2>2. card' = Counted(t)
    BY <1>1, <1>4, SmartportPart
  <2> HIDE DEF t
  <2>3. card.param_cnt > 0 /\ card.param_byte = 0
    BY <1>1, <1>4 DEF WrittenSmartport
  <2>4. /\ card' \in CardType /\ card'.state = "SMARTPORT" /\ card'.misc = 1
        /\ card'.cmd_num = r.op /\ card'.param_cnt > 0 /\ card'.param_byte = 0
    BY <2>1, <2>2, <2>3, CountedPart
  <2>5. ~InCommand(r, sent + 1)
    BY <1>3, <1>4
  <2>6. WrittenSmartport(r, 1)'
    BY <1>1, <2>4 DEF WrittenSmartport, CardType
  <2> QED
    BY <1>4, <2>4, <2>5, <2>6
<1>5. CASE sent = 1
  <2> DEFINE t == WithCount(card, r)
  <2>1. Card!Count(r) \in Nat /\ Card!Count(r) > 0
    BY DEF Card!Count
  <2>2. /\ t \in CardType /\ t.state = "SMARTPORT" /\ t.misc = 1 /\ t.cmd_num = card.cmd_num
        /\ t.param_cnt = Card!Count(r) /\ t.param_byte = card.param_byte
    BY <1>1, <1>5, <2>1 DEF CardType, WithCount
  <2>3. card' = Counted(t)
    BY <1>1, <1>5, SmartportPart
  <2> HIDE DEF t
  <2>4. card.cmd_num = r.op /\ card.param_byte = 0
    BY <1>1, <1>5 DEF WrittenSmartport
  <2>5. /\ card' \in CardType /\ card'.state = "SMARTPORT" /\ card'.misc = 2
        /\ card'.cmd_num = r.op /\ card'.param_cnt = Card!Count(r) /\ card'.param_byte = 0
    BY <2>1, <2>2, <2>3, <2>4, CountedPart
  <2>6. ~InCommand(r, sent + 1)
    BY <1>1, <1>2, <1>3, <2>5
  <2>7. WrittenSmartport(r, 2)'
    BY <1>1, <2>5 DEF WrittenSmartport
  <2> QED
    BY <1>5, <2>5, <2>6, <2>7
<1>6. CASE sent = 2
  <2> DEFINE t == WithUnit(card, r)
  <2>1. /\ card.param_cnt = Card!Count(r) /\ card.cmd_num = r.op /\ card.param_byte = 0
    BY <1>1, <1>6 DEF WrittenSmartport
  <2>2. /\ Card!Count(r) - 1 \in Nat
        /\ Card!Count(r) - 1 = (IF r.op \in {"FORMAT", "INIT"} THEN 0
                                ELSE IF r.op \in Listed THEN 2 ELSE 3)
    BY <1>1 DEF Card!Count, Card!Operations, Listed
  <2>3. /\ t \in CardType /\ t.state = "SMARTPORT" /\ t.misc = 2 /\ t.cmd_num = r.op
        /\ t.unit_num = r.unit /\ t.param_cnt = Card!Count(r) - 1 /\ t.param_byte = 0
    BY <1>1, <1>6, <2>1, <2>2 DEF CardType, WithUnit
  <2>4. card' = Counted(t)
    BY <1>1, <1>6, SmartportPart
  <2> HIDE DEF t
  <2>5. /\ card' \in CardType /\ card'.state = "SMARTPORT" /\ card'.cmd_num = r.op
        /\ card'.unit_num = r.unit /\ card'.param_cnt = Card!Count(r) - 1
        /\ card'.param_byte = 0
        /\ card'.misc = (IF Card!Count(r) - 1 > 0 THEN 3 ELSE end)
    BY <2>3, <2>4, CountedPart
  <2>6. CASE r.op \in {"FORMAT", "INIT"}
    <3>1. card'.misc = end /\ InCommand(r, sent + 1)
      BY <1>1, <1>2, <1>3, <1>6, <2>2, <2>5, <2>6
    <3> QED
      BY <2>5, <2>6, <3>1 DEF Complete, Listed
  <2>7. CASE r.op \notin {"FORMAT", "INIT"}
    <3>1. card'.misc = 3 /\ ~InCommand(r, sent + 1)
      BY <1>1, <1>2, <1>3, <2>2, <2>5, <2>7
    <3>2. card'.param_cnt = IF r.op \in Listed THEN 2 ELSE 3
      BY <2>2, <2>5, <2>7
    <3>3. WrittenSmartport(r, 3)'
      BY <1>1, <2>5, <2>7, <3>1, <3>2 DEF WrittenSmartport
    <3> QED
      BY <1>6, <2>5, <3>1, <3>3
  <2> QED
    BY <2>6, <2>7
<1>7. CASE sent >= 3
  <2> DEFINE t == Card!setup_smartport(card, r)
  <2>1. /\ card.unit_num = r.unit /\ card.cmd_num = r.op /\ r.op \notin {"FORMAT", "INIT"}
        /\ card.param_cnt = (IF r.op \in Listed THEN 5 - sent ELSE 3)
        /\ r.op \in Listed => sent < 5
        /\ card.param_byte = sent - 3
        /\ (HasListOf(card) <=> r.op \in Listed)
    BY <1>1, <1>7 DEF WrittenSmartport, HasListOf
  <2>2. HasListOf(card) /\ card.param_byte < 2 => card.param_cnt >= 1
    BY <1>1, <2>1
  <2>3. /\ t \in CardType /\ t.state = "SMARTPORT" /\ t.misc = sent /\ t.cmd_num = r.op
        /\ t.unit_num = r.unit /\ t.param_byte = sent - 3 + 1
        /\ t.param_cnt = (IF r.op \in Listed THEN 5 - sent - 1 ELSE 3)
        /\ r.op \in Listed /\ sent = 4 => t.block_num = r.block
    <3>1. /\ t \in CardType /\ t.state = card.state /\ t.misc = card.misc
          /\ t.cmd_num = card.cmd_num /\ t.unit_num = card.unit_num
          /\ t.param_byte = card.param_byte + 1
          /\ t.param_cnt = (IF HasListOf(card) /\ card.param_byte < 2 THEN card.param_cnt - 1
                            ELSE card.param_cnt)
          /\ HasListOf(card) /\ card.param_byte = 1 => t.block_num = r.block
      BY <2>2, SetupPart
    <3> HIDE DEF t
    <3> QED
      BY <1>1, <1>7, <2>1, <3>1
  <2>4. card' = Counted(t)
    BY <1>1, <1>7, SmartportPart
  <2> HIDE DEF t
  <2>5. /\ card' \in CardType /\ card'.state = "SMARTPORT" /\ card'.cmd_num = r.op
        /\ card'.unit_num = r.unit /\ card'.param_byte = sent - 2
        /\ card'.param_cnt = (IF r.op \in Listed THEN 4 - sent ELSE 3)
        /\ r.op \in Listed /\ sent = 4 => card'.block_num = r.block
        /\ card'.misc = (IF t.param_cnt > 0 THEN sent + 1 ELSE end)
    BY <1>7, <2>3, <2>4, CountedPart
  <2>6. t.param_cnt > 0 <=> ~(r.op \in Listed /\ sent = 4)
    BY <1>7, <2>1, <2>3
  <2>7. CASE r.op \in Listed /\ sent = 4
    <3>1. card'.misc = end /\ InCommand(r, sent + 1)
      BY <1>1, <1>2, <1>3, <2>5, <2>6, <2>7
    <3> QED
      BY <2>5, <2>7, <3>1 DEF Complete
  <2>8. CASE r.op \notin Listed /\ sent + 1 = end
    <3>1. card'.misc = end /\ InCommand(r, sent + 1)
      BY <1>1, <1>2, <1>3, <2>5, <2>6, <2>8
    <3> QED
      BY <2>5, <2>8, <3>1 DEF Complete
  <2>9. CASE ~(r.op \in Listed /\ sent = 4) /\ ~(r.op \notin Listed /\ sent + 1 = end)
    <3>1. card'.misc = sent + 1 /\ sent + 1 < end
      BY <1>1, <2>1, <2>5, <2>6, <2>9
    <3>2. ~InCommand(r, sent + 1)
      BY <1>1, <1>2, <1>3, <2>5, <3>1
    <3>3. WrittenSmartport(r, sent + 1)'
      BY <1>1, <1>7, <2>1, <2>5, <2>9, <3>1 DEF WrittenSmartport
    <3> QED
      BY <2>5, <3>2, <3>3
  <2> QED
    BY <2>7, <2>8, <2>9
<1> QED
  BY <1>1, <1>4, <1>5, <1>6, <1>7

LEMMA SendStale ==
    ASSUME card \in CardType, NEW r \in CallType, Stale, card' = Card!smartport_part(card, r)
    PROVE  card' \in CardType /\ Stale'
<1> DEFINE t == Card!setup_smartport(card, r)
<1>1. /\ card.state = "SMARTPORT" /\ card.misc >= SMARTPORT_COMMAND_READY /\ card.misc \in Nat
      /\ SMARTPORT_COMMAND_READY \in Nat /\ SMARTPORT_COMMAND_READY >= 6
      /\ card.param_byte \in Nat /\ card.cmd_num \in {"STATUS", "OTHER"}
      /\ card.cmd_num = "STATUS" => card.param_byte >= 2
  BY CardValues DEF Stale, CardType
<1>2. ~(HasListOf(card) /\ card.param_byte < 2)
  BY <1>1 DEF HasListOf, Listed
<1>3. /\ t \in CardType /\ t.state = card.state /\ t.misc = card.misc
      /\ t.cmd_num = card.cmd_num /\ t.param_byte = card.param_byte + 1
  BY <1>2, SetupPart
<1>4. card' = Counted(t)
  BY <1>1, SmartportPart
<1> HIDE DEF t
<1>5. /\ card' \in CardType /\ card'.state = "SMARTPORT" /\ card'.cmd_num = card.cmd_num
      /\ card'.param_byte = card.param_byte + 1
      /\ card'.misc = (IF t.param_cnt > 0 THEN card.misc + 1 ELSE SMARTPORT_COMMAND_READY)
  BY <1>1, <1>3, <1>4, CountedPart
<1>6. card'.misc >= SMARTPORT_COMMAND_READY
  BY <1>1, <1>5
<1> QED
  BY <1>1, <1>5, <1>6 DEF Stale

LEMMA CardSendKeeps == ASSUME CardInv, Card!Send PROVE CardInv'
<1>typed. firmware.call \in Calls /\ firmware.sent \in Nat
  BY CardTypes DEF CardInv, CardInPhase, Sending, Card!Send
<1>asked. PICK r \in Calls : r = firmware.call
  BY <1>typed
<1>count. PICK sent \in Nat : sent = firmware.sent
  BY <1>typed
<1> DEFINE all == InCommand(r, sent + 1)
<1>1. /\ card \in CardType /\ sent \in Nat /\ firmware.stray \in BOOLEAN
  BY CardTypes DEF CardInv
<1>2. /\ firmware.phase = "command" /\ (sent = 0 => ~Card!InProgress(card))
      /\ card' = Card!write_command(card, r)
      /\ firmware' = [firmware EXCEPT !.sent = sent + 1, !.phase = IF all THEN "firing" ELSE @]
      /\ UNCHANGED <<hdd, memory, promised, due, exchanged>>
  <2>1. /\ firmware.phase = "command" /\ (firmware.sent = 0 => ~Card!InProgress(card))
        /\ card' = Card!write_command(card, firmware.call)
        /\ firmware' = [firmware EXCEPT
              !.sent = firmware.sent + 1,
              !.phase = IF InCommand(firmware.call, firmware.sent + 1) THEN "firing" ELSE @]
        /\ UNCHANGED <<hdd, memory, promised, due, exchanged>>
    BY Zenon DEF Card!Send, InCommand
  <2> QED
    BY <2>1, <1>asked, <1>count
<1>3. /\ r \in CallType
      /\ firmware.stray => card.state = "IDLE" \/ Stale \/ (Reports /\ sent = 0)
      /\ ~firmware.stray /\ r.mode = "COMMAND" => WrittenCommand(r, sent) /\ sent < 4
      /\ ~firmware.stray /\ r.mode # "COMMAND" => WrittenSmartport(r, sent)
  BY <1>2, <1>asked, <1>count, CardValues DEF CardInv, CardInPhase, Sending
<1>4. /\ firmware'.call = r /\ r \in Calls /\ firmware'.sent = sent + 1 /\ firmware'.stray = firmware.stray
      /\ firmware'.phase = (IF all THEN "firing" ELSE "command")
      /\ firmware' \in [phase : {"idle", "command", "firing", "fired", "crashed"},
                        call : Calls \union {Nothing}, sent : Nat, stray : BOOLEAN,
                        answer : {"none", "ok", "error"}]
  <2>1. firmware \in [phase : {"idle", "command", "firing", "fired", "crashed"},
                      call : Calls \union {Nothing}, sent : Nat, stray : BOOLEAN,
                      answer : {"none", "ok", "error"}]
    BY DEF CardInv, Card!TypeOK
  <2>2. sent + 1 \in Nat
    BY <1>1
  <2> HIDE DEF all
  <2> QED
    BY <1>2, <1>asked, <2>1, <2>2
<1>5. /\ card' \in CardType
      /\ firmware.stray => card'.state = "IDLE" \/ Stale'
      /\ ~firmware.stray /\ r.mode = "COMMAND" => WrittenCommand(r, sent + 1)'
      /\ ~firmware.stray /\ r.mode = "SMARTPORT" =>
            IF all THEN card'.state = "SMARTPORT" /\ Complete(r)' ELSE WrittenSmartport(r, sent + 1)'
  <2>1. CASE firmware.stray
    <3>1. card.state = "IDLE" \/ Stale
      BY <1>2, <1>3, <2>1 DEF Reports, Card!InProgress
    <3>2. CASE card.state = "IDLE"
      BY <1>1, <1>2, <2>1, <3>2 DEF Card!write_command
    <3>3. CASE Stale
      <4>1. card' = Card!smartport_part(card, r)
        BY <1>2, <3>3 DEF Card!write_command, Stale
      <4> QED
        BY <1>1, <1>3, <2>1, <3>3, <4>1, SendStale
    <3> QED
      BY <3>1, <3>2, <3>3
  <2>2. CASE ~firmware.stray /\ r.mode = "COMMAND"
    <3>1. WrittenCommand(r, sent) /\ sent < 4
      BY <1>3, <2>2
    <3>2. card' = Card!prodos_part(card, r)
      BY <1>2, <3>1 DEF Card!write_command, WrittenCommand
    <3>3. /\ card' \in CardType /\ card'.state = card.state /\ card'.misc = card.misc + 1
          /\ card'.cmd_num = (IF card.misc = 0 THEN r.op ELSE card.cmd_num)
          /\ card'.unit_num = (IF card.misc = 1 THEN r.unit ELSE card.unit_num)
          /\ card'.block_num = (IF card.misc = 3 THEN r.block ELSE card.block_num)
      BY <1>1, <1>3, <3>2, ProdosPart
    <3>4. WrittenCommand(r, sent + 1)'
      BY <1>1, <3>1, <3>3 DEF WrittenCommand
    <3> QED
      BY <2>2, <3>3, <3>4
  <2>3. CASE ~firmware.stray /\ r.mode = "SMARTPORT"
    <3>1. WrittenSmartport(r, sent)
      BY <1>3, <2>3
    <3>2. card' = Card!smartport_part(card, r)
      BY <1>2, <3>1 DEF Card!write_command, WrittenSmartport
    <3>3. /\ card' \in CardType
          /\ IF InCommand(r, sent + 1) THEN card'.state = "SMARTPORT" /\ Complete(r)'
             ELSE WrittenSmartport(r, sent + 1)'
      BY <1>1, <1>3, <2>3, <3>1, <3>2, SendSmartport
    <3> QED
      BY <2>3, <3>3 DEF all
  <2> QED
    BY <1>1, <1>3, <2>1, <2>2, <2>3 DEF CallType
<1>6. Card!TypeOK'
  BY <1>2, <1>4, <1>5 DEF CardInv, Card!TypeOK, CardType
<1>7. CardInPhase'
  <2>1. CASE all
    <3>1. /\ firmware'.phase = "firing" /\ (r.mode = "COMMAND" => sent + 1 = 4)
          /\ (r.mode # "COMMAND" => r.mode = "SMARTPORT")
      BY <1>3, <1>4, <2>1 DEF InCommand, CallType
    <3>2. Firing'
      BY <1>3, <1>4, <1>5, <2>1, <3>1 DEF Firing
    <3> QED
      BY <3>1, <3>2 DEF CardInPhase
  <2>2. CASE ~all
    <3>1. firmware'.phase = "command" /\ (r.mode # "COMMAND" => r.mode = "SMARTPORT")
      BY <1>3, <1>4, <2>2 DEF CallType
    <3>2. ~firmware.stray /\ r.mode = "COMMAND" => sent + 1 < 4
      BY <1>1, <1>5, <2>2 DEF InCommand, WrittenCommand
    <3>3. Sending'
      BY <1>3, <1>4, <1>5, <2>2, <3>1, <3>2 DEF Sending
    <3> QED
      BY <3>1, <3>3 DEF CardInPhase
  <2> QED
    BY <2>1, <2>2
<1>8. DisksAsPromised'
  <2>1. firmware'.phase # "fired"
    BY <1>4
  <2> QED
    BY <1>2, <2>1, DisksStay DEF CardInv
<1>9. ReadsAnswered'
  BY <1>4 DEF ReadsAnswered
<1> QED
  BY <1>6, <1>7, <1>8, <1>9 DEF CardInv
-----------------------------------------------------------------------------
(* What fires, with the drive that the card finds for it.                  *)
Outcome(c, r) ==
    \/ Idle(c, Card!Failed)
    \/ Idle(c, 0) /\ r.op = "STATUS"
    \/ /\ c \in CardType /\ c.state = "SMARTPORT" /\ card.state = "SMARTPORT"
       /\ Kept(c) /\ r.op \in {"STATUS", "OTHER"}
    \/ c \in CardType /\ c.state = "DMA_W" /\ c.cmd_num = "STATUS" /\ r.op = "STATUS"
    \/ /\ c \in CardType /\ c.state = "DMA_W" /\ c.cmd_num = "READ" /\ r.op = "READ"
       /\ Answerable(r) => /\ r.unit \in Card!Drives /\ hdd[r.unit] # Nothing
                           /\ r.block \in Card!Blocks /\ c.block_data = hdd[r.unit][r.block]
    \/ /\ c \in CardType /\ c.state = "DMA_R" /\ r.op = "WRITE"
       /\ c.unit_num = r.unit /\ r.unit # 0 /\ c.block_num = r.block
    \/ /\ c \in CardType /\ c.state = "FORMAT" /\ r.op = "FORMAT"
       /\ c.unit_num = r.unit /\ c.block_num = 0 /\ c.block_data = Blank

Asking(r) ==
    /\ card \in CardType /\ hdd \in DrivesType /\ r \in CallType
    /\ card.cmd_num = r.op /\ card.unit_num = r.unit
    /\ r.op \in {"READ", "WRITE"} => card.block_num = r.block

(* The drive of a transfer is that of its unit, unless the card lacks it.  *)
LEMMA DriveReached ==
    ASSUME NEW r, Asking(r), r.op \in {"READ", "WRITE"}, NEW d \in Card!Reached(card),
           Card!Online(d)
    PROVE  /\ d \in Card!Drives /\ hdd[d] # Nothing /\ r.unit # 0
           /\ r.unit \in Card!Drives \union {0} => d = r.unit
<1>1. d \in Card!Drives /\ hdd[d] # Nothing /\ d # 0
  BY DEF Card!Online, Card!Drives
<1>2. card.cmd_num # "FORMAT" /\ card.unit_num = r.unit
  BY DEF Asking
<1> QED
  BY <1>1, <1>2 DEF Card!Reached, Card!Beyond

LEMMA FailOutcome ==
    ASSUME NEW c \in CardType, NEW r PROVE Outcome(Card!fail_idle(c), r)
BY IdleCards DEF Outcome

LEMMA ReadOutcome ==
    ASSUME NEW r, Asking(r), r.op = "READ", NEW d \in Card!Reached(card), Card!Online(d)
    PROVE  Outcome(Card!Read(card, d), r)
<1> DEFINE t == Card!Transfer(card, "DMA_W")
           data == hdd[d][card.block_num]
<1>1. card \in CardType /\ card.unit_num = r.unit /\ card.block_num = r.block /\ card.cmd_num = "READ"
  BY DEF Asking
<1>2. t \in CardType /\ t.state = "DMA_W" /\ Kept(t)
  BY <1>1, Transfers DEF Card!States
<1>3. /\ d \in Card!Drives /\ hdd[d] # Nothing
      /\ Answerable(r) => d = r.unit
  BY DriveReached DEF Answerable
<1>4. CASE card.block_num \in Card!Blocks
  <2>1. data \in Data
    BY <1>3, <1>4 DEF Asking, DrivesType, DiskType
  <2>2. Card!Read(card, d) = [t EXCEPT !.block_data = data]
    BY <1>4 DEF Card!Read
  <2> HIDE DEF t, data
  <2>3. LET c == [t EXCEPT !.block_data = data]
        IN  c \in CardType /\ c.state = "DMA_W" /\ c.cmd_num = "READ" /\ c.block_data = data
    BY <1>1, <1>2, <2>1 DEF CardType, Kept
  <2> QED
    BY <1>1, <1>3, <1>4, <2>2, <2>3 DEF Outcome, data
<1>5. CASE card.block_num \notin Card!Blocks
  <2>1. Card!Read(card, d) = Card!fail_idle(t)
    BY <1>5 DEF Card!Read
  <2> HIDE DEF t
  <2> QED
    BY <1>2, <2>1, FailOutcome
<1> QED
  BY <1>4, <1>5

LEMMA WriteOutcome ==
    ASSUME NEW r, Asking(r), r.op = "WRITE", r.unit # 0 PROVE Outcome(Card!Write(card), r)
<1> DEFINE t == Card!Transfer(card, "DMA_R")
<1>1. card \in CardType /\ card.unit_num = r.unit /\ card.block_num = r.block
  BY DEF Asking
<1>2. t \in CardType /\ t.state = "DMA_R" /\ Kept(t) /\ t.block_num = card.block_num
  BY <1>1, Transfers DEF Card!States
<1>3. Card!Write(card) = t \/ Card!Write(card) = Card!fail_idle(t)
  BY DEF Card!Write
<1> HIDE DEF t
<1>4. Outcome(t, r)
  BY <1>1, <1>2 DEF Outcome, Kept, Asking
<1> QED
  BY <1>2, <1>3, <1>4, FailOutcome

LEMMA FormatOutcome ==
    ASSUME NEW r, Asking(r), r.op = "FORMAT" PROVE Outcome(Card!Format(card), r)
<1> DEFINE t == Card!Transfer(card, "FORMAT")
           f == [t EXCEPT !.block_num = 0, !.block_data = Blank]
<1>1. card \in CardType /\ card.unit_num = r.unit /\ Blank \in Data /\ 0 \in Nat
  BY CardValues DEF Asking
<1>2. t \in CardType /\ t.state = "FORMAT" /\ Kept(t)
  BY <1>1, Transfers DEF Card!States
<1>3. Card!Format(card) = f
  BY DEF Card!Format
<1> HIDE DEF t
<1>4. /\ f \in CardType /\ f.state = "FORMAT" /\ f.unit_num = t.unit_num
      /\ f.block_num = 0 /\ f.block_data = Blank
  BY <1>1, <1>2 DEF CardType
<1> HIDE DEF f
<1> QED
  BY <1>1, <1>2, <1>3, <1>4 DEF Outcome, Kept

LEMMA CommandOutcome ==
    ASSUME NEW r, Asking(r), NEW d \in Card!Reached(card) PROVE Outcome(Card!command(card, d), r)
<1>1. card \in CardType /\ card.cmd_num = r.op
  BY DEF Asking
<1>2. CASE ~Card!Online(d)
  BY <1>1, <1>2, FailOutcome DEF Card!command
<1>3. CASE Card!Online(d) /\ r.op = "STATUS"
  <2>1. Card!command(card, d) = Card!ok(card)
    BY <1>1, <1>3 DEF Card!command
  <2> QED
    BY <1>1, <1>3, <2>1, IdleCards DEF Outcome
<1>4. CASE Card!Online(d) /\ r.op = "READ"
  <2>1. Card!command(card, d) = Card!Read(card, d)
    BY <1>1, <1>4 DEF Card!command
  <2> QED
    BY <1>4, <2>1, ReadOutcome
<1>5. CASE Card!Online(d) /\ r.op = "WRITE"
  <2>1. Card!command(card, d) = Card!Write(card)
    BY <1>1, <1>5 DEF Card!command
  <2> QED
    BY <1>5, <2>1, WriteOutcome, DriveReached
<1>6. CASE Card!Online(d) /\ r.op = "FORMAT"
  <2>1. Card!command(card, d) = Card!Format(card)
    BY <1>1, <1>6 DEF Card!command
  <2> QED
    BY <1>6, <2>1, FormatOutcome
<1>7. CASE Card!Online(d) /\ r.op \notin {"STATUS", "READ", "WRITE", "FORMAT"}
  <2>1. Card!command(card, d) = Card!fail_idle(card)
    BY <1>1, <1>7 DEF Card!command
  <2> QED
    BY <1>1, <2>1, FailOutcome
<1> QED
  BY <1>2, <1>3, <1>4, <1>5, <1>6, <1>7

LEMMA StatusOutcome ==
    ASSUME NEW r, Asking(r), r.op = "STATUS", card.state = "SMARTPORT"
    PROVE  Outcome(Card!smartport_status(card), r)
<1>1. card \in CardType /\ card.cmd_num = "STATUS"
  BY DEF Asking
<1> DEFINE t == Card!Transfer(card, "DMA_W")
           z == [card EXCEPT !.dma_offset = 0]
           c == Card!smartport_status(card)
<1>2. c = t \/ c = z \/ c = Card!fail_idle(card)
  BY DEF Card!smartport_status
<1>3. t \in CardType /\ t.state = "DMA_W" /\ Kept(t)
  BY <1>1, Transfers DEF Card!States
<1>4. z \in CardType /\ z.state = "SMARTPORT" /\ Kept(z)
  <2>1. 0 \in 0 .. DmaSize
    BY CardValues
  <2> QED
    BY <1>1, <2>1 DEF CardType, Kept
<1> HIDE DEF c, t, z
<1>5. Outcome(t, r) /\ Outcome(z, r)
  BY <1>1, <1>3, <1>4 DEF Outcome, Kept
<1>6. Outcome(c, r)
  BY <1>1, <1>2, <1>5, FailOutcome
<1> QED
  BY <1>6 DEF c

LEMMA SmartportOutcome ==
    ASSUME NEW r, Asking(r), card.state = "SMARTPORT", NEW d \in Card!Reached(card)
    PROVE  Outcome(Card!smartport(card, d), r)
<1>1. card \in CardType /\ card.cmd_num = r.op /\ r.op \in Card!Operations
  BY DEF Asking, CallType
<1>2. CASE r.op = "STATUS"
  <2>1. Card!smartport(card, d) = Card!smartport_status(card)
    BY <1>1, <1>2 DEF Card!smartport
  <2> QED
    BY <1>2, <2>1, StatusOutcome
<1>3. CASE r.op = "READ"
  <2>1. Card!smartport(card, d) = IF Card!Online(d) THEN Card!Read(card, d) ELSE Card!fail_idle(card)
    BY <1>1, <1>3 DEF Card!smartport
  <2> QED
    BY <1>1, <1>3, <2>1, ReadOutcome, FailOutcome
<1>4. CASE r.op = "WRITE"
  <2>1. Card!smartport(card, d) = IF Card!Online(d) THEN Card!Write(card) ELSE Card!fail_idle(card)
    BY <1>1, <1>4 DEF Card!smartport
  <2> QED
    BY <1>1, <1>4, <2>1, WriteOutcome, DriveReached, FailOutcome
<1>5. CASE r.op = "FORMAT"
  <2>1. Card!smartport(card, d) = Card!Format(card)
    BY <1>1, <1>5 DEF Card!smartport
  <2> QED
    BY <1>5, <2>1, FormatOutcome
<1>6. CASE r.op \in {"CONTROL", "INIT"}
  <2>1. Card!smartport(card, d) = Card!fail_idle(card)
    BY <1>1, <1>6 DEF Card!smartport
  <2> QED
    BY <1>1, <2>1, FailOutcome
<1>7. CASE r.op = "OTHER"
  <2>1. Card!smartport(card, d) = card
    BY <1>1, <1>7 DEF Card!smartport
  <2> QED
    BY <1>1, <1>7, <2>1 DEF Outcome, Kept
<1> QED
  BY <1>1, <1>2, <1>3, <1>4, <1>5, <1>6, <1>7 DEF Card!Operations

(* What a read is to bring.                                                *)
Expected(r) ==
    IF /\ r.op = "READ" /\ r.block \in Card!Blocks
       /\ r.unit \in Card!Drives /\ promised[r.unit] # Nothing
    THEN promised[r.unit][r.block] ELSE Nothing

LEMMA CardFireKeeps == ASSUME CardInv, Card!Fire PROVE CardInv'
<1>typed. firmware.call \in Calls
  BY CardTypes DEF CardInv, CardInPhase, Firing, Card!Fire
<1>asked. PICK r \in Calls : r = firmware.call
  BY <1>typed
<1>1. /\ card \in CardType /\ hdd \in DrivesType /\ promised \in DrivesType
      /\ firmware.stray \in BOOLEAN
  BY CardTypes DEF CardInv
<1>drive. PICK reached \in Card!Reached(card) :
              card' = Card!write_control(card, "SMARTPORT", reached)
  BY Zenon DEF Card!Fire
<1>2. /\ firmware.phase = "firing" /\ card' = Card!write_control(card, "SMARTPORT", reached)
      /\ firmware' = [firmware EXCEPT !.phase = "fired"]
      /\ due' = Expected(r) /\ exchanged' = {} /\ UNCHANGED <<hdd, memory, promised>>
  BY <1>asked, <1>drive DEF Card!Fire, Expected, Card!Asked
<1>3. /\ r \in CallType
      /\ firmware.stray => card.state = "IDLE" \/ Stale
      /\ ~firmware.stray /\ r.mode = "COMMAND" => WrittenCommand(r, 4)
      /\ ~firmware.stray /\ r.mode # "COMMAND" => card.state = "SMARTPORT" /\ Complete(r)
  BY <1>2, <1>asked, CardValues DEF CardInv, CardInPhase, Firing
<1>4. /\ firmware'.call = r /\ firmware'.stray = firmware.stray /\ firmware'.phase = "fired"
      /\ firmware' \in [phase : {"idle", "command", "firing", "fired", "crashed"},
                        call : Calls \union {Nothing}, sent : Nat, stray : BOOLEAN,
                        answer : {"none", "ok", "error"}]
  BY <1>2, <1>asked DEF CardInv, Card!TypeOK
<1>5. promised = hdd
  <2>1. \A d \in Card!Drives : promised[d] = hdd[d]
    BY <1>2 DEF CardInv, DisksAsPromised, InCall
  <2> QED
    BY <1>1, <2>1 DEF DrivesType
<1>6. due' \in Data \union {Nothing}
  <2>1. ASSUME r.block \in Card!Blocks, r.unit \in Card!Drives, promised[r.unit] # Nothing
        PROVE  promised[r.unit][r.block] \in Data
    BY <1>1, <2>1 DEF DrivesType, DiskType
  <2> QED
    BY <1>2, <2>1 DEF Expected
<1>7. CASE firmware.stray
  <2>1. card' \in CardType /\ (card'.state = "IDLE" \/ Stale' \/ Unasked' \/ Reports')
    <3>1. CASE card.state = "IDLE"
      <4>1. Begun(card', "SMARTPORT")
        BY <1>1, <1>2, <3>1, ControlIdle
      <4> QED
        BY <4>1 DEF Begun, Unasked
    <3>2. CASE Stale
      <4>1. \/ Idle(card', Card!Failed)
            \/ card' \in CardType /\ card'.state = "DMA_W" /\ card'.cmd_num = "STATUS"
            \/ card' \in CardType /\ card'.state = "SMARTPORT" /\ Kept(card')
        BY <1>1, <1>2, <3>2, ControlStale
      <4> QED
        BY <3>2, <4>1 DEF Idle, Reports, Stale, Kept
    <3> QED
      BY <1>3, <1>7, <3>1, <3>2
  <2>2. Card!TypeOK'
    BY <1>2, <1>4, <1>6, <2>1 DEF CardInv, Card!TypeOK, CardType
  <2>3. CardInPhase'
    BY <1>4, <1>7, <2>1 DEF CardInPhase, Fired
  <2>4. DisksAsPromised'
    BY <1>2, <1>4, <1>7, DisksStay DEF CardInv
  <2>5. ReadsAnswered'
    BY <1>4 DEF ReadsAnswered
  <2> QED
    BY <2>2, <2>3, <2>4, <2>5 DEF CardInv
<1>8. CASE ~firmware.stray
  <2>1. Asking(r)
    BY <1>1, <1>3, <1>8 DEF Asking, WrittenCommand, Complete, Listed
  <2>2. Outcome(card', r)
    <3>1. CASE r.mode = "COMMAND"
      <4>1. card.state = "COMMAND" /\ card.misc = PRODOS_COMMAND_READY
        BY <1>3, <1>8, <3>1, CardValues DEF WrittenCommand
      <4>2. card' = Card!command(card, reached)
        BY <1>2, <4>1 DEF Card!write_control
      <4> QED
        BY <2>1, <4>2, CommandOutcome
    <3>2. CASE r.mode # "COMMAND"
      <4>1. card.state = "SMARTPORT" /\ card.misc >= SMARTPORT_COMMAND_READY
        BY <1>3, <1>8, <3>2, CardValues DEF Complete
      <4>2. card' = Card!smartport(card, reached)
        BY <1>2, <4>1 DEF Card!write_control
      <4> QED
        BY <1>3, <2>1, <4>1, <4>2, SmartportOutcome
    <3> QED
      BY <3>1, <3>2
  <2>3. card' \in CardType
    BY <2>2 DEF Outcome, Idle
  <2>4. Card!TypeOK'
    BY <1>2, <1>4, <1>6, <2>3 DEF CardInv, Card!TypeOK, CardType
  <2>5. Working(r)'
    <3>1. CASE Idle(card', Card!Failed) \/ (Idle(card', 0) /\ r.op = "STATUS")
      BY <3>1, CardValues DEF Idle, Working, Answerable
    <3>2. CASE /\ card'.state = "SMARTPORT" /\ card.state = "SMARTPORT"
               /\ Kept(card') /\ r.op \in {"STATUS", "OTHER"}
      <4>1. r.mode # "COMMAND"
        BY <1>3, <1>8, <3>2 DEF WrittenCommand
      <4>2. Complete(r)
        BY <1>3, <1>8, <4>1
      <4>3. /\ card'.misc >= SMARTPORT_COMMAND_READY /\ card'.cmd_num = r.op
            /\ r.op = "STATUS" => card'.param_byte >= 2
        BY <3>2, <4>2, CardValues DEF Complete, Kept, Listed
      <4>4. Stale'
        BY <3>2, <4>3 DEF Stale
      <4> QED
        BY <3>2, <4>4 DEF Working
    <3>3. CASE card'.state = "DMA_W" /\ card'.cmd_num = "STATUS" /\ r.op = "STATUS"
      BY <3>3 DEF Working, Answerable
    <3>4. CASE /\ card'.state = "DMA_W" /\ card'.cmd_num = "READ" /\ r.op = "READ"
               /\ Answerable(r) => /\ r.unit \in Card!Drives /\ hdd[r.unit] # Nothing
                                   /\ r.block \in Card!Blocks
                                   /\ card'.block_data = hdd[r.unit][r.block]
      <4>1. ASSUME Answerable(r) PROVE due' # Nothing /\ card'.block_data = due'
        <5>1. /\ r.unit \in Card!Drives /\ hdd[r.unit] # Nothing /\ r.block \in Card!Blocks
              /\ card'.block_data = hdd[r.unit][r.block]
          BY <3>4, <4>1
        <5>2. due' = hdd[r.unit][r.block]
          BY <1>2, <1>5, <3>4, <5>1 DEF Expected
        <5>3. due' # Nothing
          BY <1>1, <5>1, <5>2, CardValues DEF DrivesType, DiskType
        <5> QED
          BY <5>1, <5>2, <5>3
      <4> QED
        BY <3>4, <4>1 DEF Working, Answerable
    <3>5. CASE /\ card'.state = "DMA_R" /\ r.op = "WRITE"
               /\ card'.unit_num = r.unit /\ r.unit # 0 /\ card'.block_num = r.block
      BY <3>5 DEF Working
    <3>6. CASE /\ card'.state = "FORMAT" /\ r.op = "FORMAT"
               /\ card'.unit_num = r.unit /\ card'.block_data = Blank
      BY <3>6 DEF Working
    <3> QED
      BY <2>2, <3>1, <3>2, <3>3, <3>4, <3>5, <3>6 DEF Outcome
  <2>6. CardInPhase'
    BY <1>4, <1>8, <2>5 DEF CardInPhase, Fired
  <2>7. ASSUME NEW d \in Card!Drives PROVE PartDone(d, r)'
    <3>1. hdd'[d] = promised'[d]
      BY <1>2, <1>5
    <3>2. CASE card'.state = "FORMAT"
      <4>1. card'.block_num = 0
        BY <2>2, <3>2 DEF Outcome, Idle
      <4>2. \A b \in Card!Blocks : ~(b < 0)
        BY CardValues DEF Card!Blocks
      <4> QED
        BY <3>1, <3>2, <4>1, <4>2 DEF PartDone
    <3>3. CASE card'.state = "IDLE" /\ card'.misc # Card!Failed
      <4>1. r.op = "STATUS"
        BY <2>2, <3>3 DEF Outcome, Idle
      <4>2. Card!After(promised[d])' = promised'[d]
        BY <1>4, <4>1 DEF Card!After, Card!Asked
      <4> QED
        BY <3>1, <3>3, <4>2 DEF PartDone
    <3>4. CASE ~(card'.state = "FORMAT") /\ ~(card'.state = "IDLE" /\ card'.misc # Card!Failed)
      BY <3>1, <3>4 DEF PartDone
    <3> QED
      BY <3>2, <3>3, <3>4
  <2>8. DisksAsPromised'
    <3>1. \A d \in Card!Drives : hdd'[d] = promised'[d] /\ d \notin exchanged'
      BY <1>2, <1>5
    <3>2. ASSUME NEW d \in Card!Drives PROVE PartDone(d, firmware.call)'
      BY <1>4, <2>7 DEF PartDone
    <3> QED
      BY <3>1, <3>2 DEF DisksAsPromised
  <2>9. ReadsAnswered'
    BY <1>4 DEF ReadsAnswered
  <2> QED
    BY <2>4, <2>6, <2>8, <2>9 DEF CardInv
<1> QED
  BY <1>1, <1>7, <1>8
-----------------------------------------------------------------------------
LEMMA CardStarts == Card!Init => CardInv
<1> SUFFICES ASSUME Card!Init PROVE CardInv
  OBVIOUS
<1>1. /\ card.state = "IDLE" /\ card \in CardType
      /\ hdd = [d \in Card!Drives |-> Nothing] /\ promised = hdd
      /\ memory = Nothing /\ due = Nothing /\ exchanged = {} /\ firmware = Card!Quiet
  BY CardValues DEF Card!Init, CardType, Card!States, Card!Operations, Card!Codes
<1>2. hdd \in DrivesType
  BY <1>1 DEF DrivesType
<1>3. firmware.phase = "idle" /\ firmware.answer = "none"
  BY <1>1 DEF Card!Quiet
<1>4. Card!TypeOK
  BY <1>1, <1>2 DEF Card!TypeOK, CardType, DrivesType, DiskType, Card!Quiet
<1> QED
  BY <1>1, <1>3, <1>4 DEF CardInv, CardInPhase, DisksAsPromised, ReadsAnswered, InCall

LEMMA CardStays == CardInv /\ [Card!Next]_(Card!vars) => CardInv'
<1> SUFFICES ASSUME CardInv, [Card!Next]_(Card!vars) PROVE CardInv'
  OBVIOUS
<1>1. CASE \/ Card!Dma \/ Card!DmaRead \/ Card!DmaWrite \/ Card!DmaCrash
            \/ Card!StrayPointer \/ Card!FormatBlock
  BY <1>1, DmaKeeps, DmaReadKeeps, DmaWriteKeeps, DmaCrashKeeps, StrayPointerKeeps,
    FormatBlockKeeps
<1>2. CASE \E r \in Calls : Card!Start(r)
  BY <1>2, CardStartKeeps
<1>3. CASE Card!Send \/ Card!Fire \/ Card!Return \/ Card!Reset \/ Card!Relaunch
  BY <1>3, CardSendKeeps, CardFireKeeps, CardReturnKeeps, CardResetKeeps,
    CardRelaunchKeeps
<1>4. ASSUME NEW d \in Card!Drives, Card!clem_card_hdd_unmount(d) PROVE CardInv'
  BY <1>4, ExchangeKeeps DEF Card!clem_card_hdd_unmount
<1>5. ASSUME NEW d \in Card!Drives, Card!clem_card_hdd_mount(d) PROVE CardInv'
  <2>1. PICK disk \in Disks : Card!Exchange(d, disk)
    BY <1>5 DEF Card!clem_card_hdd_mount
  <2>2. disk \in DiskType \union {Nothing}
    BY CardValues
  <2> QED
    BY <2>1, <2>2, ExchangeKeeps
<1>6. CASE UNCHANGED Card!vars
  <2>1. card \in CardType
    BY CardTypes DEF CardInv
  <2>2. SameCard(card')
    BY <1>6, <2>1 DEF SameCard, Card!vars
  <2> QED
    BY <1>6, <2>2, SameCardKeeps DEF Card!vars
<1> QED
  BY <1>1, <1>2, <1>3, <1>4, <1>5, <1>6 DEF Card!Next

(* The card, its counters of parts and parameters, the firmware and the    *)
(* disks stay within their types, also when a call names a unit that the   *)
(* card does not have.                                                     *)
THEOREM CardTypeCorrect == Card!Spec => []Card!TypeOK
BY CardStarts, CardStays, PTL DEF Card!Spec, CardInv

(* Whatever the size of the disks and whatever is asked of the card, of    *)
(* whichever unit, the disks hold what the answers of the firmware say,    *)
(* through resets and exchanges of disks at any point; but for calls that  *)
(* come to a card which is busy, disks exchanged during the call, and what *)
(* a call to a unit that the card does not have does or brings.            *)
THEOREM AnswersAreTrue == Card!Spec => []AnswersTrue
<1>1. CardInv => AnswersTrue
  <2> SUFFICES ASSUME CardInv PROVE Card!AnswersTrue
    BY DEF AnswersTrue
  <2>1. ASSUME NEW d \in Card!Drives, hdd[d] # Nothing, NEW b \in Card!Blocks
        PROVE  hdd[d][b] = promised[d][b] \/ Card!Doing(d, b)
    <3>1. CASE ~InCall(d)
      BY <3>1 DEF CardInv, DisksAsPromised
    <3>2. CASE InCall(d) /\ d \in exchanged
      BY <2>1, <3>2 DEF CardInv, DisksAsPromised
    <3>3. CASE InCall(d) /\ d \notin exchanged
      <4>1. PartDone(d, firmware.call)
        BY <2>1, <3>3 DEF CardInv, DisksAsPromised
      <4>2. firmware.phase = "fired" /\ ~firmware.stray /\ firmware.call.unit = d
        BY <3>3 DEF InCall
      <4>3. CASE card.state = "FORMAT"
        <5>1. firmware.call.op = "FORMAT"
          BY <4>2, <4>3, InTransfer DEF Working, Stale, Card!Running
        <5> QED
          BY <4>1, <4>2, <4>3, <5>1 DEF PartDone, Card!Doing, Card!Asked
      <4>4. CASE card.state = "IDLE" /\ card.misc # Card!Failed
        <5>1. hdd[d] = Card!After(promised[d]) /\ promised[d] \in DiskType
          <6>1. promised[d] # Nothing /\ promised \in DrivesType
            BY <2>1, CardTypes DEF CardInv, DisksAsPromised
          <6> QED
            BY <4>1, <4>4, <6>1 DEF PartDone, DrivesType
        <5>2. CASE firmware.call.op = "WRITE"
          <6>1. hdd[d] = [promised[d] EXCEPT ![firmware.call.block] = firmware.call.data]
            BY <5>1, <5>2 DEF Card!After, Card!Asked
          <6> QED
            BY <4>2, <5>1, <5>2, <6>1 DEF Card!Doing, Card!Asked, DiskType
        <5>3. CASE firmware.call.op = "FORMAT"
          BY <4>2, <5>1, <5>3 DEF Card!After, Card!Doing, Card!Asked
        <5>4. CASE firmware.call.op \notin {"WRITE", "FORMAT"}
          BY <5>1, <5>4 DEF Card!After, Card!Asked
        <5> QED
          BY <5>2, <5>3, <5>4
      <4>5. CASE card.state # "FORMAT" /\ ~(card.state = "IDLE" /\ card.misc # Card!Failed)
        BY <4>1, <4>5 DEF PartDone
      <4> QED
        BY <4>3, <4>4, <4>5
    <3> QED
      BY <3>1, <3>2, <3>3
  <2>2. firmware.phase = "idle" /\ firmware.answer = "ok" /\ ~firmware.stray
           /\ Card!Asked.op = "READ" /\ Card!Asked.unit \in Card!Drives \union {0}
           => due # Nothing /\ memory = due
    BY DEF CardInv, ReadsAnswered, Card!Asked, Answerable
  <2> QED
    BY <2>1, <2>2 DEF Card!AnswersTrue
<1> QED
  BY <1>1, CardStarts, CardStays, PTL DEF Card!Spec
=============================================================================
