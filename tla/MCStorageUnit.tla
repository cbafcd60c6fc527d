--------------------------- MODULE MCStorageUnit ---------------------------
(* A 3.5" and a 5.25" drive and two images that are alike.  A behaviour    *)
(* with a snapshot, or in which the guest ejects disks, uses one drive and *)
(* one image; with two of either the states multiply and no case is new.   *)
EXTENDS StorageUnit, TLC

Symmetry == Permutations(Images)

UsedImages ==
    {i \in Images :
        \/ file[i] # 0 \/ written[i] # 0 \/ excuse[i] # "none"
        \/ \E d \in Drives : i \in {asset[d], config[d]}
        \/ snapshot # NoSnapshot /\ \E d \in Drives : snapshot.asset[d] = i}

Flagged(r) == r.ejecting \/ r.ejected \/ r.timer

UsedDrives ==
    {d \in Drives :
        \/ drive[d].hasDisk \/ Flagged(drive[d])
        \/ {asset[d], config[d]} # {NoImage}}

Bound ==
    \/ /\ Cardinality(UsedImages) <= 1
       /\ Cardinality(UsedDrives) <= 1
    \/ /\ snapshot = NoSnapshot
       /\ \A d \in Drives : ~Flagged(drive[d])
=============================================================================
