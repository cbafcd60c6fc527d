SPECIFICATION Spec
CONSTANTS
    Drives35 = {0}
    Drives525 = {2}
    Images = {i1, i2}
    NoImage = NoImage
    NoSnapshot = NoSnapshot
    MaxWrites = 1
    MaxSnapshots = 1
SYMMETRY Symmetry
CONSTRAINT Bound
INVARIANTS
    DiskIsTracked
    Durable
