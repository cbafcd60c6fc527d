SPECIFICATION Spec
CONSTANTS
    Drives35 = {0}
    Drives525 = {}
    Images = {i1}
    NoImage = NoImage
    NoSnapshot = NoSnapshot
    MaxWrites = 1
    MaxSnapshots = 1
INVARIANT NeverAborts
