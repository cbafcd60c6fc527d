SPECIFICATION MCSpec
CONSTANTS
    Parts = {"images", "card"}
    PortUnits = {u0}
    CardUnits = {u1}
    Images = {i1, i2}
    NoImage = NoImage
    NoSnapshot = NoSnapshot
    MaxWrites = 2
    WrongTypes = TRUE
    MaxSnapshots = 1
    BlockLimit = 2
    Data = {"old", "new", "blank"}
    Blank = "blank"
    Disks <- MCDisks
    Calls <- MCCalls
    PRODOS_COMMAND_READY = 4
    SMARTPORT_COMMAND_READY = 6
    MaxStray = 6
    DmaSize = 2
    Nothing = Nothing
SYMMETRY Symmetry
CONSTRAINT Bound
INVARIANTS
    Durable
    ReportedUnitIsReal
    AnswersTrue
