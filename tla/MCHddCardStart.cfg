SPECIFICATION MCSpec
CONSTANTS
    Parts = {"card"}
    PortUnits = {u0}
    CardUnits = {u1}
    Images = {i1}
    NoImage = NoImage
    NoSnapshot = NoSnapshot
    MaxWrites = 0
    WrongTypes = FALSE
    MaxSnapshots = 0
    BlockLimit = 2
    Data = {"old", "new", "blank"}
    Blank = "blank"
    Disks <- MCDisks
    Calls <- MCCalls
    PRODOS_COMMAND_READY = 4
    SMARTPORT_COMMAND_READY = 6
    MaxStray = 6
    DmaSize = 2
    Nothing = Nothing
INVARIANTS
    StartsCommand
