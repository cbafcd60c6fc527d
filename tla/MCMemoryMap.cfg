SPECIFICATION Spec
CONSTANTS
    SlotPages = {"C1", "C4"}
    SavedRegisters <- MCSavedRegisters
CONSTRAINT Bound
INVARIANTS
    MapsMatchSwitches
    ReadsWhatItWrote
    AccessesFollowSwitches
PROPERTIES
    WriteEnableNeedsTwo
