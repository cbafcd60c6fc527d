SPECIFICATION MCSpec
CONSTANTS
    Paths = {"ring", "commands", "sound", "frames"}
    Size = 2
    Items = {a, b}
    NoItem = NoItem
    MovedFrom <- Null
    a = a
    b = b
    Frames <- SomeFrames
    Silence = 0
    queuedFrameLimit = 3
    MixLimit = 2
    MaxMixed = 4
    MaxHeard = 2
    MaxSaved = 2
    Played = {1, 3}
    QueueSize = 2
    MaxSent = 4
    SeqMod = 3
    MaxEdits = 2
    Kinds = {"terminate", "save", "fallible"}
CONSTRAINT Bound
INVARIANTS
    NoSlotRace
    CheckedCallsSucceed
    InOrderOnce
    NothingLostInTurn
    DataPaired
    ResultsHonest
    HeardOnce
    FrameStable
    ResultsAccounted
PROPERTIES
    ImplementsFifo
    ImplementsFrameFifo
    NoFrameSkipped
    ConfigMonotone
    WaitingRuns
