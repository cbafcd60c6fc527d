SPECIFICATION FairSpec
CONSTANTS
    SeqMod = 3
    QueueSize = 2
    MaxSent = 2
    MaxEdits = 0
PROPERTIES
    PowerOffCompletes
CHECK_DEADLOCK FALSE
