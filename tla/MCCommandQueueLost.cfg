SPECIFICATION Spec
CONSTANTS
    QueueSize = 2
    MaxSent = 4
    Kinds = {"terminate", "fallible"}
INVARIANTS
    NothingLost
