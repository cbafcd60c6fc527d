CONSTANTS
    ScanlineCount = 3
    VblLowerBound = 2
    VisibleLines = {1}
    Per60th = 2
    QtrSec = 2
    OneSec = 4
    ClockWidth = 4
    Durations = {0, 2}
    OtherSources = {}
SPECIFICATION FairSpec
INVARIANTS HandlerHasCause ResetReachesDevices
PROPERTIES VblAtTheBlank NoResetLoop WaitingGuestWakes
