SPECIFICATION Spec
CONSTANTS
    Cases <- MCLongCase
    WindowSize = 2
    MaxRetries = 1
    ChanCap = 1
INVARIANT
    AckedIsKept
CHECK_DEADLOCK FALSE
