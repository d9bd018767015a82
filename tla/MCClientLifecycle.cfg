SPECIFICATION Spec
CONSTANTS
    MaxCalls = 3
    MaxGroups = 2
    MaxReconnects = 1
CHECK_DEADLOCK FALSE
INVARIANTS
    TunnelDialsActive
    NoGroupLeaked
    OwnContext
PROPERTIES
    DeadClientHandled
