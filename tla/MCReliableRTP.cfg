SPECIFICATION Spec
CONSTANTS
    Cases <- MCCases
    WindowSize = 3
    MaxRetries = 1
    ChanCap = 1
INVARIANTS
    DeliveredInOrder
    NoLostSignal
PROPERTY
    Delivery
CHECK_DEADLOCK FALSE
