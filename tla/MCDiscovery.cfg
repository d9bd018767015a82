SPECIFICATION Spec
CONSTANTS
    TTL = 3
    MaxCalls = 2
    MaxListings = 3
    MaxFaults = 2
INVARIANTS
    CloseOnce
    HeartbeatOwned
    ExpiryNeedsMisses
