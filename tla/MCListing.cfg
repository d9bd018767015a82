SPECIFICATION Spec
CONSTANTS
    TTL = 3
    MaxCalls = 1
    MaxListings = 4
    MaxFaults = 2
PROPERTIES
    Ephemeral
    ListedAgain
