SPECIFICATION Spec
CONSTANTS
    Cases <- MCCases
    ListenPort = 1
    Ports = {2}
    Gateways = 2
    Retries = 2
    RenewEvery = 2
    PMPLifetime = 3
    Calls = {1, 2}
INVARIANTS
    MappedWhileRunning
    RenewersListed
    EngineServesOwner
CHECK_DEADLOCK FALSE
