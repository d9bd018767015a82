SPECIFICATION Spec
CONSTANTS
    Configs <- MCConfigs
    MaxPC = 2
    DefaultChannels = 2
    Streams = {1, 2}
INVARIANTS
    PermitsBalanced
    WaitTellsTruth
PROPERTIES
    TokenGranted
    StopEndsStreams
CHECK_DEADLOCK FALSE
