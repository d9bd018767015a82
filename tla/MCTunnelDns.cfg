SPECIFICATION Spec
CONSTANTS
    Cases <- MCCases
    Users = {1, 2, 3}
    Query <- MCQuery
    BatchMax = 2
    CacheMax = 1
    MaxTTL = 2
    NXTTL = 1
    Chans = {1, 2, 3}
INVARIANTS
    TypeOK
    AnswersMatch
    ResultOnce
PROPERTY
    EveryQueryEnds
CHECK_DEADLOCK FALSE
