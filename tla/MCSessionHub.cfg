SPECIFICATION MCSpec
CONSTANTS
    Sessions = {s1}
    Streams = {st1, st2}
    Posters = {p1, p2}
    MaxPosts = 2
INVARIANTS
    TypeOK
    RegistryLive
    NoLostUpdate
PROPERTIES
    ImplementsMailbox
    UpdateReachesStream
