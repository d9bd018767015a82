SPECIFICATION Spec
CONSTANTS
    Clients = {c1}
    MaxLives = 2
    MaxGroups = 3
    MaxAnswers = 2
    MaxFaults = 1
INVARIANTS
    NoGroupLost
    NoGroupOutlives
    OfferAgrees
PROPERTIES
    AnswerTakenOnce
    StoppedLoopExits
    FreshAfterUse
    OfferRestored
CHECK_DEADLOCK FALSE
