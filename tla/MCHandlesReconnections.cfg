SPECIFICATION Spec
CONSTANTS
    Clients = {c1}
    MaxLives = 2
    MaxGroups = 3
    MaxAnswers = 2
    MaxFaults = 1
PROPERTY HandlesReconnections
CHECK_DEADLOCK FALSE
