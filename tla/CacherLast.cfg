SPECIFICATION Spec
CONSTANTS
    p1 = p1
    p2 = p2
    t1 = t1
    t2 = t2
    Projects <- MCOneProject
    Traffic <- MCOneTraffic
    Tasks <- MCTasks
    LookedUp = {}
    Fetched = {}
    MaxEpoch = 2
    MaxSent = 2
CHECK_DEADLOCK FALSE
PROPERTY LastFinalizedNeverDecreases
