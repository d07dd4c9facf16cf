SPECIFICATION Spec
CONSTANTS
    p1 = p1
    p2 = p2
    t1 = t1
    t2 = t2
    Projects <- MCProjects
    Traffic <- MCTraffic
    Tasks <- MCTasks
    LookedUp <- MCLookedUp
    Fetched = {}
    MaxEpoch = 2
    MaxSent = 2
SYMMETRY TaskSymmetry
CONSTRAINT MCStay
CHECK_DEADLOCK FALSE
INVARIANTS
    TypeOK
    LastFinalizedTracksMax
    LastFinalizedHasEntry
    LastSubmittedHasEntry
    BatchIsAtomic
