SPECIFICATION FairSpec
CONSTANTS
    MaxHeight = 4
    CatchUp = 2
    NodeLag = 1
    EpochBlocks = {1, 3, 4}
    MaxRestarts = 2
    MaxRewinds = 1
INVARIANTS
    TypeOK
    AtLeastOnce
    MarkerIsCurrent
    BoundedRepeats
PROPERTIES
    SkipsOnlyOldBlocks
    ImplementsFeed
    EveryBlockSettles
