SPECIFICATION Spec
CONSTANTS
    MaxEpoch = 3
    MaxRequests = 2
    CacheCids = TRUE
    EpochSize = 2
    RawBlockTime = 20001
    Scale = 10000
    Stamps <- MCStamps
    Batch = 2
    Reach = 1
    Times <- MCTimes
    Spans <- MCSpans
CONSTRAINT MCApart
VIEW MCView
INVARIANTS
    TypeOK
PROPERTIES
    
    SeriesIsSpaced
    BlockIsClosest
CHECK_DEADLOCK FALSE
