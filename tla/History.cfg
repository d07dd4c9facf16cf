SPECIFICATION Spec
CONSTANTS
    c1 = c1
    c2 = c2
    None = None
    Closed = Closed
    Callers <- MCCallers
    Numbers <- MCNumbers
    WithData <- MCWithData
    ListsOf <- MCListsOf
    Offset = 0
    Limit = 4
    MaxBatch = 3
    MaxRange = 1
    Spread = 4
    Width = 2
    MaxEpoch = 3
    FirstHead = 2
    Early = {2}
    Lag = 1
    MaxDepth = 1
    MaxCalls = 2
    Reads <- MCReads
    Intervals <- MCIntervals
    MaxFaults = 1
INVARIANTS
    TypeOK
    NothingInvented
    BitsStay
    ReadersAgree
    NothingIsHidden
PROPERTIES
    NoHoles
    CallsEnd
CHECK_DEADLOCK FALSE
