SPECIFICATION Spec
CONSTANTS
    t1 = t1
    t2 = t2
    None = None
    Kinds <- MCKinds
    MaxEpoch = 5
    First = 1
    Length = 3
    Value <- MCValue
    Tasks <- MCTasks
    MaxMessages = 3
CONSTRAINT MCMessages
SYMMETRY MCSymmetry
INVARIANTS
    TypeOK
    ViewsAreExact
CHECK_DEADLOCK FALSE
