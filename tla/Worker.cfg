SPECIFICATION Spec
CONSTANTS
    single = single
    combined = combined
    pool = pool
    sum = sum
    None = None
    Bases <- MCBases
    Aggregators <- MCAggregators
    DependsOn <- MCDependsOn
    Projects <- MCProjects
    TypeOf <- MCTypeOf
    Keeping <- MCKeeping
    Foreign <- MCForeign
    ListOf <- MCListOf
    MaxEpoch = 1
    Window = 2
    MaxRunning = 2
    MaxPending = 3
    MaxLost = 2
INVARIANTS
    TypeOK
    NamesResolve
    ChainsHaveNoRepeats
    VerdictsAreEarned
    AggregatesAreEarned
PROPERTIES
    JobsEnd
CHECK_DEADLOCK FALSE
