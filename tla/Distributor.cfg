SPECIFICATION Spec
CONSTANTS
    plain = plain
    single = single
    double = double
    block = block
    receipts = receipts
    Projects <- MCProjects
    Preloaders <- MCPreloaders
    Needs <- MCNeeds
    MaxEpoch = 2
    Keep = 1
    MaxReleases = 2
INVARIANTS
    TypeOK
    JobsAreEarned
    VerdictIsTrue
    EntriesAreDropped
    ConditionsAreThere
