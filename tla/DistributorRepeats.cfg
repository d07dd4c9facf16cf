SPECIFICATION FairSpec
CONSTANTS
    plain = plain
    single = single
    double = double
    block = block
    receipts = receipts
    Projects <- MCOneProject
    Preloaders <- MCOnePreloader
    Needs <- MCOneNeeds
    MaxEpoch = 1
    Keep = 1
    MaxReleases = 3
INVARIANTS
    JobsAreEarned
PROPERTIES
    EveryReleaseIsDecided
