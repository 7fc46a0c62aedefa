CONSTANTS
    StartCount = 3
    Wants = {1, 2, 4}
    MaxIndex = 10
    MaxRuns = 3
SPECIFICATION FairSpec
INVARIANTS
    SuccessMeansWanted
    NeverBelowWanted
PROPERTIES
    DrainedBeforeDeleted
    RunEnds
