CONSTANTS
    MasterCount = 3
    Agents = {a1, a2}
    First = {a1}
    Windows = {a2}
    Successes = 2
    MaxRuns = 3
SPECIFICATION FairSpec
INVARIANTS
    SuccessMeansRotated
PROPERTIES
    AgentsFollowMasters
    RerunSucceeds
CHECK_DEADLOCK FALSE
