CONSTANTS
    N = 3
    Forces = {TRUE, FALSE}
    ListCanFail = TRUE
    MaxAborts = 3
SPECIFICATION FairSpec
INVARIANTS
    OneMasterDownPerAbort
    SuccessLeavesNoOldMaster
PROPERTIES
    RetryConverges
