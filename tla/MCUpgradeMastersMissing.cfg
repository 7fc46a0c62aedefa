CONSTANTS
    N = 3
    Forces = {FALSE}
    ListCanFail = FALSE
    MaxAborts = 1
SPECIFICATION Spec
INVARIANT
    SuccessMeansComplete
