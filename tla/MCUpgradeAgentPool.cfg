CONSTANTS
    Count = 2
    MaxIndex = 4
    Forces = {TRUE, FALSE}
    MaxAborts = 2
    MaxFlaws = 1
SPECIFICATION FairSpec
INVARIANTS
    PoolKeepsServing
    SuccessMeansUpgraded
    SuccessRestoresCount
    NeverDeploysOverVM
    PropertiesSurvive
PROPERTIES
    RetryConverges
