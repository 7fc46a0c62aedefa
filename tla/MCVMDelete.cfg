CONSTANTS
    VMs = {v1, v2}
    Roles = {r1, r2}
    Infos <- MCInfos
    MaxCalls = 2
SPECIFICATION FairSpec
INVARIANTS
    FailuresAreListed
    WholeUntilDeleted
PROPERTIES
    CallReturns
    ImplementsBatchDelete
