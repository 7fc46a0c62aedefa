CONSTANTS
    m1 = m1
    m2 = m2
    a1 = a1
    a2 = a2
    p1 = p1
    p2 = p2
    Masters = {m1, m2}
    Agents = {a1, a2}
    Pools = {p1, p2}
    PoolOf <- MCPoolOf
    Table <- MCTable
    FirstVersion <- MCFirst
    Forces = {FALSE, TRUE}
    Replicas = 1
    GateSteps = 2
    Attempts = 2
SPECIFICATION FairSpec
INVARIANTS
    SkewWithinOneUpgrade
    SuccessMeansGoal
    AutoscalerRestored
PROPERTIES
    CommandEnds
