CONSTANTS
    p1 = p1
    p2 = p2
    ds = ds
    Pods <- TwoPods
    Filtered <- DaemonPod
    CordonMaxRetries = 2
    DrainTimeout = 1
    MaxForeignWrites = 3
SPECIFICATION FairDrainSpec
CHECK_DEADLOCK FALSE
INVARIANTS
    DrainedMeansStopped
PROPERTIES
    DrainReturns
