SPECIFICATION Spec
CONSTANTS
    SeqMod = 16
    ByteMod = 4
    NoAddr = NoAddr
    LrsSize = 4
    ActiveInterval = 1
    MaxIdletime = 1
    MaxSeqnumLifetime = 2
    McSize = 2
    McLifetime = 2
    Nodes <- MCNodes
    Scenarios <- DiscoveryScenarios
    Net <- MCNet
    Host <- MCHost
    MaxMetric = 3
    QueueSize = 2
    BufSize = 1
    OwnSeqNoRtrs <- Garbage
CHECK_DEADLOCK FALSE
INVARIANTS TypeOK HopBudget MetricCoversDistance NextHopKnowsTheWay
PROPERTY ReleasedAfterAdd
