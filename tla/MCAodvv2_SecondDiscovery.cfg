SPECIFICATION FairSpec
CONSTANTS
    SeqMod = 10
    ByteMod = 5
    NoAddr = NoAddr
    LrsSize = 4
    ActiveInterval = 1
    MaxIdletime = 1
    MaxSeqnumLifetime = 2
    McSize = 2
    McLifetime = 2
    Nodes <- MCNodes
    Scenarios <- RepeatScenarios
    Net <- MCNet
    Host <- MCHost
    MaxMetric = 4
    QueueSize = 4
    BufSize = 2
    OwnSeqNoRtrs <- Zeroed
CHECK_DEADLOCK FALSE
PROPERTY PacketsAreReleased
