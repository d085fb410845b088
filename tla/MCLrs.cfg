SPECIFICATION Spec
CONSTANTS
    SeqMod = 8
    ByteMod = 4
    LrsSize = 2
    ActiveInterval = 1
    MaxIdletime = 1
    MaxSeqnumLifetime = 3
    NoAddr = NoAddr
    Addrs <- MCAddrs
    NextHops <- MCNextHops
    MetricTypes <- MCMetricTypes
    Seqnums <- MCSeqnums
    Metrics <- MCMetrics
    MaxTime = 6
INVARIANTS UnusedIsBlank OneRoutePerDestination SeqnumInfoRetained
PROPERTIES LifeCycle ImplementsRouteMap
