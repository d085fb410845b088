SPECIFICATION Spec
CONSTANTS
    BufSize = 2
    Pkts <- MCPkts
    Dsts <- MCDsts
    DstOf <- MCDstOf
    NoPkt = NoPkt
    NoDst = NoDst
INVARIANT NoUseAfterFree
PROPERTY DispatchIsComplete
