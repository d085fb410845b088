SPECIFICATION SeqnumSpec
CONSTANTS
    Threads <- MCThreads
    Prio <- MCPrio
    SeqMax = 4
INVARIANTS SeqnumTypeOK CounterBound
PROPERTY ZeroOnlyDuringReset
