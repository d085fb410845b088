SPECIFICATION Spec
CONSTANTS
    SeqMod = 4
    ByteMod = 4
    McSize = 2
    McLifetime = 2
    NoAddr = NoAddr
    Origs <- MCOrigs
    Targs <- MCTargs
    OwnOrigs <- MCOwnOrigs
    Seqnums <- MCSeqnums
    Metrics <- MCMetrics
    OwnSeqNoRtrs <- MCOwnSeqNoRtrs
    MaxTime = 4
INVARIANTS OneEntryPerKey EntryIsLastAccepted FreshNeverRedundant
