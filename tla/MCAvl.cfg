SPECIFICATION Spec
CONSTANTS
    NULL = NULL
    HEAD = HEAD
    Node <- MCNode
    key <- MCkey
    allow_dups = TRUE
    LoopBound = 2
    FollowerBound = 5
INVARIANTS TreeAgreesWithList LookupsAgree LoopVisitsAll
PROPERTIES ImplementsSortedBag
