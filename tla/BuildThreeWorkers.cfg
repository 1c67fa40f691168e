CONSTANTS
    t1 = t1
    t2 = t2
    t3 = t3
    Threads <- ThreeThreads
    NumRows = 4
    Capacity = 4
    M = 2
    EfConstruction = 3
    NumInit = 2
    Dist <- LineDist
    StaleMarks = FALSE
    Free = Free
SYMMETRY Symmetry
SPECIFICATION Spec
INVARIANTS
    TypeOK
    LockOrder
    NoDeadlock
    LinkSlotsSuffice
    NoDuplicateLinks
    ConnectedNodesLeadOut
    EveryRowStoredOnce
PROPERTY ScanSeesOneState
