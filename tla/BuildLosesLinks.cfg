CONSTANTS
    t1 = t1
    t2 = t2
    t3 = t3
    Threads <- TwoThreads
    NumRows = 3
    Capacity = 3
    M = 2
    EfConstruction = 2
    NumInit = 2
    Dist <- LineDist
    StaleMarks = FALSE
    Free = Free
SPECIFICATION Spec
PROPERTY LinksGoOnlyWhenFull
