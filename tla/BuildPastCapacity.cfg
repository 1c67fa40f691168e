CONSTANTS
    t1 = t1
    t2 = t2
    t3 = t3
    Threads <- TwoThreads
    NumRows = 5
    Capacity = 4
    M = 4
    EfConstruction = 3
    NumInit = 2
    Dist <- LineDist
    StaleMarks = TRUE
    Free = Free
SPECIFICATION FairSpec
PROPERTY Completes
