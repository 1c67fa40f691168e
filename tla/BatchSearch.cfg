CONSTANTS
    NumNodes = 5
    M = 2
    NumQueries = 3
    QueryDist <- LineQueries
    K = 2
    EfSearch = 1
    NumInit = 2
    PushHeap <- BinaryPush
    PopHeap <- BinaryPop
    Graphs <- BranchingGraphs
    Concurrency = 2
SPECIFICATION FairSpec
INVARIANT SameAsSearch
PROPERTY ReturnsAllAnswers
CHECK_DEADLOCK FALSE
