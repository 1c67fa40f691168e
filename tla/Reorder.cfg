CONSTANTS
    NumNodes = 4
    M = 2
    Graphs <- AllGraphs
    StaleMarks = FALSE
    Requests <- AllRequests
    Lower <- LowerCase
    Window = 1
SPECIFICATION FairReorderSpec
INVARIANTS
    ReorderTypeOK
    LinksTravelWithNodes
    EveryNodeInPlace
    SameGraph
    GreedyOrder
    CuthillMcKee
PROPERTY ReorderReturns
CHECK_DEADLOCK FALSE
