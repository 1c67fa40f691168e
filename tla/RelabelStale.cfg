CONSTANTS
    NumNodes = 3
    M = 2
    Graphs <- SomeGraphs
    StaleMarks = TRUE
SPECIFICATION Spec
INVARIANT EveryNodeInPlace
CHECK_DEADLOCK FALSE
