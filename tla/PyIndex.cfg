CONSTANTS
    c1 = c1
    c2 = c2
    Nobody = Nobody
    Callers <- TwoCallers
    Capacity = 2
    M = 2
    HardwareThreads = 4
    ThreadNumbers = {2, 5}
    Batches <- OneOrTwoRows
    EdgeFiles <- TwoFiles
    MaxCalls = 4
    MaxCrashes = 1
SPECIFICATION FairSpec
CHECK_DEADLOCK FALSE
INVARIANTS
    TypeOK
    StoredRowsWereGiven
    GraphIsClosed
PROPERTIES
    FailuresAreRaised
    LoadRestores
    BuiltAsFiled
    CallsEnd
