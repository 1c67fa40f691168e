CONSTANTS
    n1 = n1
    n2 = n2
    n3 = n3
    Elements = {n1, n2, n3}
    MarkLimit = 4
    MaxClears = 7
SPECIFICATION Spec
INVARIANTS
    TypeOK
    StaleOnlyByWholeLaps
PROPERTY ActsAsSetForALap
CHECK_DEADLOCK FALSE
