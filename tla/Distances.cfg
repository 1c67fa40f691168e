CONSTANTS
    t1 = t1
    t2 = t2
    Threads <- TwoThreads
    Dimensions <- SomeDimensions
SPECIFICATION Spec
CHECK_DEADLOCK FALSE
INVARIANTS
    TypeOK
    DistanceIsDefault
    UndefinedOnlyForTinyL2
    KernelOfTheMachine
