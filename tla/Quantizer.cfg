CONSTANTS
    M = 2
    NBits = 2
    Iterations = 3
    BlockSize = 3
    Grain = 60
    Inputs <- SomeInputs
    MaxCalls = 3
SPECIFICATION Spec
CHECK_DEADLOCK FALSE
INVARIANTS
    TrainedAsKMeans
    DistancesAgree
PROPERTY DistortionNeverGrows
