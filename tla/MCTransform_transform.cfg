SPECIFICATION Spec
CONSTANTS
    DCTSIZE = 2
    Sources <- AllSources
    Jobs <- AllJobs
    Sizes = {1, 3, 6, 8, 9, 14}
    Lengths = {5, 12}
INVARIANTS
    StaysInArrays
    MovesSamples
    TurnsCompose
    CropsExact
CHECK_DEADLOCK FALSE
