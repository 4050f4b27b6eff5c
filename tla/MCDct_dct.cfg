SPECIFICATION Spec
CONSTANTS
    Sizes <- SoundSizes
    Quants <- MCQuants
    Pictures <- MCPictures
    Generations = 2
INVARIANTS
    DctTypeOK
    
    RoundTrip
    TurnedBlocksDecode
PROPERTY Recoded
CHECK_DEADLOCK FALSE
