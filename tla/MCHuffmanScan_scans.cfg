SPECIFICATION Spec
CONSTANTS
    Images <- AllImages
    Scripts <- AllScripts
    Intervals = {0, 1, 2}
    Components = {1, 2}
    Se_max = 5
    RunLimit = 3
    MAX_CORR_BITS = 7
    MAX_COEF_BITS = 3
    coef_limit <- Limits
    LossyImages <- SomeImages
    MaxLost = 3
    M_SOF0 = 2
    M_RST0 = 3
    M_EOI = 11
    MAX_CLEN = 7
    CodeLimit = 4
    HUFF_LOOKAHEAD = 2
    ByteSize = 4
    MIN_GET_BITS = 9
    Pseudo = 256
INVARIANTS
    HuffmanTypeOK
    GatherAgrees
    ScansExact
    TablesOptimal
    NeverStuck
CHECK_DEADLOCK FALSE
