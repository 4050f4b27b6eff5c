\* Chunks end anywhere except inside a header or a focus payload.
CONSTANTS
    IntSize = 2
    MaxBuf = 7
    FrameId = {1, 2, 3}
    Payload <- MCPayload
    JunkHeader <- MCNoJunk
    SplitHeaders = FALSE
    SplitFocus = FALSE
SPECIFICATION FairSpec
INVARIANT NameFits
PROPERTIES
    DeliversFrames
    ChunkConsumed
