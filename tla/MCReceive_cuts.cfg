\* Chunks end anywhere, headers may be cut, types may be invalid.  The loop
\* stops when the connection is over.
CONSTANTS
    IntSize = 2
    MaxBuf = 5
    FrameId = {1, 2}
    Payload <- MCWildPayload
    JunkHeader <- MCJunk
    SplitHeaders = TRUE
    SplitFocus = TRUE
SPECIFICATION Spec
INVARIANTS
    TypeOK
    RecvInBounds
    Framed
CHECK_DEADLOCK FALSE
