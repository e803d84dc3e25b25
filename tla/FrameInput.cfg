SPECIFICATION Spec
CONSTANTS
    FrameSet <- TenFrames
    PayloadLengths <- FewLengths
    PieceSize = 2
    BufferSize = 3
    Chunk = 2
    PingLimit = 2
    MaxFrames = 3
CHECK_DEADLOCK FALSE
INVARIANTS
    TypeOK
    AppendsFit
    JoinedLength
    DroppedForCause
PROPERTIES
    TakesFramesInOrder
    WholeFramesTaken
