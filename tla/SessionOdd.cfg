SPECIFICATION Spec
CONSTANTS
    FrameSet <- OddFrames
    RequestSet <- Requests
    MaxFrames = 3
INVARIANT NothingLeftBehind
PROPERTIES
    HalfClosedDropped
    FramesConsumed
