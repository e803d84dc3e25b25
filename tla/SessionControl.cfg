SPECIFICATION Spec
CONSTANTS
    FrameSet <- OddFrames
    RequestSet <- Good
    MaxFrames = 2
INVARIANT ControlPayloadLimited
