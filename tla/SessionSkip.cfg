SPECIFICATION Spec
CONSTANTS
    FrameSet <- OddFrames
    RequestSet <- Good
    MaxFrames = 2
PROPERTY InvalidOpcodeSkipped
