SPECIFICATION Spec
CONSTANTS
    FrameSet <- TextFrames
    RequestSet <- Good
    MaxFrames = 4
INVARIANTS
    FragmentAgree
    RelayedWhole
    PingsAnswered
PROPERTIES
    RelaysTheStream
