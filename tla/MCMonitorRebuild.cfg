SPECIFICATION Spec
CONSTANTS
    DesktopWidth = 3
    FrameWidth = 2
    MaxDirtyRects = 1
    Configurations <- Everything
    MaxSequence = 3
    MaxEvents = 1
    MaxLost = 1
    MaxRebuilds = 1
INVARIANTS
    RebuildsRetried
CHECK_DEADLOCK FALSE
