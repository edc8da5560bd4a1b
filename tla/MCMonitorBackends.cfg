SPECIFICATION FairSpec
CONSTANTS
    DesktopWidth = 3
    FrameWidth = 2
    MaxDirtyRects = 1
    Configurations <- Everything
    MaxSequence = 3
    MaxEvents = 1
    MaxLost = 1
    MaxRebuilds = 1
INVARIANTS
    DamageComplete
    SessionRefresh
    ShapeAnnounced
PROPERTIES
    StopReleasesProducer
CHECK_DEADLOCK FALSE
