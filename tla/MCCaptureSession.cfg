SPECIFICATION FairSpec
CONSTANTS
    BufferCount = 2
    Threads = {"owner", "reader"}
    Calls <- OneCaller
    Images = {"A", "B"}
    MaxSequence = 3
INVARIANTS
    LeaseIntact
    DirtyComplete
    NoMissedWakeup
PROPERTIES
    StopEnds
CHECK_DEADLOCK FALSE
