SPECIFICATION FairSpec
CONSTANTS
    QueueDepth = 3
    MaxSequence = 5
    SourceModes = {"submissions", "shared_bus"}
    Faults = {"startup", "copy", "encoder", "exception"}
INVARIANTS ReadsOwnFrame OneWriter FramesAccounted
PROPERTIES EncodesInOrder DrainFinishes
CHECK_DEADLOCK FALSE
