SPECIFICATION FairSpec
CONSTANTS
  SlotCount = 2
  MaxConsumers = 1
  MaxSequence = 1
  MaxGeneration = 2
  Faults = {"consumer_exit", "publisher_exit"}
PROPERTIES
  AcquireStops
  ReaderBitsDrain
  IndexReclaimed
CHECK_DEADLOCK FALSE
