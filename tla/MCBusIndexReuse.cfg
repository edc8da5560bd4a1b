SPECIFICATION ReuseSpec
CONSTANTS
  SlotCount = 2
  MaxConsumers = 1
  MaxSequence = 3
  MaxGeneration = 2
  Faults = {"fence"}
INVARIANTS
  ReaderBitHeld
CHECK_DEADLOCK FALSE
