SPECIFICATION FrameSpec
CONSTANTS
  SlotCount = 2
  MaxConsumers = 2
  MaxSequence = 2
  MaxGeneration = 2
  Faults = {"fence"}
INVARIANTS
  LeaseValid
CHECK_DEADLOCK FALSE
