SPECIFICATION Spec
CONSTANTS
  SlotCount = 2
  MaxConsumers = 1
  MaxSequence = 3
  MaxGeneration = 2
  Faults = {"consumer_exit", "publisher_exit", "device", "register"}
INVARIANTS
  NoOverwriteWhileRead
  MetadataPaired
  GateProtectsIndex
PROPERTIES
  Exchanges
CHECK_DEADLOCK FALSE
