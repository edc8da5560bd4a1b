SPECIFICATION Spec
CONSTANTS
    SlotCount = 2
    Consumers = {c1, c2}
    MaxSize = 2
    MaxDirtyRects = 2
    MailboxConfigs <- TwoBoxes
    BusConfigs <- TwoBuses
    Sizes = {0, 1, 2}
    MaxSequence = 2
    MaxGeneration = 2
    ReadbackSlots = 2
    Shapes = {1, 2, 3}
INVARIANTS
    LeaseIntact
    ReadyIsCurrent
    DamageComplete
    MovesMatchDamage
    MoveResultPursued
    NoTornShape
SYMMETRY ConsumerSymmetry
CHECK_DEADLOCK FALSE
