SPECIFICATION Spec
CONSTANTS
    Configurations <- MCConfigurations
    DuplicatedFrames <- MCDuplicatedFrames
    SourceDirt <- MCSourceDirt
    TileChanges <- MCTileChanges
    Pointers <- MCPointers
    MaxDirtyRects = 3
    MaxMoveRects = 2
    TileSize = 2
    MaxFrames = 1
INVARIANTS DamageReplays DamageAccepted CursorFollows
CHECK_DEADLOCK FALSE
