SPECIFICATION Spec
CONSTANTS
    Watched <- AllViews
    MaxMoves <- MovesBySlice
    MaxPending = 1
    MaxTroubles = 1
INVARIANTS
    TypeOK
    EffectsSettle
    NewestAsksForControls
    OwnWriteShown
CHECK_DEADLOCK FALSE
