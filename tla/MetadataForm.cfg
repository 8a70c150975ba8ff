SPECIFICATION Spec
CONSTANTS
    Watched <- MetadataForm
    MaxMoves <- ThreeMoves
    MaxPending = 0
    MaxTroubles = 0
INVARIANT LatestMetadataShown
CHECK_DEADLOCK FALSE
