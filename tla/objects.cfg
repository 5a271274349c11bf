SPECIFICATION ObjectsSpec
CONSTANTS
    ChunkSize = 2
    MaxChunks = 2
    Ids <- OneId
    Positions <- TwoPositions
    MaxTwice = 1
INVARIANTS
    BlocksAddUp
CHECK_DEADLOCK FALSE
