SPECIFICATION LiveSpec
CONSTANTS
    h1 = h1
    h2 = h2
    h3 = h3
    b1 = b1
    b2 = b2
    NumBlocks = 2
    Null = Null
    Handles <- ThreeHandles
    Heap <- TwoHeapBlocks
INVARIANTS
    TypeOK
    HandlesCounted
    BlocksGoHome
    FallbackOnlyWhenFull
PROPERTIES
    ImplementsSharedOwnership
    DroppedBlocksReturn
