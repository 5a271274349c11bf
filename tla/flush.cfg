SPECIFICATION LiveSpec
CONSTANTS
    f1 = f1
    f2 = f2
    Flushers <- TwoFlushers
    Reserve = 0
    MaxElements = 4
INVARIANTS
    TypeOK
PROPERTIES
    ImplementsMessageBuffer
    HintGrows
    FlushReturns
