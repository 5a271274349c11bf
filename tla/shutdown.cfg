SPECIFICATION Spec
CONSTANTS
    c1 = c1
    c2 = c2
    w1 = w1
    w2 = w2
    a1 = a1
    Clients <- TwoClients
    AddressOf <- SharedAddress
    GoodVersion <- OnlyFirst
    Workers <- OneWorker
    NoConnection = NoConnection
INVARIANTS
    PointersKeepBlocks
CHECK_DEADLOCK FALSE
