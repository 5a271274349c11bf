SPECIFICATION LiveSpec
CONSTANTS
    c1 = c1
    w1 = w1
    w2 = w2
    Clients <- OneClient
    Workers <- TwoWorkers
    WireMax = 3
    CounterMod = 6
    FirstNumbers <- Edges
    MaxInputs = 2
    MaxReceived = 2
    None = None
INVARIANTS
    TypeOK
    NumbersIncrease
    NewestIsSelected
PROPERTIES
    HandledReachesTick
