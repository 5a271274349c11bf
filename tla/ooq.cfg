SPECIFICATION LiveSpec
CONSTANTS
    v1 = v1
    v2 = v2
    c1 = c1
    c2 = c2
    Size = 3
    Consumers <- TwoConsumers
    Values <- MCValues
    Default = v1
    StartingIndex = 0
    MaxIndex = 4
    Nothing = Nothing
INVARIANTS
    TypeOK
    NoLostWakeup
    SlotsHoldTheirIndex
PROPERTIES
    HasIsStable
    ImplementsOrderedDelivery
    PopMakesProgress
