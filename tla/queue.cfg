SPECIFICATION LiveSpec
CONSTANTS
    q1 = q1
    q2 = q2
    c1 = c1
    c2 = c2
    s1 = s1
    s2 = s2
    Queues <- TwoQueues
    Consumers <- TwoConsumers
    Swappers <- TwoSwappers
    MaxSizes <- OneAndTwo
    MaxPushed = 3
    Nobody = Nobody
INVARIANTS
    TypeOK
    NoValueSleeps
PROPERTIES
    ImplementsBoundedQueues
    ValuesReachWaiters
