SPECIFICATION Spec
CONSTANTS
    s1 = s1  s2 = s2  w1 = w1  w2 = w2  t1 = t1  t2 = t2  t3 = t3
    Submitters = {s1, s2}
    Batch <- OneEach
    Workers = {w1, w2}
    Shards = 2
    MaxWorkers = 1
    QueueSize = 1
    Stops = TRUE
INVARIANTS
    TypeOK
    SlotsHeld
    
    SendsReceived
PROPERTIES
    PoolSpec
    StopReturns
CHECK_DEADLOCK FALSE
