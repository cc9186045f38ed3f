SPECIFICATION Spec
CONSTANTS
    s1 = s1
    s2 = s2
    w1 = w1
    w2 = w2
    w3 = w3
    t1 = t1
    t2 = t2
    t3 = t3
    Submitters = {s1}
    Batch <- OneBatch
    Tryers = {}
    Workers = {w1, w2}
    QueueSize = 2
    Limits <- UpToTwo
    Ranges <- NoResize
    MaxWaking = 2
    Shrinks = FALSE
    Stops = TRUE
PROPERTIES
    AcceptedRuns
    StopReturns
    FansOut
CHECK_DEADLOCK FALSE
