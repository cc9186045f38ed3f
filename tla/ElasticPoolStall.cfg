SPECIFICATION Spec
CONSTANTS
    s1 = s1  s2 = s2  w1 = w1  w2 = w2  t1 = t1  t2 = t2  t3 = t3
    Submitters = {s1, s2}
    Batch <- Three
    Workers = {w1, w2}
    Shards = 1
    MaxWorkers = 1
    QueueSize = 1
    Stops = FALSE
PROPERTIES
    AcceptedRuns
CHECK_DEADLOCK FALSE
