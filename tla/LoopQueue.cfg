SPECIFICATION Spec
CONSTANTS
    k1 = k1  k2 = k2  k3 = k3  k4 = k4  outside = outside  stopper = stopper
    Commands = {k1, k2, k3, k4}
    Asker <- Chain
    Outside = outside
    Calls = {k2}
    Rounds = {k1, k3}
    MaxSettle = 1
    Stopper = stopper
INVARIANTS
    TypeOK
    NoMissedWake
    LoopExclusive
    
PROPERTIES
    RequestsRun
    StopEndsRun
    CallsReturn
CHECK_DEADLOCK FALSE
