SPECIFICATION Safe
CONSTANTS
    r1 = r1  r2 = r2  a1 = a1  a2 = a2  loop = loop
    Rounds = {r1, r2}
    Apps = {a1}
    Loop = loop
    Calls = {"send", "close", "closeaftersend"}
    MaxCalls = 2
    MaxInput = 1
    Room = 1
    Faults = {"fin", "reset", "panic", "refuse", "stop"}
    Highs = {0, 1}
    Coalesce = TRUE
SYMMETRY Interchangeable
INVARIANTS
    TypeOK
    OneRound
    OnCloseLast
    DescriptorHeld
    CloseInHand
    CloseTells
CHECK_DEADLOCK FALSE
