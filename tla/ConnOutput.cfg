SPECIFICATION Safe
CONSTANTS
    r1 = r1  r2 = r2  a1 = a1  a2 = a2  loop = loop
    Rounds = {r1, r2}
    Apps = {a1, a2}
    Loop = loop
    Calls = {"send", "sendowned", "cork", "flush", "closeaftersend"}
    MaxCalls = 4
    MaxInput = 1
    Room = 1
    Faults = {}
    Highs = {0, 1}
    Coalesce = TRUE
SYMMETRY Interchangeable
INVARIANTS
    InOrder
    CloseAfterSendWrites
    InputOwed
CHECK_DEADLOCK FALSE
