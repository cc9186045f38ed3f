SPECIFICATION Reading
CONSTANTS
    r1 = r1  r2 = r2  a1 = a1  a2 = a2  loop = loop
    Rounds = {r1}
    Apps = {a1}
    Loop = loop
    Calls = {"send", "hold"}
    MaxCalls = 2
    MaxInput = 1
    Room = 1
    Faults = {"fin"}
    Highs = {0, 1}
    Coalesce = TRUE
INVARIANTS
    EndAfterInput
PROPERTIES
    InputRead
    OutputWritten
    EndCloses
CHECK_DEADLOCK FALSE
