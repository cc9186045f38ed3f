SPECIFICATION Spec
CONSTANTS
    k1 = k1  k2 = k2
    Conns = {k1, k2}
    MaxPending = 4
    MaxCharge = 3
    MaxSends = 2
PROPERTIES
    BudgetResumes
CHECK_DEADLOCK FALSE
