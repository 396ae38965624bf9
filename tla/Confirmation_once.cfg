SPECIFICATION Spec
CONSTANTS
    Plans = {h1, h2}
    Tokens = {t1, t2}
    Answers = {a1, a2, a3}
    TokenTtl = 1
    PlanTtl = 1
    NonceTtl = 2
    PlanCapacity = 1
    NonceCapacity = 1
    Stall = 1
    None = None
    MaxTime = 3
    MaxBack = 1
    MaxRestarts = 1
SYMMETRY Symmetry
INVARIANTS TokenCountsOnce AskedForEach
CHECK_DEADLOCK FALSE
