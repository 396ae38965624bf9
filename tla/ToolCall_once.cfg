SPECIFICATION Spec
CONSTANTS
    Calls = {c1, c2}
    ReadBudget = 1
    MaxWaiting = 1
    MaxReads = 1
    MaxDay = 1
SYMMETRY Symmetry
INVARIANTS TypeOK SpecialIsRecorded OkLinesWentOut BoundsHold GivenUpGoesOn
CHECK_DEADLOCK FALSE
