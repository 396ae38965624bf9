SPECIFICATION Spec
CONSTANTS
    Procs = {p1, p2}
    Names = {n1, n2, n3}
    Lines = {l1}
    NoName = NoName
    NoLine = NoLine
    DayTicks = 2
    Grace = 2
    Retention = 0
    MaxReopens = 1
    MaxTime = 2
    MaxStarts = 2
    MaxByHand = 1
SYMMETRY Symmetry
INVARIANTS LinesStay SweepsCostNothing CleanTookAll
CHECK_DEADLOCK FALSE
