SPECIFICATION FairSpec
CONSTANTS
    p1 = p1
    p2 = p2
    e1 = e1
    e2 = e2
    Procs = {p1, p2}
    Servers = {p1}
    Events = {e1, e2}
    Creates = {e1}
    Retention = 1
    MaxDay = 2
    MaxCrashes = 1
    Stuck <- StuckChoices
    None = None
INVARIANTS
    KeptOpens
    Shredded
PROPERTY
    ExpiredGoes
CHECK_DEADLOCK FALSE
