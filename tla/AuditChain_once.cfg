SPECIFICATION ChainSpec
CONSTANTS
    Lines = {l1, l2, l3}
    NoLine = NoLine
    WriteTools = {TRUE, FALSE}
    MaxFiles = 2
    MaxStops = 1
SYMMETRY Symmetry
INVARIANTS ChainHolds LostIsNowhere AnchoredStays NothingFound TamperShows
CHECK_DEADLOCK FALSE
