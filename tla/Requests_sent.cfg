SPECIFICATION FairSpec
CONSTANTS
    c1 = c1
    c2 = c2
    c3 = c3
    Rate = 13
    Minute = 20
    Second = 1
    NoTime = NoTime
    Calls = {c1, c2, c3}
    Connections = 1
    Worlds <- WorldsOfCalls
INVARIANTS
    PlacesHold
    ToldAsItWas
    NeverOverRate
PROPERTY
    EveryCallEnds
CHECK_DEADLOCK FALSE
