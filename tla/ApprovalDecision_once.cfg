SPECIFICATION FairSpec
CONSTANTS
    Commands = {c1, c2}
    Times = {t1, t2}
    NoTime = NoTime
    NoRecord = NoRecord
    Retention = 0
    CountKeep = 1
    MaxDay = 2
    MaxBack = 1
    MaxNights = 0
    MaxLossyDay = 0
    Counters = {TRUE, FALSE}
    FsFails = TRUE
INVARIANTS AtMostOneWrite RejectedNeverWritten
PROPERTIES EntryDecidedOnce DecidedContentGoes
CHECK_DEADLOCK FALSE
