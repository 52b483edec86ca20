SPECIFICATION FairSpec
CONSTANTS
    Threads = {t1, t2}
    Keys = {k1, k2}
    Values = {v1, v2}
    Missing = Missing
    Unreadable = Unreadable
    Absent = Absent
    None = None
    MaxSaves = 3
    MaxFaults = 2
    MaxCrashes = 1
INVARIANTS SavedStays
PROPERTIES ImplementsStore SavesEnd
CHECK_DEADLOCK FALSE
