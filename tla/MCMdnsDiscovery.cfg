SPECIFICATION FairSpec
CONSTANTS
    Instances = {i1, i2}
    Hosts = {h1, h2}
    Addresses = {a1, a2}
    FirstHost = h1
    FirstAddress <- Apart
    None = None
    MaxMoves = 1
    MaxLate = 1
    MaxQueryFaults = 1
INVARIANTS EmissionsCurrent
PROPERTIES ImplementsFlow SettlesOnTruth
CHECK_DEADLOCK FALSE
