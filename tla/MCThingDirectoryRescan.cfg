SPECIFICATION Spec
CONSTANTS
    Devices = {d1, d2}
    SunspecId <- OwnIds
    Shellys = {}
    MaxFailures = 3
    MaxScans = 2
    MaxNameFaults = 0
    MaxQueryFaults = 0
INVARIANTS RediscoveryFinds
CHECK_DEADLOCK FALSE
