SPECIFICATION Spec
CONSTANTS
    Devices = {d1, d2}
    SunspecId <- OwnIds
    Shellys = {k1}
    MaxFailures = 2
    MaxScans = 2
    MaxNameFaults = 1
    MaxQueryFaults = 1
INVARIANTS ThingsAccounted  KeepsListening
SYMMETRY DevicesAlike
CHECK_DEADLOCK FALSE
