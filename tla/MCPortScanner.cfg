SPECIFICATION FairSpec
CONSTANTS
    Width = 4
    Address = 13
    Prefix = 1
    Locals = {10, 12, 13}
    ScanPorts = {502, 1502}
    JobCount <- AllJobs
    MaxConcurrency = 2
    MaxStops = 2
INVARIANTS ConnectionsAccounted SubnetScanned
PROPERTIES ImplementsFlow ScanEnds ScanProgresses
CHECK_DEADLOCK FALSE
