SPECIFICATION FairSpec
CONSTANTS
    MaxReads = 5
    InvalidReads = {2}
    MaxTransaction = 3
    MaxFaults = 2
INVARIANTS ReadsAccounted FirstInFirstDecided OwnAnswer
PROPERTIES ImplementsContract EveryReadEnds
CHECK_DEADLOCK FALSE
