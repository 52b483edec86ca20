SPECIFICATION FairSpec
CONSTANTS
    Candidates = {c1, c2, c3}
INVARIANTS NothingLeftRunning EndsWhenScanned
PROPERTIES ImplementsFlow DiscoveryEnds
CHECK_DEADLOCK FALSE
