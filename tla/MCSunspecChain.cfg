SPECIFICATION ChainFairSpec
CONSTANTS
    Ports = {p1, p2}
    UnitIds <- Units
    MaxConcurrency = 2
    MaxStops = 2
INVARIANTS ReleasedUntouched EndsWhenIdentified
PROPERTIES ImplementsFlow SilentOnceStopped ChainEndsUnlessStoppedLate
CHECK_DEADLOCK FALSE
