SPECIFICATION ChainFairSpec
CONSTANTS
    Ports = {p1, p2}
    UnitIds <- Units
    MaxConcurrency = 2
    MaxStops = 2
PROPERTIES ChainEnds
CHECK_DEADLOCK FALSE
