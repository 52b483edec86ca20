SPECIFICATION FairSpec
CONSTANTS
    UnitCount = 3
    Base = 10
    Limit = 40
    MaxRegisterSpan = 22
    MaxModels = 4
    Chunk = 3
    CommonLengths = {4, 5}
    ModelIds = {"common", "inverter"}
    Lengths = {0, 1, 4, 9}
INVARIANTS ChainWellFormed EmittedWhole SweepInOrder
PROPERTIES ImplementsFlow WorkShrinks ScanEnds
CHECK_DEADLOCK FALSE
