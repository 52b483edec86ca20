SPECIFICATION FairIdentifierSpec
CONSTANTS
    LastPage = 3
    ObjectIds = {0, 1, 2}
INVARIANTS ExchangesAccounted ReportedOnce
PROPERTIES IdentifierEnds
CHECK_DEADLOCK FALSE
