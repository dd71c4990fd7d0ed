CONSTANTS
    MaxTrades = 3
    MaxFailures = 2

SPECIFICATION FairSpec

INVARIANTS
    TypeOK
    GapsEndAtOpenings

PROPERTIES
    ComesBack
    OrphansEnd
