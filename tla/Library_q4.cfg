SPECIFICATION SpecAnyQ4
CONSTANTS
    WordBits = 2
    NationSize = 3
    RegionSize = 2
CHECK_DEADLOCK FALSE
INVARIANTS
    QueriesMatchSql
