SPECIFICATION Spec
CONSTANTS
    WordBits = 2
    NationSize = 3
    RegionSize = 2
CHECK_DEADLOCK FALSE
INVARIANTS
    SortsStably
    ScansRun
    TablesAgree
    QueriesMatchSql
    CircuitsCompute
    VectorsAgree
