SPECIFICATION FairSpec
CONSTANTS
    NumThreads = 2
    MinChunk = 2
    Word = 64
    Main = Main
    Ops <- AllKinds
    BatchSizes <- SignedBatchSizes
    MaxOps = 2
INVARIANTS
    TypeOK
    NoTaskOutlivesItsOp
    FlagNotRaced
PROPERTIES
    ImplementsForkJoin
    OpsReturn
    ShutdownCompletes
CHECK_DEADLOCK FALSE
