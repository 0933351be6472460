SPECIFICATION Spec
CONSTANTS
    NumThreads = 3
    MinChunk = 2
    Word = 64
    Main = Main
    Ops <- ManySizes
    BatchSizes <- SignedBatchSizes
    MaxOps = 1
INVARIANTS
    ResultComplete
    GroupsNotSplit
CHECK_DEADLOCK FALSE
