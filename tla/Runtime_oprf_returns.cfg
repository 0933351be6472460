SPECIFICATION FairSpec
CONSTANTS
    NumThreads = 3
    MinChunk = 2
    Word = 64
    Main = Main
    Ops <- OprfOps
    BatchSizes <- SignedBatchSizes
    MaxOps = 1
PROPERTIES
    OpsReturn
CHECK_DEADLOCK FALSE
