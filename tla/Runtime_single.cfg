SPECIFICATION Spec
CONSTANTS
    NumThreads = 2
    MinChunk = 2
    Word = 64
    Main = Main
    Ops <- SingleOps
    BatchSizes <- SignedBatchSizes
    MaxOps = 1
INVARIANTS
    BatchSizeUsable
CHECK_DEADLOCK FALSE
