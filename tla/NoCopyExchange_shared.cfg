SPECIFICATION Spec
CONSTANTS
    NumParties = 3
    NumWorkers = 2
    NumCommThreads = 1
    RingSize = 3
    Capacity = 1
    Rounds <- Reshare3PC
INVARIANTS
    NoCircularWait
CHECK_DEADLOCK FALSE
