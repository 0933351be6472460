SPECIFICATION FairSpec
CONSTANTS
    NumParties = 3
    NumWorkers = 1
    NumCommThreads = 1
    RingSize = 3
    Capacity = 1
    Rounds <- ReshareThenAll
INVARIANTS
    TypeOK
    ReceivedInOrder
    RingsFreeAtPush
    NothingLeftBehind
    NoCircularWait
PROPERTIES
    ImplementsSupersteps
    EveryCallReturns
CHECK_DEADLOCK FALSE
