SPECIFICATION FairRingSpec
CONSTANTS
    NumSlots = 3
    Buffers = {b1, b2, b3, b4}
    NoBuffer = NoBuffer
    Parts = 2
    Burst = 4
    MaxPushes = 6
INVARIANTS
    RingTypeOK
    WireInOrder
    NoSlotRace
    PopFindsItsEntry
    LiveEntriesIntact
PROPERTIES
    ImplementsContract
    EveryPushIsSent
CHECK_DEADLOCK FALSE
