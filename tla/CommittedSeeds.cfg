SPECIFICATION FairSpec
CONSTANTS
    NumParties = 4
    BatchSize = 5
    Threshold = 3
    Checks = 3
INVARIANTS
    TypeOK
    NoFalseAlarm
    SameDecisions
    CommonGenerators
    CommittedBeforeOpened
    NeverDry
PROPERTIES
    AllThrough
CHECK_DEADLOCK FALSE
