SPECIFICATION Spec
CONSTANTS
    Bits = 3
    Registers = {1, 2}
    Inputs = {1, 6}
    Divisor = 2
    MaxPrimitives = 3
    BitsOnly = TRUE
    Protocols = {2, 3, 4, 5}
CHECK_DEADLOCK FALSE
INVARIANTS
    TypeOK
    SharesAgree
    GeneratorsInStep
    NoFalseAlarm
PROPERTIES
    ImplementsIdeal
