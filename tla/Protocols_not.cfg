SPECIFICATION Spec
CONSTANTS
    Bits = 3
    Registers = {1, 2}
    Inputs = {1, 6}
    Divisor = 2
    MaxPrimitives = 2
    BitsOnly = FALSE
    Protocols = {2}
CHECK_DEADLOCK FALSE
PROPERTIES
    NotConsidersLastBit
