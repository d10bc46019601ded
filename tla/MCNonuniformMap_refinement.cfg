CONSTANTS
    LocatorBits = 4
    k1 = k1
    k2 = k2
    k1b = k1b
    Keys = {k1}
    Vals = {1, 2, 3}
    PadCounts = {0, 1, 6}
    MaxTries = 1
    SaltBits = 2
    NBlocks = {2}
SPECIFICATION Spec
PROPERTY StaticFunctionRefined
CHECK_DEADLOCK FALSE
