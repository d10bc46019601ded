CONSTANTS
    LocatorBits = 5
    k1 = k1
    k2 = k2
    k1b = k1b
    Keys = {k1}
    Vals = {1, 2, 3, 4}
    PadCounts = {0, 1, 2, 12}
    MaxTries = 1
    SaltBits = 2
    NBlocks = {2}
SPECIFICATION Spec
INVARIANT QueryCorrect
CHECK_DEADLOCK FALSE
