CONSTANTS
    LocatorBits = 4
    k1 = k1
    k2 = k2
    k1b = k1b
    Keys <- MCKeys
    Vals = {1, 2, 3}
    PadCounts = {0, 1, 6}
    MaxTries = 2
    SaltBits = 2
    NBlocks = {2}
SPECIFICATION Spec
INVARIANT TypeOK
 
INVARIANT SaltChainsHashKeys
CHECK_DEADLOCK FALSE
