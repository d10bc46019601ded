CONSTANTS
    LocatorBits = 4
    k1 = k1
    k2 = k2
    Keys = {k1}
    Vals = {1, 2, 3}
    PadCounts = {0, 1, 6}
    MaxTries = 2
    SaltBits = 2
    NBlocks = {2, 3}
    BlockSize = 1
SPECIFICATION FileSpec
INVARIANT ReadRoundTrip
INVARIANT CorruptFileRejected
CHECK_DEADLOCK FALSE
