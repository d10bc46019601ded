CONSTANTS
    LocatorBits = 6
    Vals = {1, 2, 3, 4}
    MaxCount = 6
SPECIFICATION Spec
INVARIANT TypeOK
INVARIANT ResponseMapTiles
INVARIANT WidthWithinFactorTwo
