CONSTANTS
    ByteBits = 5
    WordBits = 5
    FloatBytes = 1
    MantissaBits = 2
    CrcBytes = 2
    CrcPoly = 576
    MaxValueDepth = 3
    IndexMinEntries = 3
    IndexEntryBytes = 1
    WordBytes = 1
    DataOffset = 12
    BitsPerWord = 4
    MaxDimension = 3
    Subjects <- MCSubjects
    Paths <- MCPaths
    DamageBytes = {0, 1, 2, 3, 7, 8, 9, 16, 17, 26, 31}
    MaxDamage = 2
    SmallFile = 14
SPECIFICATION Spec
INVARIANTS DecodeCanonical LookupAgrees DamageContained
CHECK_DEADLOCK FALSE
