CONSTANTS
    ByteBits = 5
    WordBits = 5
    FloatBytes = 1
    MantissaBits = 2
    CrcBytes = 1
    CrcPoly = 18
    MaxValueDepth = 3
    IndexMinEntries = 3
    IndexEntryBytes = 1
    MaxFilterNodes = 12
    MaxFilterDepth = 5
    MaxQueryDepth = 3
    MaxIntegral = 8
    good = good
    bad = bad
    i1 = i1
    Instances = {d1, d2}
    Names = {good, bad}
    BadNames = {bad}
    Ids = {i1}
    MaxDimension = 2
    MaxResults = 3
    Threads = {t1, t2}
    Wrappers = {w1, w2}
    FilterValid <- ValidFilter
    FilterMatches <- MatchesMetadata
    NoMetadata <- Empty
    CompiledMetadata <- MetadataOf
    CompiledFilter <- FilterOf
    Selects <- Means
    NoFields <- None
    Calls <- MCCalls
    Plans <- MCPlans
SPECIFICATION Spec
INVARIANTS MisuseNeedsOverlap NothingLeftBehind AnswerMeansQuery SurfacesAgree
CHECK_DEADLOCK FALSE
