CONSTANTS
    ByteBits = 5
    WordBits = 5
    FloatBytes = 1
    MantissaBits = 2
    CrcBytes = 1
    CrcPoly = 18
    MaxValueDepth = 3
    IndexMinEntries = 3
    IndexEntryBytes = 1
    MaxFilterNodes = 6
    MaxFilterDepth = 3
    Dimension = 1
    IdKind = "str"
    IdWords = 1
    MaxIdLen = 2
    ControlBytes = {0}
    MaxMetadataBytes = 40
    MaxContentBytes = 4
    IdBytes <- ToBytes
    IdsOf <- FromBytes
    Encoded <- Encode
    Decoded <- DecodeMetadata
    ValidId <- ValidateId
    IdLess <- DocIdLess
    ValidVector <- ValidateVector
    Number <- FloatNum
    ValidMetadata <- ValidateMetadata
    FilterValid <- ValidFilter
    FilterMatches <- MatchesFields
    Searchers = {s1, s2}
    Requests <- MCRequests
    Inputs <- MCInputs
    Deletes <- MCDeletes
    MaxTopK = 3
    BudgetStride = 2
    Ceilings <- MCCeilings
    MaxWrites = 4
    MaxSearches = 2
SPECIFICATION Spec
INVARIANTS AnswerExact CeilingShared LogRebuilds
PROPERTIES CancelStops
SYMMETRY Symmetry
CHECK_DEADLOCK FALSE
