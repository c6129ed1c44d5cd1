SPECIFICATION FairSpec
CONSTANTS
    Files = {"manifest", "log", "deep"}
    Dirs <- MCDirs
    Root = "db"
    Parent <- MCParent
    Objects = {"o1", "o2", "o3"}
    Slots = {1, 2}
    LongPaths = {"deep"}
    BlockBytes = 2
    Adapters = {"opfs", "indexeddb"}
    Used <- MCUsed
    Handles = {1}
    AppendSizes = {2}
    MaxLen = 3
    MaxDeaths = 2
    MaxFailures = 1
    MaxWaiting = 1
INVARIANTS MatchesReference ForeignBytesNeedTwoDeaths StoreIsOneMoment OnlyLostKeysMissing PendingIsScheduled
PROPERTY WritesReachTheStore
CHECK_DEADLOCK FALSE
