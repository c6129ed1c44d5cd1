SPECIFICATION Spec
CONSTANTS
    Docs = {d1, d2}
    Vals = {v1, v2}
    NoVal = NoVal
    Deleted = Deleted
    Settings <- OnlyFailingCompactions
    FlushRows = 2
    Batches <- MCBatches
    MaxLog = 2
    MaxId = 3
    MaxFailures = 2
PROPERTIES ImplementsDocumentMap
SYMMETRY Symmetry
CHECK_DEADLOCK FALSE
