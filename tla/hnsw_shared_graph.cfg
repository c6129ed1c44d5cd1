SPECIFICATION Spec
CONSTANTS
    docs = docs
    notes = notes
    Collections = {docs, notes}
    Docs = {d1, d2}
    Threads = {t1, t2}
    Metrics <- OneOverridden
    Dimension <- OneDimension
    Writes = {"insert", "replace", "delete", "flush", "compact"}
    TopK = 2
    MaxWrites = 3
SYMMETRY Symmetry
INVARIANTS RightUntilRowsMove PreparedIsUsable
CHECK_DEADLOCK FALSE
