SPECIFICATION Spec
CONSTANTS
    Threads = {t1, t2}
    Names = {docs, notes}
    MaxWrites = 2
    MaxCreates = 2
    MaxCrashes = 0
SYMMETRY Symmetry
INVARIANT ThreadsKeepWrites
CHECK_DEADLOCK FALSE
