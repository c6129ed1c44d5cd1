SPECIFICATION Spec
CONSTANTS
    Threads = {t1, t2}
    Names = {docs, notes}
    MaxWrites = 3
    MaxCreates = 3
    MaxCrashes = 2
SYMMETRY Symmetry
INVARIANTS
    AckedDurable
    AlwaysOpenable
    ResurrectionNeedsCrash
CHECK_DEADLOCK FALSE
