SPECIFICATION Spec
CONSTANTS
    Roots = {r0, r1, r2}
    EmptyRoot = r0
    FaultSets = {{"process", "io"}, {"power"}}
    MaxSequence = 4
INVARIANTS TypeOK CommitAtomic NoTie
PROPERTIES RootNeverGoesBack ImplementsAtomicRoot
CHECK_DEADLOCK FALSE
