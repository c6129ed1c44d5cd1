SPECIFICATION Spec
CONSTANTS
    Failures = {"process", "io"}
    GroupSizes = {1, 2}
    MaxWrites = 4
    MaxFailures = 2
INVARIANTS AckedReplayed SequencesAscend NeverCorrupt HalfBatchNeedsReuse
CHECK_DEADLOCK FALSE
