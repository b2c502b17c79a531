SPECIFICATION ExportsSpec
CONSTANTS
    MaxCount = 2
    MaxNonces = 4
    Syncs = {"s1", "s2", "s3"}
    MaxHeight = 2
INVARIANTS
    NoncesSpentInOrder
PROPERTIES
    SyncsAdvance
CHECK_DEADLOCK FALSE
