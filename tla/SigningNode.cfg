SPECIFICATION SigningSpec
CONSTANTS
    s1 = s1
    s2 = s2
    s3 = s3
    Signers = {s1, s2, s3}
    Threshold <- Thresholds
    Capacity = 1
    MaxStarts = 2
SYMMETRY Interchangeable
INVARIANTS
    SigningTypeOK
    CommitmentsAreOfOthers
    SharesHaveQuorums
    TooFewSigners
CHECK_DEADLOCK FALSE
