SPECIFICATION ADKGSpec
CONSTANTS
    n1 = n1
    n2 = n2
    n3 = n3
    n4 = n4
    None = None
    P = 5
    Generator = 2
    Nodes = {n1, n2, n3, n4}
    Idx <- Indices
    N <- Totals
    T <- Degrees
    Draws <- Polynomials
    MaxAcks = 2
INVARIANTS
    ADKGTypeOK
    KeyCountsOneMore
    SharesReconstruct
    AcksAreOfHolders
PROPERTIES
    StartedCompletes
    ImplementsDealing
CHECK_DEADLOCK FALSE
