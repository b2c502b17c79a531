SPECIFICATION DKGSpec
CONSTANTS
    n1 = n1
    n2 = n2
    n3 = n3
    Nodes = {n1, n2, n3}
    Dealers = {n1, n2, n3}
    NotANumber = NotANumber
    IdValue <- Ids
    UsizeMax = 15
    Threshold = 2
    TotalNodes = 3
    Capacity = 1
    MaxDeals = 2
INVARIANTS
    DKGTypeOK
    GenuineMessages
    SharesMatchDealings
    ValidationIffShare
    FirstValidationIsLast
    CompletionNeverReached
    UnparsedIdHoldsNothing
    DealingsLeaveInOrder
PROPERTIES
    ImplementsDealing
CHECK_DEADLOCK FALSE
