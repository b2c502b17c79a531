SPECIFICATION NetReliableSpec
CONSTANTS
    n1 = n1
    n2 = n2
    Nodes = {n1, n2}
    Dealers = {n1, n2}
    NotANumber = NotANumber
    IdValue <- NumericIds
    UsizeMax = 15
    Threshold = 2
    TotalNodes = 2
    Capacity = 4
    MaxDeals = 1
PROPERTIES
    SubscribersReceive
CHECK_DEADLOCK FALSE
