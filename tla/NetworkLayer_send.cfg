SPECIFICATION NetFairSpec
CONSTANTS
    n1 = n1
    n2 = n2
    Nodes = {n1, n2}
    Dealers = {n1}
    NotANumber = NotANumber
    IdValue <- NumericIds
    UsizeMax = 15
    Threshold = 2
    TotalNodes = 2
    Capacity = 1
    MaxDeals = 2
PROPERTIES
    SendCompletes
CHECK_DEADLOCK FALSE
