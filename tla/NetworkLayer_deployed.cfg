SPECIFICATION NetFairSpec
CONSTANTS
    n1 = n1
    n2 = n2
    Nodes = {n1, n2}
    Dealers = {n1, n2}
    NotANumber = NotANumber
    IdValue <- PeerIds
    UsizeMax = 15
    Threshold = 3
    TotalNodes = 5
    Capacity = 1
    MaxDeals = 2
INVARIANTS
    DeployedNeverStuck
PROPERTIES
    StartIsAnswered
    DealingReachesGossipsub
CHECK_DEADLOCK FALSE
