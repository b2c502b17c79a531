SPECIFICATION AgentSpec
CONSTANTS
    n1 = n1
    n2 = n2
    a1 = a1
    a2 = a2
    a3 = a3
    Nodes = {n1, n2}
    Dealers = {n1}
    NotANumber = NotANumber
    IdValue <- NumericIds
    UsizeMax = 15
    Threshold = 2
    TotalNodes = 2
    Capacity = 1
    MaxDeals = 2
    Agents = {a1, a2, a3}
    Requests <- AgentRequests
    Target <- AllAskN1
INVARIANTS
    BlockedOnFullChannel
    AnswersAreBacked
    RefusedLeavesNoTrace
    AgentTypeOK
    DealingsHaveCalls
    PeerIdsNeverArrive
    GossipDecodes
PROPERTIES
    ImplementsNetwork
    ImplementsDKG
CHECK_DEADLOCK FALSE
