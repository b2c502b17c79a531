SPECIFICATION ServicesSpec
CONSTANTS
    Announced <- TwoPeers
    Commands = {"share_generation", "sign_message"}
    Keys = {"k"}
    Values = {"v"}
    Capacity = 1
    MaxSends = 2
    MaxEvents = 2
INVARIANTS
    TableMatchesMdns
    BlockedSetupNeverStarts
    EndsAtFirstError
PROPERTIES
    SentIsHandled
CHECK_DEADLOCK FALSE
