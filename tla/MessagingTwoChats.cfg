SPECIFICATION FairSpec
CHECK_DEADLOCK FALSE
CONSTANTS
    d1 = d1
    d2 = d2
    Users <- FourUsers
    Devices = {d1}
    Account <- Acc
    Denied <- EvenDenied
    Unreadable <- FourthUnreadable
    MaxSends = 2
    MaxTables = 2
    MaxDrops = 1
    MaxKills = 1
INVARIANTS
    OwnConversation
    IdleIsCurrent
PROPERTIES
    Convergence
