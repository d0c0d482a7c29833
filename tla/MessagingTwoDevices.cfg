SPECIFICATION Spec
CHECK_DEADLOCK FALSE
CONSTANTS
    d1 = d1
    d2 = d2
    Users <- TwoUsers
    Devices = {d1, d2}
    Account <- Acc
    Denied <- EvenDenied
    Unreadable = {}
    MaxSends = 1
    MaxTables = 1
    MaxDrops = 1
    MaxKills = 1
INVARIANTS
    IdleIsCurrent
