SPECIFICATION Spec
CHECK_DEADLOCK FALSE
CONSTANTS
    d1 = d1
    d2 = d2
    Users <- TwoUsers
    Devices = {d1}
    Account <- Acc
    Denied <- EvenDenied
    Unreadable = {}
    MaxSends = 3
    MaxTables = 1
    MaxDrops = 2
    MaxKills = 1
INVARIANTS
    TypeOK
    NoOvertaking
    NothingVanishes
PROPERTIES
    StaysVisible
    Implements
