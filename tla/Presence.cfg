SPECIFICATION FairSpec
CHECK_DEADLOCK FALSE
CONSTANTS
    Devices = {d1, d2}
    MaxChanges = 9
    MaxKills = 1
    MaxSignIns = 3
INVARIANTS
    TypeOK
    PresenceFollowsScene
    ListCurrent
PROPERTIES
    OnlineIsSeen
