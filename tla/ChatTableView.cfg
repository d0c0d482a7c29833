SPECIFICATION FairSpec
CHECK_DEADLOCK FALSE
CONSTANTS
    Times = {0, 1, 2, 4}
    DayLength = 2
    GapDays = {1}
    NewYears = {3}
    FirstDay = 2
    MaxMidnights = 1
    MaxMessages = 3
    MaxRefused = 1
INVARIANTS
    TypeOK
    Chronological
    RowsCurrent
    HeadersCurrent
    EndsAtBottom
PROPERTIES
    EventuallyShown
