CONSTANTS
    FirstYear = 2023
    LastYear = 2025
    MaxAge = 3
    FirstWeekday = 0
    MinDays = 1
SPECIFICATION Spec
INVARIANT TypeOK
INVARIANT YesterdayHeader
INVARIANT OlderHeader
INVARIANT TomorrowIsNextDay
CHECK_DEADLOCK FALSE
