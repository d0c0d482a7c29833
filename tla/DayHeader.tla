------------------------------ MODULE DayHeader ------------------------------
(***************************************************************************)
(* The header above a day's messages: "Today", "Yesterday" or a date       *)
(* (ChatTableView.tableView(_:viewForHeaderInSection:)), computed with the *)
(* hand-written calendar arithmetic of the Date extension in               *)
(* ChatSharedClass.swift.                                                  *)
(*                                                                         *)
(* A message is sent on day `section`; `today` is the device's date, which *)
(* advances while the section stays in the table.                          *)
(***************************************************************************)
EXTENDS Integers

CONSTANTS
    FirstYear, LastYear,  \* the years in which messages are sent
    MaxAge,               \* bound: how many days a section is followed
    FirstWeekday,         \* the locale's first day of the week, 0 = Sunday
    MinDays               \* days of a year its first week must contain

ASSUME YearsAssumption == /\ FirstYear \in Nat \ {0}
                          /\ LastYear \in Nat
                          /\ FirstYear <= LastYear
ASSUME AgeAssumption == MaxAge \in Nat
ASSUME WeekAssumption == FirstWeekday \in 0..6 /\ MinDays \in 1..7

VARIABLES
    section,   \* the day whose messages the section holds
    today,     \* the device's date
    age        \* days since `section`

vars == <<section, today, age>>

-----------------------------------------------------------------------------
(* The Gregorian calendar, as Foundation provides it.                      *)

Date == [year : Nat, month : 1..12, day : 1..31]

IsLeap(y) == y % 4 = 0 /\ (y % 100 # 0 \/ y % 400 = 0)

DaysInMonth(y, m) ==
    CASE m = 2 -> IF IsLeap(y) THEN 29 ELSE 28
      [] m \in {4, 6, 9, 11} -> 30
      [] OTHER -> 31

NewYear(y) == [year |-> y, month |-> 1, day |-> 1]

NextDayNoLeap(d) ==
    IF d.day < (IF d.month = 2 THEN 28 ELSE DaysInMonth(d.year, d.month))
    THEN [d EXCEPT !.day = @ + 1]
    ELSE IF d.month < 12 THEN [d EXCEPT !.month = @ + 1, !.day = 1]
    ELSE NewYear(d.year + 1)

NextDay(d) ==
    IF d.day < DaysInMonth(d.year, d.month) THEN [d EXCEPT !.day = @ + 1]
    ELSE IF d.month < 12 THEN [d EXCEPT !.month = @ + 1, !.day = 1]
    ELSE NewYear(d.year + 1)

\* Days before 1 January of year y, counted from 1 January of year 1.
DaysBefore(y) ==
    365 * (y - 1) + (y - 1) \div 4 - (y - 1) \div 100 + (y - 1) \div 400

MonthOffset(y, m) ==
    LET common == <<0, 31, 59, 90, 120, 151, 181, 212, 243, 273, 304, 334>>
    IN  common[m] + (IF m > 2 /\ IsLeap(y) THEN 1 ELSE 0)

Ordinal(d) == DaysBefore(d.year) + MonthOffset(d.year, d.month) + d.day

\* 1 January of year 1 was a Monday, and 0 stands for Sunday.
Weekday(d) == Ordinal(d) % 7

\* The year that owns the week of d: the year of the week's day number
\* 7 - MinDays (0-based). DateFormatter's "YYYY" prints it, "yyyy" does not.
WeekYear(d) ==
    LET start == Ordinal(d) - ((Weekday(d) - FirstWeekday) % 7)
        pivot == start + 7 - MinDays
    IN  CHOOSE y \in (d.year - 1)..(d.year + 1) :
            DaysBefore(y) < pivot /\ pivot <= DaysBefore(y + 1)

\* Calendar.date(byAdding:to:wrappingComponents: true): every component is
\* rolled on its own, largest first, and no carry reaches a larger one.
\* Rolling the month pins the day to the new month's length.
RollMonth(d, n) ==
    LET m == ((d.month - 1 + n) % 12) + 1
        last == DaysInMonth(d.year, m)
    IN  [d EXCEPT !.month = m, !.day = IF @ > last THEN last ELSE @]

RollDay(d, n) ==
    [d EXCEPT !.day = ((@ - 1 + n) % DaysInMonth(d.year, d.month)) + 1]

-----------------------------------------------------------------------------
(* The Date extension.                                                     *)

lastDayOfMonth(d) == [d EXCEPT !.day = DaysInMonth(d.year, d.month)]

dateByAddingDaysNoBorrow(d, days) == RollDay(d, days)

dateByAddingDaysNoMonthLength(d, days) ==
    IF d.day = 1 /\ days < 0
    THEN RollDay(RollMonth(d, -1), days)
    ELSE IF d.day = lastDayOfMonth(d).day /\ days >= 1
    THEN RollDay(RollMonth(d, 1), days)
    ELSE RollDay(d, days)

dateByAddingDays(d, days) ==
    IF d.day = 1 /\ days < 0
    THEN RollDay(RollMonth(d, -1), days)
    ELSE IF d.day = lastDayOfMonth(d).day /\ days >= 1
    THEN LET extra == CASE d.month = 2 -> 3
                        [] d.month \in {4, 6, 9, 11} -> 1
                        [] OTHER -> 0
         IN  RollDay(RollMonth(d, 1), days + extra)
    ELSE RollDay(d, days)

dateYesterday(now) == dateByAddingDays(now, -1)
dateTomorrow(now) == dateByAddingDays(now, 1)

isEqualIgnoringDay(a, b) == a.year = b.year /\ a.month = b.month

isEqualToDateIgnoringTime(a, b) ==
    a.year = b.year /\ a.month = b.month /\ a.day = b.day

isToday(d, now) == isEqualToDateIgnoringTime(d, now)
isYesterday(d, now) == isEqualToDateIgnoringTime(d, dateYesterday(now))

\* toString(withFormat: "dd MMM YYYY"): the year printed is the week's.
Formatted(d) ==
    [text |-> "date", day |-> d.day, month |-> d.month, year |-> WeekYear(d)]

viewForHeaderInSection(s, now) ==
    CASE isToday(s, now)                          -> [text |-> "Today"]
      [] ~isToday(s, now) /\ isYesterday(s, now)  -> [text |-> "Yesterday"]
      [] OTHER                                    -> Formatted(s)

-----------------------------------------------------------------------------
Days == { d \in [year : FirstYear..LastYear, month : 1..12, day : 1..31] :
              d.day <= DaysInMonth(d.year, d.month) }

Init == /\ section \in Days
        /\ today = section
        /\ age = 0

\* The device's date moves on; the section's day does not.
Midnight == /\ age < MaxAge
            /\ today' = NextDay(today)
            /\ age' = age + 1
            /\ UNCHANGED section

Next == Midnight

Spec == Init /\ [][Next]_vars

-----------------------------------------------------------------------------
\* The variables hold dates, and `age` is the distance between them.
TypeOK == /\ section \in Days
          /\ today \in Date
          /\ age = Ordinal(today) - Ordinal(section)
          /\ age \in 0..MaxAge

\* isYesterday, through dateByAddingDays and its month borrow, recognises the
\* previous civil day on every day of every year but one: on 1 January the
\* rolled date is 31 December of the year that has just begun, so yesterday's
\* messages get a date for a header. No other day is ever called "Yesterday".
YesterdayHeader ==
    viewForHeaderInSection(section, today).text = "Yesterday"
        <=> age = 1 /\ <<today.month, today.day>> # <<1, 1>>

\* Less than a week from the turn of the year, where a week may belong to the
\* other year.
NearNewYear(d) == \/ d.month = 12 /\ d.day > 25
                  \/ d.month = 1 /\ d.day < 7

\* A section older than yesterday is headed by its own day, month and year.
\* Within a week of the new year the "YYYY" of the header's format may print
\* the neighbouring year; it never does so in the rest of the year.
OlderHeader ==
    age > 1 =>
        LET header == viewForHeaderInSection(section, today)
        IN  /\ header.text = "date"
            /\ header.day = section.day /\ header.month = section.month
            /\ header.year # section.year => NearNewYear(section)

\* dateTomorrow, whose day count is corrected by hand for the month's length,
\* is the next civil day except on 29 February (it skips 1 March) and on
\* 31 December (it returns to 1 January of the old year).
TomorrowIsNextDay ==
    dateTomorrow(today) = NextDay(today)
        <=> <<today.month, today.day>> \notin {<<2, 29>>, <<12, 31>>}

=============================================================================
