--------------------------- MODULE DayHeaderProofs ---------------------------
(***************************************************************************)
(* The headers of the days, for any years, weeks and ages. DayInv adds to  *)
(* the type invariant that today is a day of the calendar, and which day   *)
(* it is while the section is from today or yesterday.                     *)
(***************************************************************************)
EXTENDS DayHeader, TLAPS

Civil == { d \in [year : Nat \ {0}, month : 1..12, day : 1..31] :
               d.day <= DaysInMonth(d.year, d.month) }

DayInv == /\ section \in Days /\ today \in Civil /\ age \in 0..MaxAge
          /\ Ordinal(today) = Ordinal(section) + age
          /\ age = 0 => today = section
          /\ age = 1 => today = NextDay(section)

-----------------------------------------------------------------------------
(* The calendar.                                                           *)

LEMMA DaysAreCivil == Days \subseteq Civil
  BY YearsAssumption DEF Days, Civil

LEMMA MonthLengths ==
    ASSUME NEW y \in Nat, NEW m \in 1..12
    PROVE  /\ DaysInMonth(y, m) \in 28..31
           /\ m \in {1, 3, 5, 7, 8, 10, 12} => DaysInMonth(y, m) = 31
           /\ m \in {4, 6, 9, 11} => DaysInMonth(y, m) = 30
           /\ m = 2 => DaysInMonth(y, m) = IF IsLeap(y) THEN 29 ELSE 28
  BY DEF DaysInMonth

\* The days before a month are those of the months before it.
LEMMA OffsetOfNextMonth ==
    ASSUME NEW y \in Nat, NEW m \in 1..11
    PROVE  MonthOffset(y, m + 1) = MonthOffset(y, m) + DaysInMonth(y, m)
<1>1. m \in {1, 2, 3, 4, 5, 6, 7, 8, 9, 10, 11}
  OBVIOUS
<1> QED
  BY <1>1 DEF MonthOffset, DaysInMonth

LEMMA OffsetBounds ==
    ASSUME NEW y \in Nat, NEW m \in 1..12
    PROVE  /\ MonthOffset(y, m) \in Nat
           /\ m = 1 => MonthOffset(y, m) = 0
           /\ m > 1 => MonthOffset(y, m) >= 31
           /\ m < 12 => MonthOffset(y, m) <= 304 + (IF IsLeap(y) THEN 1 ELSE 0)
           /\ m = 12 => MonthOffset(y, m) = 334 + (IF IsLeap(y) THEN 1 ELSE 0)
<1>1. m \in {1, 2, 3, 4, 5, 6, 7, 8, 9, 10, 11, 12}
  OBVIOUS
<1> QED
  BY <1>1 DEF MonthOffset

\* A year that is divisible by 4 and not by 100, or by 400, has one day more.
LEMMA YearLength ==
    ASSUME NEW y \in Nat \ {0}
    PROVE  /\ DaysBefore(y) \in Nat
           /\ DaysBefore(y + 1) = DaysBefore(y) + 365 + (IF IsLeap(y) THEN 1 ELSE 0)
<1>1. y \div 4 = (y - 1) \div 4 + (IF y % 4 = 0 THEN 1 ELSE 0)
  OBVIOUS
<1>2. y \div 100 = (y - 1) \div 100 + (IF y % 100 = 0 THEN 1 ELSE 0)
  OBVIOUS
<1>3. y \div 400 = (y - 1) \div 400 + (IF y % 400 = 0 THEN 1 ELSE 0)
  OBVIOUS
<1>4. (y % 400 = 0 => y % 100 = 0) /\ (y % 100 = 0 => y % 4 = 0)
  OBVIOUS
<1>5. /\ (y - 1) \div 4 \in Nat /\ (y - 1) \div 100 \in Nat /\ (y - 1) \div 400 \in Nat
      /\ (y - 1) \div 100 <= y - 1
  OBVIOUS
<1>6. DaysBefore(y + 1) = 365 * y + y \div 4 - y \div 100 + y \div 400
  BY DEF DaysBefore
<1>7. DaysBefore(y) \in Nat
  BY <1>5 DEF DaysBefore
<1> QED
  BY <1>1, <1>2, <1>3, <1>4, <1>5, <1>6, <1>7 DEF DaysBefore, IsLeap

LEMMA OrdinalType ==
    ASSUME NEW d \in Civil
    PROVE  Ordinal(d) \in Int
<1>1. d.year \in Nat \ {0} /\ d.year \in Nat /\ d.month \in 1..12 /\ d.day \in 1..31
  BY DEF Civil
<1>2. DaysBefore(d.year) \in Nat
  BY <1>1, YearLength
<1>3. MonthOffset(d.year, d.month) \in Nat
  BY <1>1, OffsetBounds
<1> QED
  BY <1>1, <1>2, <1>3 DEF Ordinal

\* The civil calendar counts the days without a gap.
LEMMA NextDayFollows ==
    ASSUME NEW d \in Civil
    PROVE  NextDay(d) \in Civil /\ Ordinal(NextDay(d)) = Ordinal(d) + 1
<1>1. /\ d.year \in Nat \ {0} /\ d.month \in 1..12 /\ d.day \in 1..31
      /\ d.day <= DaysInMonth(d.year, d.month)
      /\ d = [year |-> d.year, month |-> d.month, day |-> d.day]
  BY DEF Civil
<1>2. /\ DaysInMonth(d.year, d.month) \in 28..31 /\ DaysBefore(d.year) \in Nat
      /\ MonthOffset(d.year, d.month) \in Nat
  <2>1. d.year \in Nat
    BY <1>1
  <2>2. DaysInMonth(d.year, d.month) \in 28..31
    BY <1>1, <2>1, MonthLengths
  <2>3. DaysBefore(d.year) \in Nat
    BY <1>1, YearLength
  <2>4. MonthOffset(d.year, d.month) \in Nat
    BY <1>1, <2>1, OffsetBounds
  <2> QED
    BY <2>2, <2>3, <2>4
<1>3. CASE d.day < DaysInMonth(d.year, d.month)
  <2>1. NextDay(d) = [year |-> d.year, month |-> d.month, day |-> d.day + 1]
    BY <1>1, <1>3 DEF NextDay
  <2> QED
    BY <1>1, <1>2, <1>3, <2>1 DEF Civil, Ordinal
<1>4. CASE d.day = DaysInMonth(d.year, d.month) /\ d.month < 12
  <2>1. ~(d.day < DaysInMonth(d.year, d.month)) /\ d.month < 12
    BY <1>2, <1>4
  <2>2. NextDay(d) = [d EXCEPT !.month = d.month + 1, !.day = 1]
    BY <2>1 DEF NextDay
  <2>3. NextDay(d) = [year |-> d.year, month |-> d.month + 1, day |-> 1]
    BY <1>1, <2>2
  <2>4. /\ DaysInMonth(d.year, d.month + 1) \in 28..31
        /\ MonthOffset(d.year, d.month + 1)
              = MonthOffset(d.year, d.month) + DaysInMonth(d.year, d.month)
    BY <1>1, <1>4, MonthLengths, OffsetOfNextMonth
  <2> QED
    BY <1>1, <1>2, <1>4, <2>3, <2>4 DEF Civil, Ordinal
<1>5. CASE d.day = DaysInMonth(d.year, d.month) /\ d.month = 12
  <2>1. NextDay(d) = [year |-> d.year + 1, month |-> 1, day |-> 1]
    BY <1>1, <1>2, <1>5 DEF NextDay, NewYear
  <2>2. /\ DaysInMonth(d.year + 1, 1) = 31 /\ DaysInMonth(d.year, 12) = 31
        /\ MonthOffset(d.year + 1, 1) = 0
        /\ MonthOffset(d.year, 12) = 334 + (IF IsLeap(d.year) THEN 1 ELSE 0)
        /\ DaysBefore(d.year + 1)
              = DaysBefore(d.year) + 365 + (IF IsLeap(d.year) THEN 1 ELSE 0)
    <3>1. d.year \in Nat /\ d.year + 1 \in Nat /\ 1 \in 1..12 /\ 12 \in 1..12
      BY <1>1
    <3>2. DaysInMonth(d.year + 1, 1) = 31 /\ DaysInMonth(d.year, 12) = 31
      BY <3>1, MonthLengths
    <3>3. /\ MonthOffset(d.year + 1, 1) = 0
          /\ MonthOffset(d.year, 12) = 334 + (IF IsLeap(d.year) THEN 1 ELSE 0)
      BY <3>1, OffsetBounds
    <3> QED
      BY <1>1, <3>2, <3>3, YearLength
  <2> QED
    BY <1>1, <1>2, <1>5, <2>1, <2>2 DEF Civil, Ordinal
<1> QED
  BY <1>1, <1>2, <1>3, <1>4, <1>5

-----------------------------------------------------------------------------
(* The Date extension.                                                     *)

\* Rolling a day back inside its month, and from its first day.
LEMMA Remainders ==
    ASSUME NEW k \in 28..31
    PROVE  /\ \A a \in 0..(k - 1) : a % k = a
           /\ (-1) % k = k - 1
           /\ k % k = 0
<1>1. k \in {28, 29, 30, 31}
  OBVIOUS
<1> QED
  BY <1>1

\* dateYesterday: the day before in the same month, or the last day of the
\* month before, which for January is December of the same year.
LEMMA YesterdayIs ==
    ASSUME NEW d \in Civil
    PROVE  dateYesterday(d) =
               IF d.day = 1
               THEN LET m == IF d.month = 1 THEN 12 ELSE d.month - 1
                    IN  [year |-> d.year, month |-> m, day |-> DaysInMonth(d.year, m)]
               ELSE [year |-> d.year, month |-> d.month, day |-> d.day - 1]
<1>1. /\ d.year \in Nat \ {0} /\ d.year \in Nat /\ d.month \in 1..12 /\ d.day \in 1..31
      /\ d.day <= DaysInMonth(d.year, d.month)
      /\ d = [year |-> d.year, month |-> d.month, day |-> d.day]
  BY DEF Civil
<1>2. DaysInMonth(d.year, d.month) \in 28..31
  BY <1>1, MonthLengths
<1>3. CASE d.day # 1
  <2>1. dateYesterday(d) = RollDay(d, -1)
    BY <1>3 DEF dateYesterday, dateByAddingDays
  <2>2. (d.day - 1 + (-1)) % DaysInMonth(d.year, d.month) = d.day - 2
    <3>1. d.day - 1 + (-1) = d.day - 2 /\ d.day - 2 \in 0..(DaysInMonth(d.year, d.month) - 1)
      BY <1>1, <1>2, <1>3
    <3> QED
      BY <3>1, <1>2, Remainders
  <2>3. RollDay(d, -1) = [d EXCEPT !.day = d.day - 2 + 1]
    BY <2>2 DEF RollDay
  <2> QED
    BY <1>1, <1>3, <2>1, <2>3
<1>4. CASE d.day = 1
  <2> DEFINE m == IF d.month = 1 THEN 12 ELSE d.month - 1
  <2>1. ((d.month - 1 + (-1)) % 12) + 1 = m /\ m \in 1..12
    <3>1. d.month \in {1, 2, 3, 4, 5, 6, 7, 8, 9, 10, 11, 12}
      BY <1>1
    <3> QED
      BY <3>1
  <2>2. DaysInMonth(d.year, m) \in 28..31
    BY <1>1, <2>1, MonthLengths
  <2> HIDE DEF m
  <2>3. RollMonth(d, -1) = [year |-> d.year, month |-> m, day |-> 1]
    <3>1. RollMonth(d, -1) = [d EXCEPT !.month = m,
                                       !.day = IF d.day > DaysInMonth(d.year, m)
                                               THEN DaysInMonth(d.year, m) ELSE d.day]
      BY <2>1 DEF RollMonth
    <3>2. ~(d.day > DaysInMonth(d.year, m))
      BY <1>4, <2>2
    <3>3. RollMonth(d, -1) = [d EXCEPT !.month = m, !.day = 1]
      BY <1>4, <3>1, <3>2
    <3> QED
      BY <1>1, <3>3
  <2>4. dateYesterday(d) = RollDay([year |-> d.year, month |-> m, day |-> 1], -1)
    BY <1>4, <2>3 DEF dateYesterday, dateByAddingDays
  <2>5. (1 - 1 + (-1)) % DaysInMonth(d.year, m) = DaysInMonth(d.year, m) - 1
    <3>1. 1 - 1 + (-1) = -1
      OBVIOUS
    <3> QED
      BY <3>1, <2>2, Remainders
  <2>6. RollDay([year |-> d.year, month |-> m, day |-> 1], -1)
            = [year |-> d.year, month |-> m, day |-> DaysInMonth(d.year, m) - 1 + 1]
    BY <2>5 DEF RollDay
  <2>7. DaysInMonth(d.year, m) - 1 + 1 = DaysInMonth(d.year, m)
    BY <2>2
  <2>8. dateYesterday(d) = [year |-> d.year, month |-> m, day |-> DaysInMonth(d.year, m)]
    BY <2>4, <2>6, <2>7
  <2> QED
    BY <1>4, <2>8 DEF m
<1> QED
  BY <1>3, <1>4

\* Except on 1 January, dateYesterday undoes NextDay.
LEMMA YesterdayOfNextDay ==
    ASSUME NEW d \in Civil, <<NextDay(d).month, NextDay(d).day>> # <<1, 1>>
    PROVE  dateYesterday(NextDay(d)) = d
<1>1. /\ d.year \in Nat \ {0} /\ d.year \in Nat /\ d.month \in 1..12 /\ d.day \in 1..31
      /\ d.day <= DaysInMonth(d.year, d.month)
      /\ d = [year |-> d.year, month |-> d.month, day |-> d.day]
  BY DEF Civil
<1>2. NextDay(d) \in Civil
  BY NextDayFollows
<1>3. CASE d.day < DaysInMonth(d.year, d.month)
  <2>1. NextDay(d) = [year |-> d.year, month |-> d.month, day |-> d.day + 1]
    BY <1>1, <1>3 DEF NextDay
  <2>2. d.day + 1 # 1 /\ d.day + 1 - 1 = d.day
    BY <1>1
  <2> QED
    BY <1>1, <1>2, <2>1, <2>2, YesterdayIs
<1>4. CASE ~(d.day < DaysInMonth(d.year, d.month))
  <2>1. d.day = DaysInMonth(d.year, d.month)
    BY <1>1, <1>4, MonthLengths
  <2>2. d.month < 12
    BY <1>4 DEF NextDay, NewYear
  <2>3. NextDay(d) = [d EXCEPT !.month = d.month + 1, !.day = 1]
    BY <1>4, <2>2 DEF NextDay
  <2>4. NextDay(d) = [year |-> d.year, month |-> d.month + 1, day |-> 1]
    BY <1>1, <2>3
  <2>5. d.month + 1 # 1 /\ d.month + 1 - 1 = d.month
    BY <1>1
  <2> QED
    BY <1>1, <1>2, <2>1, <2>4, <2>5, YesterdayIs
<1> QED
  BY <1>3, <1>4

\* The other way round, and what 1 January's dateYesterday is.
LEMMA NextDayOfYesterday ==
    ASSUME NEW s \in Civil, NEW t \in Civil, s = dateYesterday(t)
    PROVE  IF <<t.month, t.day>> = <<1, 1>>
           THEN Ordinal(s) > Ordinal(t)
           ELSE t = NextDay(s)
<1>1. /\ t.year \in Nat \ {0} /\ t.year \in Nat /\ t.month \in 1..12 /\ t.day \in 1..31
      /\ t.day <= DaysInMonth(t.year, t.month)
      /\ t = [year |-> t.year, month |-> t.month, day |-> t.day]
  BY DEF Civil
<1>2. CASE t.day # 1
  <2>1. s = [year |-> t.year, month |-> t.month, day |-> t.day - 1]
    BY <1>2, YesterdayIs
  <2>2. s.day < DaysInMonth(s.year, s.month) /\ s.day + 1 = t.day
    <3>1. DaysInMonth(t.year, t.month) \in 28..31
      BY <1>1, MonthLengths
    <3> QED
      BY <1>1, <2>1, <3>1
  <2>3. NextDay(s) = [s EXCEPT !.day = s.day + 1]
    BY <2>2 DEF NextDay
  <2> QED
    BY <1>1, <1>2, <2>1, <2>2, <2>3
<1>3. CASE t.day = 1 /\ t.month # 1
  <2>1. s = [year |-> t.year, month |-> t.month - 1,
             day |-> DaysInMonth(t.year, t.month - 1)]
    BY <1>3, YesterdayIs
  <2>2. /\ ~(s.day < DaysInMonth(s.year, s.month))
        /\ s.month < 12 /\ s.month + 1 = t.month
    <3>1. t.month - 1 \in 1..12 /\ t.month - 1 < 12 /\ t.month - 1 + 1 = t.month
      BY <1>1, <1>3
    <3>2. DaysInMonth(t.year, t.month - 1) \in 28..31
      BY <1>1, <3>1, MonthLengths
    <3> QED
      BY <2>1, <3>1, <3>2
  <2>3. NextDay(s) = [s EXCEPT !.month = s.month + 1, !.day = 1]
    BY <2>2 DEF NextDay
  <2>4. NextDay(s) = [s EXCEPT !.month = t.month, !.day = 1]
    BY <2>2, <2>3
  <2>5. s = [year |-> s.year, month |-> s.month, day |-> s.day] /\ s.year = t.year
    BY <2>1 DEF Civil
  <2>6. NextDay(s) = [year |-> s.year, month |-> t.month, day |-> 1]
    BY <2>4, <2>5
  <2>7. NextDay(s) = [year |-> t.year, month |-> t.month, day |-> 1]
    BY <2>5, <2>6
  <2>8. t = NextDay(s)
    BY <1>1, <1>3, <2>7
  <2> QED
    BY <1>3, <2>8
<1>4. CASE t.day = 1 /\ t.month = 1
  <2>1. s = [year |-> t.year, month |-> 12, day |-> DaysInMonth(t.year, 12)]
    BY <1>4, YesterdayIs
  <2>2. /\ DaysBefore(t.year) \in Nat /\ DaysInMonth(t.year, 12) = 31
        /\ MonthOffset(t.year, 1) = 0
        /\ MonthOffset(t.year, 12) \in Nat /\ MonthOffset(t.year, 12) >= 31
    <3>1. 1 \in 1..12 /\ 12 \in 1..12
      OBVIOUS
    <3>2. MonthOffset(t.year, 1) = 0
      BY <1>1, <3>1, OffsetBounds
    <3>3. MonthOffset(t.year, 12) \in Nat /\ MonthOffset(t.year, 12) >= 31
      BY <1>1, <3>1, OffsetBounds
    <3> QED
      BY <1>1, <3>1, <3>2, <3>3, YearLength, MonthLengths
  <2> QED
    BY <1>1, <1>4, <2>1, <2>2 DEF Ordinal
<1> QED
  BY <1>2, <1>3, <1>4

-----------------------------------------------------------------------------
(* The inductive invariant.                                                *)

\* DayInv holds from the moment the section is shown, whatever number of
\* midnights passes (the device's clock; viewForHeaderInSection reads it).
THEOREM DayInvariant == Spec => []DayInv
<1>1. Init => DayInv
  <2> SUFFICES ASSUME Init PROVE DayInv
    OBVIOUS
  <2>1. section \in Civil
    BY DaysAreCivil DEF Init
  <2>2. Ordinal(section) \in Int
    BY <2>1, OrdinalType
  <2> QED
    BY <2>1, <2>2, AgeAssumption DEF Init, DayInv
<1>2. DayInv /\ [Next]_vars => DayInv'
  <2> SUFFICES ASSUME DayInv, [Next]_vars PROVE DayInv'
    OBVIOUS
  <2>1. CASE Midnight
    <3>1. /\ today' = NextDay(today) /\ section' = section /\ age' = age + 1
          /\ age < MaxAge /\ age \in 0..MaxAge /\ section \in Days
      BY <2>1 DEF Midnight, DayInv
    <3>2. today' \in Civil /\ Ordinal(today') = Ordinal(today) + 1
      BY <3>1, NextDayFollows DEF DayInv
    <3>3. section \in Civil
      BY <3>1, DaysAreCivil
    <3>4. Ordinal(section) \in Int
      BY <3>3, OrdinalType
    <3>5. age' \in 0..MaxAge /\ (age' = 1 => age = 0) /\ age' # 0
      BY <3>1, AgeAssumption
    <3>6. Ordinal(today)' = Ordinal(section)' + age'
      <4>1. Ordinal(today) = Ordinal(section) + age
        BY DEF DayInv
      <4>2. Ordinal(today)' = Ordinal(today') /\ Ordinal(section)' = Ordinal(section)
        BY <3>1 DEF Ordinal, DaysBefore, MonthOffset, IsLeap
      <4> QED
        BY <3>1, <3>2, <3>4, <4>1, <4>2
    <3>7. age' = 1 => today' = NextDay(section)
      BY <3>1, <3>5 DEF DayInv
    <3>8. NextDay(section)' = NextDay(section)
      BY <3>1 DEF NextDay
    <3> QED
      BY <3>1, <3>2, <3>5, <3>6, <3>7, <3>8 DEF DayInv
  <2>2. CASE UNCHANGED vars
    BY <2>2 DEF vars, DayInv, Ordinal, NextDay
  <2> QED
    BY <2>1, <2>2 DEF Next
<1> QED
  BY <1>1, <1>2, PTL DEF Spec

-----------------------------------------------------------------------------
(* What the headers say.                                                   *)

\* The dates stay dates, and the section's age is their distance: NextDay and
\* Ordinal agree on every day, of every year (Midnight).
THEOREM DayHeaderTypes == Spec => []TypeOK
<1>1. DayInv => TypeOK
  <2> SUFFICES ASSUME DayInv PROVE TypeOK
    OBVIOUS
  <2>1. section \in Civil /\ today \in Civil
    BY DaysAreCivil DEF DayInv
  <2>2. today \in Date
    BY <2>1 DEF Civil, Date
  <2>3. Ordinal(section) \in Int
    BY <2>1, OrdinalType
  <2>4. age = Ordinal(today) - Ordinal(section)
    <3>1. age \in Nat /\ Ordinal(today) = Ordinal(section) + age
      BY AgeAssumption DEF DayInv
    <3> QED
      BY <2>3, <3>1
  <2> QED
    BY <2>2, <2>4 DEF DayInv, TypeOK
<1> QED
  BY <1>1, DayInvariant, PTL

\* isToday is the test that the section is zero days old, and isYesterday that
\* it is one day old, but for 1 January.
LEMMA RecognisedDays ==
    ASSUME DayInv
    PROVE  /\ isToday(section, today) <=> age = 0
           /\ isYesterday(section, today)
                  <=> age = 1 /\ <<today.month, today.day>> # <<1, 1>>
<1>1. section \in Civil /\ today \in Civil /\ age \in Nat
  BY DaysAreCivil, AgeAssumption DEF DayInv
<1>2. /\ section = [year |-> section.year, month |-> section.month, day |-> section.day]
      /\ today = [year |-> today.year, month |-> today.month, day |-> today.day]
  BY <1>1 DEF Civil
<1>3. Ordinal(section) \in Int /\ Ordinal(today) = Ordinal(section) + age
  BY <1>1, OrdinalType DEF DayInv
<1>4. isToday(section, today) <=> age = 0
  <2>1. isToday(section, today) <=> section = today
    BY <1>2 DEF isToday, isEqualToDateIgnoringTime
  <2>2. section = today => age = 0
    BY <1>1, <1>3
  <2> QED
    BY <2>1, <2>2 DEF DayInv
<1>5. isYesterday(section, today) => section = dateYesterday(today)
  <2> DEFINE y == dateYesterday(today)
  <2>1. y = [year |-> y.year, month |-> y.month, day |-> y.day]
    BY <1>1, YesterdayIs
  <2> HIDE DEF y
  <2>2. isYesterday(section, today) => section = y
    BY <1>2, <2>1 DEF isYesterday, isEqualToDateIgnoringTime, y
  <2> QED
    BY <2>2 DEF y
<1>6. section = dateYesterday(today) => age = 1 /\ <<today.month, today.day>> # <<1, 1>>
  <2> SUFFICES ASSUME section = dateYesterday(today)
               PROVE  age = 1 /\ <<today.month, today.day>> # <<1, 1>>
    OBVIOUS
  <2>1. IF <<today.month, today.day>> = <<1, 1>>
        THEN Ordinal(section) > Ordinal(today)
        ELSE today = NextDay(section)
    BY <1>1, NextDayOfYesterday
  <2>2. <<today.month, today.day>> # <<1, 1>>
    BY <1>1, <1>3, <2>1
  <2>3. Ordinal(today) = Ordinal(section) + 1
    BY <1>1, <2>1, <2>2, NextDayFollows
  <2> QED
    BY <1>1, <1>3, <2>2, <2>3
<1>7. age = 1 /\ <<today.month, today.day>> # <<1, 1>> => section = dateYesterday(today)
  BY <1>1, YesterdayOfNextDay DEF DayInv
<1>8. section = dateYesterday(today) => isYesterday(section, today)
  BY DEF isYesterday, isEqualToDateIgnoringTime
<1> QED
  BY <1>4, <1>5, <1>6, <1>7, <1>8

LEMMA HeaderText ==
    ASSUME DayInv
    PROVE  viewForHeaderInSection(section, today) =
               IF age = 0 THEN [text |-> "Today"]
               ELSE IF age = 1 /\ <<today.month, today.day>> # <<1, 1>>
                    THEN [text |-> "Yesterday"]
                    ELSE Formatted(section)
  BY RecognisedDays DEF viewForHeaderInSection

\* The header says "Yesterday" exactly on the day after the section's, except
\* on 1 January (viewForHeaderInSection, isYesterday, dateByAddingDays).
THEOREM YesterdayIsYesterday == Spec => []YesterdayHeader
<1>1. DayInv => YesterdayHeader
  <2> SUFFICES ASSUME DayInv PROVE YesterdayHeader
    OBVIOUS
  <2>1. Formatted(section).text = "date"
    BY DEF Formatted
  <2>2. age = 0 => ~(age = 1)
    OBVIOUS
  <2> QED
    BY <2>1, <2>2, HeaderText DEF YesterdayHeader
<1> QED
  BY <1>1, DayInvariant, PTL

-----------------------------------------------------------------------------
(* The year of the week.                                                   *)

\* A week that is not within a week of the new year belongs to its own year.
LEMMA YearOfWeek ==
    ASSUME NEW d \in Civil, ~NearNewYear(d)
    PROVE  WeekYear(d) = d.year
<1> DEFINE r == (Weekday(d) - FirstWeekday) % 7
           p == Ordinal(d) - r + 7 - MinDays
           leap == IF IsLeap(d.year) THEN 1 ELSE 0
<1>1. /\ d.year \in Nat \ {0} /\ d.year \in Nat /\ d.month \in 1..12 /\ d.day \in 1..31
      /\ d.day <= DaysInMonth(d.year, d.month)
  BY DEF Civil
<1>2. /\ DaysBefore(d.year) \in Nat
      /\ DaysBefore(d.year + 1) = DaysBefore(d.year) + 365 + leap
      /\ leap \in 0..1
  <2>1. /\ DaysBefore(d.year) \in Nat
        /\ DaysBefore(d.year + 1) = DaysBefore(d.year) + 365 + leap
    BY <1>1, YearLength
  <2>2. leap \in 0..1
    OBVIOUS
  <2> QED
    BY <2>1, <2>2
<1> HIDE DEF leap
<1>3. Ordinal(d) \in Int /\ Ordinal(d) - DaysBefore(d.year) \in 7..(359 + leap)
  <2>1. /\ MonthOffset(d.year, d.month) \in Nat
        /\ d.month = 1 => MonthOffset(d.year, d.month) = 0
        /\ d.month > 1 => MonthOffset(d.year, d.month) >= 31
        /\ d.month < 12 => MonthOffset(d.year, d.month) <= 304 + leap
        /\ d.month = 12 => MonthOffset(d.year, d.month) = 334 + leap
    BY <1>1, OffsetBounds DEF leap
  <2> QED
    BY <1>1, <1>2, <2>1 DEF NearNewYear, Ordinal
<1>4. r \in 0..6
  <2>1. Weekday(d) \in Int
    BY <1>3 DEF Weekday
  <2>2. Weekday(d) - FirstWeekday \in Int
    BY <2>1, WeekAssumption
  <2> QED
    BY <2>2
<1> HIDE DEF r
<1>5. DaysBefore(d.year) < p /\ p <= DaysBefore(d.year + 1) /\ p \in Int
  BY <1>2, <1>3, <1>4, WeekAssumption
<1>6. WeekYear(d) = CHOOSE y \in (d.year - 1)..(d.year + 1) :
                        DaysBefore(y) < p /\ p <= DaysBefore(y + 1)
  BY DEF WeekYear, p, r
<1> HIDE DEF p
<1>7. \A y \in (d.year - 1)..(d.year + 1) :
          DaysBefore(y) < p /\ p <= DaysBefore(y + 1) => y = d.year
  <2> SUFFICES ASSUME NEW y \in (d.year - 1)..(d.year + 1),
                      DaysBefore(y) < p /\ p <= DaysBefore(y + 1)
               PROVE  y = d.year
    OBVIOUS
  <2>1. y = d.year - 1 \/ y = d.year \/ y = d.year + 1
    BY <1>1
  <2>2. y # d.year + 1
    BY <1>2, <1>5
  <2>3. y # d.year - 1
    <3> SUFFICES ASSUME y = d.year - 1 PROVE FALSE
      OBVIOUS
    <3>1. y + 1 = d.year
      BY <1>1
    <3>2. p <= DaysBefore(d.year)
      BY <3>1
    <3> QED
      BY <1>2, <1>5, <3>2
  <2> QED
    BY <2>1, <2>2, <2>3
<1>8. d.year \in (d.year - 1)..(d.year + 1)
  BY <1>1
<1> QED
  BY <1>5, <1>6, <1>7, <1>8

\* A section two days old or older is headed by its own date, and its year is
\* wrong only within a week of the new year (viewForHeaderInSection,
\* toString with the format "dd MMM YYYY").
THEOREM OlderIsDated == Spec => []OlderHeader
<1>1. DayInv => OlderHeader
  <2> SUFFICES ASSUME DayInv, age > 1 PROVE OlderHeader
    BY DEF OlderHeader
  <2>1. viewForHeaderInSection(section, today) = Formatted(section)
    <3>1. age # 0 /\ age # 1
      OBVIOUS
    <3> QED
      BY <3>1, HeaderText
  <2>2. section \in Civil
    BY DaysAreCivil DEF DayInv
  <2>3. WeekYear(section) # section.year => NearNewYear(section)
    BY <2>2, YearOfWeek
  <2> QED
    BY <2>1, <2>3 DEF OlderHeader, Formatted
<1> QED
  BY <1>1, DayInvariant, PTL

-----------------------------------------------------------------------------
(* dateTomorrow.                                                           *)

\* The last day of a month is followed by the first of the next one, except
\* that 29 February skips a day; December's successor is January of the year.
LEMMA TomorrowOfLastDay ==
    ASSUME NEW d \in Civil, d.day = DaysInMonth(d.year, d.month)
    PROVE  dateTomorrow(d) =
               [year |-> d.year, month |-> IF d.month = 12 THEN 1 ELSE d.month + 1,
                day |-> IF d.month = 2 /\ d.day = 29 THEN 2 ELSE 1]
<1> DEFINE m == IF d.month = 12 THEN 1 ELSE d.month + 1
           last == DaysInMonth(d.year, m)
           pinned == IF d.day > last THEN last ELSE d.day
           extra == CASE d.month = 2 -> 3
                      [] d.month \in {4, 6, 9, 11} -> 1
                      [] OTHER -> 0
<1>1. /\ d.year \in Nat /\ d.month \in 1..12 /\ d.day \in 1..31
      /\ d = [year |-> d.year, month |-> d.month, day |-> d.day]
  BY DEF Civil
<1>2. d.month \in {1, 2, 3, 4, 5, 6, 7, 8, 9, 10, 11, 12}
  BY <1>1
<1>3. ((d.month - 1 + 1) % 12) + 1 = m /\ m \in 1..12
  BY <1>2
<1>4. /\ last \in 28..31 /\ d.day \in 28..31
      /\ d.month \in {1, 3, 5, 7, 8, 10, 12} => d.day = 31
      /\ d.month \in {4, 6, 9, 11} => d.day = 30
      /\ d.month = 2 => d.day \in {28, 29}
      /\ d.month \in {2, 4, 6, 7, 9, 11, 12} => last = 31
      /\ d.month \in {3, 5, 8, 10} => last = 30
  BY <1>1, <1>2, <1>3 DEF DaysInMonth
<1>5. ((pinned - 1 + (1 + extra)) % last) + 1
          = IF d.month = 2 /\ d.day = 29 THEN 2 ELSE 1
  <2> HIDE DEF last
  <2>1. CASE d.month = 1
    <3>1. pinned = last /\ extra = 0
      BY <1>4, <2>1
    <3> HIDE DEF pinned, extra
    <3>2. pinned - 1 + (1 + extra) = last
      BY <3>1, <1>4
    <3>3. last % last = 0
      BY <1>4, Remainders
    <3> QED
      BY <2>1, <3>2, <3>3
  <2>2. CASE d.month = 2
    BY <1>4, <2>2
  <2>3. CASE d.month \in {4, 6, 9, 11}
    BY <1>4, <2>3
  <2>4. CASE d.month \in {7, 12}
    BY <1>4, <2>4
  <2>5. CASE d.month \in {3, 5, 8, 10}
    BY <1>4, <2>5
  <2> QED
    BY <1>2, <2>1, <2>2, <2>3, <2>4, <2>5
<1> HIDE DEF m, pinned, extra
<1>6. RollMonth(d, 1) = [d EXCEPT !.month = m, !.day = pinned]
  BY <1>3 DEF RollMonth, pinned
<1>7. RollMonth(d, 1) = [year |-> d.year, month |-> m, day |-> pinned]
  BY <1>1, <1>6
<1>8. dateTomorrow(d) = RollDay(RollMonth(d, 1), 1 + extra)
  <2>1. ~(d.day = 1 /\ 1 < 0) /\ d.day = lastDayOfMonth(d).day /\ 1 >= 1
    BY <1>1 DEF lastDayOfMonth
  <2> QED
    BY <2>1 DEF dateTomorrow, dateByAddingDays, extra
<1>9. RollDay([year |-> d.year, month |-> m, day |-> pinned], 1 + extra)
          = [year |-> d.year, month |-> m,
             day |-> ((pinned - 1 + (1 + extra)) % last) + 1]
  BY DEF RollDay
<1> QED
  BY <1>5, <1>7, <1>8, <1>9 DEF m

\* dateTomorrow is the next day of the calendar on every day but 29 February
\* and 31 December (dateTomorrow, dateByAddingDays).
THEOREM TomorrowIsTomorrow == Spec => []TomorrowIsNextDay
<1>1. ASSUME NEW d \in Civil
      PROVE  dateTomorrow(d) = NextDay(d)
                 <=> <<d.month, d.day>> \notin {<<2, 29>>, <<12, 31>>}
  <2>1. /\ d.year \in Nat /\ d.month \in 1..12 /\ d.day \in 1..31
        /\ d.day <= DaysInMonth(d.year, d.month)
        /\ d = [year |-> d.year, month |-> d.month, day |-> d.day]
    BY DEF Civil
  <2>2. /\ DaysInMonth(d.year, d.month) \in 28..31
        /\ d.month = 12 => DaysInMonth(d.year, d.month) = 31
        /\ d.month = 2 => DaysInMonth(d.year, d.month) <= 29
    BY <2>1, MonthLengths
  <2>3. CASE d.day < DaysInMonth(d.year, d.month)
    <3>1. <<d.month, d.day>> \notin {<<2, 29>>, <<12, 31>>}
      BY <2>1, <2>2, <2>3
    <3>2. NextDay(d) = [d EXCEPT !.day = d.day + 1]
      BY <2>3 DEF NextDay
    <3>3. dateTomorrow(d) = RollDay(d, 1)
      <4>1. ~(d.day = 1 /\ 1 < 0) /\ ~(d.day = lastDayOfMonth(d).day)
        BY <2>1, <2>2, <2>3 DEF lastDayOfMonth
      <4> QED
        BY <4>1 DEF dateTomorrow, dateByAddingDays
    <3>4. (d.day - 1 + 1) % DaysInMonth(d.year, d.month) = d.day
      <4>1. d.day - 1 + 1 = d.day /\ d.day \in 0..(DaysInMonth(d.year, d.month) - 1)
        BY <2>1, <2>2, <2>3
      <4> QED
        BY <2>2, <4>1, Remainders
    <3>5. RollDay(d, 1) = [d EXCEPT !.day = d.day + 1]
      BY <3>4 DEF RollDay
    <3> QED
      BY <3>1, <3>2, <3>3, <3>5
  <2>4. CASE d.day = DaysInMonth(d.year, d.month) /\ d.month < 12
    <3>1. ~(d.day < DaysInMonth(d.year, d.month))
      BY <2>2, <2>4
    <3>2. NextDay(d) = [d EXCEPT !.month = d.month + 1, !.day = 1]
      BY <2>4, <3>1 DEF NextDay
    <3>3. NextDay(d) = [year |-> d.year, month |-> d.month + 1, day |-> 1]
      BY <2>1, <3>2
    <3>4. dateTomorrow(d) = [year |-> d.year, month |-> d.month + 1,
                             day |-> IF d.month = 2 /\ d.day = 29 THEN 2 ELSE 1]
      BY <2>1, <2>4, TomorrowOfLastDay
    <3>5. dateTomorrow(d) = NextDay(d) <=> ~(d.month = 2 /\ d.day = 29)
      BY <3>3, <3>4
    <3> QED
      BY <2>1, <2>4, <3>5
  <2>5. CASE d.day = DaysInMonth(d.year, d.month) /\ d.month = 12
    <3>1. ~(d.day < DaysInMonth(d.year, d.month)) /\ ~(d.month < 12) /\ d.day = 31
      BY <2>2, <2>5
    <3>2. NextDay(d).year = d.year + 1
      BY <3>1 DEF NextDay, NewYear
    <3>3. dateTomorrow(d).year = d.year
      BY <2>5, TomorrowOfLastDay
    <3>4. dateTomorrow(d) # NextDay(d)
      BY <2>1, <3>2, <3>3
    <3> QED
      BY <2>5, <3>1, <3>4
  <2> QED
    BY <2>1, <2>2, <2>3, <2>4, <2>5
<1>2. DayInv => TomorrowIsNextDay
  BY <1>1 DEF DayInv, TomorrowIsNextDay
<1> QED
  BY <1>2, DayInvariant, PTL
=============================================================================
