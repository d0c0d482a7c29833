------------------------- MODULE ChatTableViewProofs -------------------------
(***************************************************************************)
(* What the table shows, what UITableView knows of it and where it is      *)
(* scrolled to, for any messages, days and bounds. TableInv adds to the    *)
(* properties that snapshots are finite, so that they have an array and    *)
(* sections; that the sections are the days of the array, each with the    *)
(* time of its midnight unless there is none; that the headers laid out    *)
(* belong to the sections; and that a table that is not at its bottom has  *)
(* a scroll block on the main queue.                                       *)
(***************************************************************************)
EXTENDS ChatTableView, FiniteSetTheorems, SequenceTheorems, TLAPS

Snap == { S \in SUBSET Msg : IsFiniteSet(S) }
SnapBlock == [kind : {"value", "scroll"}, snap : Snap]
Section == [sendingTime : Nat, message : Seq(Msg) \ {<<>>}]
HeaderView == [text : {"Today", "Yesterday", "date", ""}, day : Nat]

FiniteSnaps == view \in Snap /\ queue \in Seq(SnapBlock)

Typed ==
    /\ refused \in 0..MaxRefused
    /\ message \in Seq(Msg) /\ messageSection \in Seq(Section)
    /\ reloading \in BOOLEAN
    /\ rows \in Seq(Nat) /\ headers \in Seq(HeaderView)
    /\ position \in [section : Nat, row : Nat]
    /\ today \in FirstDay..(FirstDay + MaxMidnights) /\ stale \in BOOLEAN

\* A sorted array of different messages.
Arranged(msgs) ==
    \A i, j \in DOMAIN msgs :
        i < j => msgs[i] # msgs[j] /\ msgs[i].sendingTime <= msgs[j].sendingTime

DayOf(section) == Day(section.message[1])

\* The sections are the days of the messages, sorted by their times.
Grouped(msgs, sections) ==
    /\ \A i \in DOMAIN sections :
          /\ sections[i].message = OnDay(msgs, DayOf(sections[i]))
          /\ DayOf(sections[i]) \notin GapDays
                => sections[i].sendingTime = DayOf(sections[i]) * DayLength
    /\ { DayOf(sections[i]) : i \in DOMAIN sections } = { Day(msgs[i]) : i \in DOMAIN msgs }
    /\ \A i, j \in DOMAIN sections :
          i < j => /\ DayOf(sections[i]) # DayOf(sections[j])
                   /\ sections[i].sendingTime <= sections[j].sendingTime

Sectioned == Arranged(message) /\ Grouped(message, messageSection)

\* The headers of the last layout are those of the sections.
HeadersFit ==
    messageSection # <<>> /\ ~reloading =>
        /\ DOMAIN headers = DOMAIN messageSection
        /\ ~stale => \A i \in DOMAIN messageSection :
                        headers[i] = viewForHeaderInSection(messageSection, i)

\* A table that has not been scrolled to its last row is going to be.
ScrollQueued ==
    messageSection # <<>> => \/ position = LastRow(messageSection)
                             \/ \E i \in 1..Len(queue) : queue[i].kind = "scroll"

TableInv == Typed /\ FiniteSnaps /\ Sectioned /\ RowsCurrent /\ HeadersFit /\ ScrollQueued

-----------------------------------------------------------------------------
(* The messages of one day.                                                *)

\* Counting the elements up to each one numbers a set of positions in order.
LEMMA Ranks ==
    ASSUME NEW n \in Nat, NEW at \in SUBSET (1..n)
    PROVE  LET rank(i) == Cardinality({ j \in at : j <= i })
           IN  /\ IsFiniteSet(at) /\ Cardinality(at) \in Nat
               /\ \A i \in at : rank(i) \in 1..Cardinality(at)
               /\ \A i, j \in at : i < j => rank(i) < rank(j)
               /\ \A k \in 1..Cardinality(at) : \E i \in at : rank(i) = k
<1> DEFINE upTo(i) == { j \in at : j <= i }
           rank(i) == Cardinality(upTo(i))
           f == [ i \in at |-> rank(i) ]
<1>1. IsFiniteSet(1..n)
  BY FS_Interval
<1>2. IsFiniteSet(at) /\ Cardinality(at) \in Nat
  BY Zenon, <1>1, FS_Subset, FS_CardinalityType
<1>3. \A i \in at : IsFiniteSet(upTo(i)) /\ rank(i) \in Nat
  <2> TAKE i \in at
  <2>1. upTo(i) \in SUBSET at
    OBVIOUS
  <2> QED
    BY <1>2, <2>1, FS_Subset, FS_CardinalityType
<1>4. \A i \in at : rank(i) \in 1..Cardinality(at)
  <2> TAKE i \in at
  <2>1. upTo(i) \in SUBSET at /\ i \in upTo(i)
    OBVIOUS
  <2>2. rank(i) <= Cardinality(at)
    BY <1>2, <2>1, FS_Subset
  <2>3. rank(i) # 0
    BY <1>3, <2>1, FS_EmptySet
  <2>4. rank(i) \in Nat
    BY <1>3
  <2> HIDE DEF rank
  <2> QED
    BY <1>2, <2>2, <2>3, <2>4
<1>5. \A i, j \in at : i < j => rank(i) < rank(j)
  <2> SUFFICES ASSUME NEW i \in at, NEW j \in at, i < j
               PROVE  rank(i) < rank(j)
    OBVIOUS
  <2>0. i \in Int /\ j \in Int /\ \A x \in at : x \in Int
    OBVIOUS
  <2>a. (\A x \in at : x <= i => x <= j) /\ j <= j /\ ~(j <= i)
    BY <2>0
  <2>1. upTo(i) \in SUBSET upTo(j) /\ j \in upTo(j) /\ j \notin upTo(i)
    BY Zenon, <2>a
  <2>2. rank(i) <= rank(j) /\ rank(i) # rank(j)
    BY SMTT(30), <1>3, <2>1, FS_Subset
  <2>3. rank(i) \in Nat /\ rank(j) \in Nat
    BY <1>3
  <2> HIDE DEF rank
  <2> QED
    BY <2>2, <2>3
<1>6. \A k \in 1..Cardinality(at) : \E i \in at : rank(i) = k
  <2> HIDE DEF rank
  <2>1. f \in Injection(at, 1..Cardinality(at))
    BY <1>4, <1>5 DEF Injection, IsInjective
  <2>2. /\ IsFiniteSet(1..Cardinality(at))
        /\ Cardinality(1..Cardinality(at)) = Cardinality(at)
    BY <1>2, FS_Interval
  <2>3. f \in Surjection(at, 1..Cardinality(at))
    BY <2>1, <2>2, FS_Injection
  <2> QED
    BY Zenon, <2>3 DEF Surjection
<1> QED
  BY <1>2, <1>4, <1>5, <1>6

\* The k-th message of the day is at pick[k] in the array.
Picks(msgs, day, c, pick) ==
    /\ pick \in [1..c -> DOMAIN msgs]
    /\ OnDay(msgs, day) = [ k \in 1..c |-> msgs[pick[k]] ]
    /\ \A k \in 1..c : Day(msgs[pick[k]]) = day
    /\ \A k, l \in 1..c : k < l => pick[k] < pick[l]
    /\ \A i \in DOMAIN msgs : Day(msgs[i]) = day => \E k \in 1..c : pick[k] = i

\* OnDay picks the day's messages in the order of the array.
LEMMA OnDayPicks ==
    ASSUME NEW n \in Nat, NEW msgs \in [1..n -> Msg], NEW day
    PROVE  \E c \in Nat : \E pick : Picks(msgs, day, c, pick)
<1> DEFINE at == { i \in 1..n : Day(msgs[i]) = day }
           c == Cardinality(at)
           rank(i) == Cardinality({ j \in at : j <= i })
           nth(k) == CHOOSE i \in at : rank(i) = k
           pick == [ k \in 1..c |-> nth(k) ]
<1>0. at \in SUBSET (1..n) /\ (\A i \in at : i \in Int) /\ DOMAIN msgs = 1..n
  OBVIOUS
<1>1. OnDay(msgs, day) = [ k \in 1..c |-> msgs[nth(k)] ]
  BY <1>0 DEF OnDay
<1> HIDE DEF at
<1>2. /\ c \in Nat
      /\ \A i \in at : rank(i) \in 1..c
      /\ \A i, j \in at : i < j => rank(i) < rank(j)
      /\ \A k \in 1..c : \E i \in at : rank(i) = k
  BY Zenon, <1>0, Ranks
<1> HIDE DEF rank, c
<1>3. \A k \in 1..c : nth(k) \in at /\ rank(nth(k)) = k
  BY <1>2
<1> HIDE DEF nth
<1>4. \A k, l \in 1..c : k < l => nth(k) < nth(l)
  <2> SUFFICES ASSUME NEW k \in 1..c, NEW l \in 1..c, k < l, ~(nth(k) < nth(l))
               PROVE  FALSE
    OBVIOUS
  <2>1. /\ nth(k) \in at /\ nth(l) \in at /\ nth(k) \in Int /\ nth(l) \in Int
        /\ rank(nth(k)) = k /\ rank(nth(l)) = l
    BY Zenon, <1>0, <1>3
  <2>2. CASE nth(k) = nth(l)
    BY <2>1, <2>2
  <2>3. CASE nth(l) < nth(k)
    BY <1>2, <2>1, <2>3
  <2> QED
    BY <2>1, <2>2, <2>3
<1>5. \A i \in at : \E k \in 1..c : nth(k) = i
  <2> SUFFICES ASSUME NEW i \in at
               PROVE  nth(rank(i)) = i
    BY <1>2
  <2> DEFINE h == nth(rank(i))
  <2>1. rank(i) \in 1..c /\ h \in at /\ rank(h) = rank(i)
    BY Zenon, <1>2, <1>3
  <2>2. i \in Int /\ h \in Int
    BY Zenon, <1>0, <2>1
  <2> HIDE DEF h
  <2>3. ~(i < h) /\ ~(h < i)
    <3>1. rank(i) \in Int
      BY <2>1
    <3> QED
      BY <1>2, <2>1, <2>2, <3>1
  <2> QED
    BY <2>2, <2>3 DEF h
<1>6. pick \in [1..c -> 1..n]
  BY Zenon, <1>0, <1>3
<1>7. OnDay(msgs, day) = [ k \in 1..c |-> msgs[pick[k]] ]
  BY Zenon, <1>1
<1>8. \A k \in 1..c : Day(msgs[pick[k]]) = day
  BY Zenon, <1>3 DEF at
<1>9. \A k, l \in 1..c : k < l => pick[k] < pick[l]
  BY Zenon, <1>4
<1>10. \A i \in 1..n : Day(msgs[i]) = day => \E k \in 1..c : pick[k] = i
  BY Zenon, <1>5 DEF at
<1> HIDE DEF pick
<1>11. Picks(msgs, day, c, pick)
  BY Zenon, <1>0, <1>6, <1>7, <1>8, <1>9, <1>10 DEF Picks
<1> QED
  BY Zenon, <1>2, <1>11

-----------------------------------------------------------------------------
(* Days.                                                                   *)

LEMMA TimeType ==
    ASSUME NEW m \in Msg
    PROVE  m.sendingTime \in Nat /\ Day(m) \in Nat
<1>1. m.sendingTime \in Nat
  BY Zenon, TimesAssumption DEF Msg
<1> QED
  BY <1>1, DayAssumption DEF Day

LEMMA DayOfMidnight ==
    ASSUME NEW day \in Nat
    PROVE  day * DayLength \in Nat /\ (day * DayLength) \div DayLength = day
  BY DayAssumption

\* The group of a day that occurs is not empty and holds that day only.
LEMMA OnDayFacts ==
    ASSUME NEW n \in Nat, NEW msgs \in [1..n -> Msg], NEW i \in 1..n
    PROVE  LET s == OnDay(msgs, Day(msgs[i]))
           IN  /\ s \in Seq(Msg) \ {<<>>} /\ 1 \in DOMAIN s
               /\ \A k \in DOMAIN s : Day(s[k]) = Day(msgs[i])
<1> DEFINE day == Day(msgs[i])
           s == OnDay(msgs, day)
<1>0. PICK c \in Nat : \E pick : Picks(msgs, day, c, pick)
  BY Zenon, OnDayPicks
<1>1. PICK pick : Picks(msgs, day, c, pick)
  BY Zenon, <1>0
<1>2. \A k \in 1..c : Day(s[k]) = day
  BY <1>1 DEF Picks
<1>3. \E k \in 1..c : TRUE
  BY Zenon, <1>1 DEF Picks
<1>4. s \in [1..c -> Msg]
  BY <1>1 DEF Picks
<1> HIDE DEF s, day
<1>5. 1 \in 1..c /\ DOMAIN s = 1..c /\ s \in Seq(Msg) /\ Len(s) = c
  BY <1>3, <1>4
<1>6. s # <<>>
  BY <1>5
<1> QED
  BY <1>2, <1>5, <1>6 DEF s, day

\* The array and the sections that a snapshot becomes.
LEMMA GroupsOfSnap ==
    ASSUME today \in Nat, NEW S \in Snap, NEW msgs \in Sorted(S),
           NEW sections \in Sorted(MessageGroups(msgs))
    PROVE  /\ msgs \in Seq(Msg) /\ Arranged(msgs)
           /\ sections \in Seq(Section) /\ Grouped(msgs, sections)
<1> DEFINE n == Cardinality(S)
           group(day) == [ sendingTime |-> SectionTime(day), message |-> OnDay(msgs, day) ]
           D == { Day(msgs[i]) : i \in DOMAIN msgs }
           G == { group(day) : day \in D }
           f == [ i \in 1..n |-> group(Day(msgs[i])) ]
<1>1. n \in Nat
  BY FS_CardinalityType DEF Snap
<1>2. msgs \in [1..n -> S] /\ \A i, j \in 1..n : i # j => msgs[i] # msgs[j]
  BY DEF Sorted, SetToSeqs
<1>3. msgs \in [1..n -> Msg] /\ DOMAIN msgs = 1..n
  BY <1>2 DEF Snap
<1> HIDE DEF n
<1>4. msgs \in Seq(Msg)
  BY <1>1, <1>3
<1>5. Arranged(msgs)
  <2> SUFFICES ASSUME NEW i \in DOMAIN msgs, NEW j \in DOMAIN msgs, i < j
               PROVE  msgs[i] # msgs[j] /\ msgs[i].sendingTime <= msgs[j].sendingTime
    BY DEF Arranged
  <2>1. i # j
    BY <1>1, <1>3
  <2> QED
    BY <1>2, <1>3, <2>1 DEF Sorted
\* The groups of different days are different sections.
<1>6. \A day \in D : /\ day \in Nat /\ OnDay(msgs, day) \in Seq(Msg) \ {<<>>}
                     /\ Day(OnDay(msgs, day)[1]) = day
  <2> SUFFICES ASSUME NEW i \in 1..n
               PROVE  /\ Day(msgs[i]) \in Nat
                      /\ OnDay(msgs, Day(msgs[i])) \in Seq(Msg) \ {<<>>}
                      /\ Day(OnDay(msgs, Day(msgs[i]))[1]) = Day(msgs[i])
    BY <1>3
  <2> QED
    BY ZenonT(30), <1>1, <1>3, OnDayFacts, TimeType
<1>7. \A day \in D : /\ group(day) \in Section /\ DayOf(group(day)) = day
                     /\ day \notin GapDays => group(day).sendingTime = day * DayLength
  <2> SUFFICES ASSUME NEW day \in D
               PROVE  /\ group(day) \in Section /\ DayOf(group(day)) = day
                      /\ day \notin GapDays => group(day).sendingTime = day * DayLength
    OBVIOUS
  <2>1. SectionTime(day) \in Nat
    <3>1. day \in Nat /\ DayLength \in Nat \ {0}
      BY Zenon, <1>6, DayAssumption
    <3>2. day * DayLength \in Nat /\ today * DayLength + DayLength - 1 \in Nat
      BY <3>1
    <3> QED
      BY Zenon, <3>2 DEF SectionTime
  <2>2. group(day) \in Section
    BY <1>6, <2>1 DEF Section
  <2>3. DayOf(group(day)) = day
    BY <1>6 DEF DayOf
  <2>4. day \notin GapDays => group(day).sendingTime = day * DayLength
    BY DEF SectionTime
  <2> QED
    BY <2>2, <2>3, <2>4
<1>8. IsFiniteSet(G)
  <2>1. f \in Surjection(1..n, G)
    BY <1>3 DEF Surjection
  <2>2. IsFiniteSet(1..n)
    BY <1>1, FS_Interval
  <2> QED
    BY <2>1, <2>2, FS_Surjection
<1> DEFINE c == Cardinality(G)
<1>9. c \in Nat
  BY <1>8, FS_CardinalityType
<1>10. /\ sections \in [1..c -> G]
       /\ \A i, j \in 1..c : i # j => sections[i] # sections[j]
       /\ \A i, j \in 1..c : i < j => sections[i].sendingTime <= sections[j].sendingTime
  BY Zenon DEF Sorted, SetToSeqs, MessageGroups
<1>11. \A g \in G : \E i \in 1..c : sections[i] = g
  <2>1. sections \in Injection(1..c, G)
    BY <1>10 DEF Injection, IsInjective
  <2>2. IsFiniteSet(1..c) /\ Cardinality(1..c) = c
    BY <1>9, FS_Interval
  <2>3. sections \in Surjection(1..c, G)
    BY <1>8, <2>1, <2>2, FS_Injection
  <2> QED
    BY <2>3 DEF Surjection
<1> HIDE DEF c
<1>12. \A i \in 1..c : \E day \in D : sections[i] = group(day)
  BY <1>10
<1> HIDE DEF group, D
<1>13. \A i \in 1..c : /\ DayOf(sections[i]) \in D
                       /\ sections[i] = group(DayOf(sections[i]))
  <2> TAKE i \in 1..c
  <2>1. PICK day \in D : sections[i] = group(day)
    BY Zenon, <1>12
  <2> QED
    BY Zenon, <1>7, <2>1
<1>14. sections \in Seq(Section) /\ DOMAIN sections = 1..c
  <2>1. \A i \in 1..c : sections[i] \in Section
    BY Zenon, <1>7, <1>13
  <2>2. sections \in [1..c -> Section]
    BY <1>10, <2>1
  <2> QED
    BY <1>9, <2>2
<1>15. Grouped(msgs, sections)
  <2>1. \A i \in 1..c :
          /\ sections[i].message = OnDay(msgs, DayOf(sections[i]))
          /\ DayOf(sections[i]) \notin GapDays
                => sections[i].sendingTime = DayOf(sections[i]) * DayLength
    <3> TAKE i \in 1..c
    <3> DEFINE day == DayOf(sections[i])
    <3>1. day \in D /\ sections[i] = group(day)
      BY Zenon, <1>13
    <3>2. sections[i].message = OnDay(msgs, day)
      BY <3>1 DEF group
    <3> QED
      BY Zenon, <1>7, <3>1, <3>2
  <2>2. { DayOf(sections[i]) : i \in 1..c } = D
    <3>1. \A day \in D : \E i \in 1..c : DayOf(sections[i]) = day
      BY Zenon, <1>7, <1>11
    <3> QED
      BY Zenon, <1>13, <3>1
  <2>3. \A i, j \in 1..c : i < j => /\ DayOf(sections[i]) # DayOf(sections[j])
                                    /\ sections[i].sendingTime <= sections[j].sendingTime
    <3> SUFFICES ASSUME NEW i \in 1..c, NEW j \in 1..c, i < j
                 PROVE  DayOf(sections[i]) # DayOf(sections[j])
      BY Zenon, <1>10
    <3>1. i # j
      BY <1>9
    <3> QED
      BY Zenon, <1>10, <1>13, <3>1
  <2> QED
    BY Zenon, <1>14, <2>1, <2>2, <2>3 DEF Grouped, D
<1> QED
  BY <1>4, <1>5, <1>14, <1>15

-----------------------------------------------------------------------------
(* The steps.                                                              *)

LEMMA TableInit == Init => TableInv
<1> SUFFICES ASSUME Init PROVE TableInv
  OBVIOUS
<1>1. view \in Snap /\ queue \in Seq(SnapBlock)
  BY FS_EmptySet, EmptySeq DEF Init, Snap
<1>2. Typed
  <2>1. /\ refused \in 0..MaxRefused /\ today \in FirstDay..(FirstDay + MaxMidnights)
        /\ position \in [section : Nat, row : Nat]
    BY BoundsAssumption, DayAssumption DEF Init, Nowhere
  <2>2. /\ message \in Seq(Msg) /\ messageSection \in Seq(Section)
        /\ rows \in Seq(Nat) /\ headers \in Seq(HeaderView)
    BY Zenon, EmptySeq DEF Init
  <2> QED
    BY Zenon, <2>1, <2>2 DEF Init, Typed
<1>3. Sectioned
  BY DEF Init, Sectioned, Arranged, Grouped
<1> QED
  BY <1>1, <1>2, <1>3 DEF Init, TableInv, FiniteSnaps, RowsCurrent, HeadersFit, ScrollQueued

LEMMA TodayType ==
    ASSUME Typed
    PROVE  today \in Nat
  BY DayAssumption DEF Typed

\* What UITableView learns has the right type.
LEMMA HeaderType ==
    ASSUME today \in Nat, NEW sections \in Seq(Section), NEW i \in DOMAIN sections
    PROVE  viewForHeaderInSection(sections, i) \in HeaderView
<1> DEFINE day == sections[i].sendingTime \div DayLength
<1>1. sections[i].sendingTime \in Nat
  <2>1. sections[i] \in Section
    BY ElementOfSeq, LenProperties
  <2> QED
    BY <2>1 DEF Section
<1>2. day \in Nat
  BY <1>1, DayAssumption
<1> HIDE DEF day
<1>3. Header(day) \in HeaderView
  BY <1>2 DEF Header, HeaderView
<1> QED
  BY <1>3 DEF viewForHeaderInSection, day

LEMMA LayoutTypes ==
    ASSUME today \in Nat, NEW sections \in Seq(Section)
    PROVE  /\ RowCounts(sections) \in Seq(Nat)
           /\ [ i \in DOMAIN sections |-> viewForHeaderInSection(sections, i) ] \in Seq(HeaderView)
<1>1. DOMAIN sections = 1..Len(sections) /\ Len(sections) \in Nat
  BY LenProperties
<1>2. \A i \in DOMAIN sections : viewForHeaderInSection(sections, i) \in HeaderView
  BY Zenon, HeaderType
<1>3. \A i \in DOMAIN sections : Len(sections[i].message) \in Nat
  <2> TAKE i \in DOMAIN sections
  <2>1. sections[i] \in Section
    BY ElementOfSeq, <1>1
  <2>2. sections[i].message \in Seq(Msg)
    BY <2>1 DEF Section
  <2> QED
    BY <2>2, LenProperties
<1> QED
  BY <1>1, <1>2, <1>3 DEF RowCounts

\* A layout, or none, keeps the types.
LEMMA LayoutStep ==
    ASSUME Typed, NEW sections \in Seq(Section), Layout(sections) \/ NoLayout
    PROVE  rows' \in Seq(Nat) /\ headers' \in Seq(HeaderView) /\ stale' \in BOOLEAN
<1>1. today \in Nat
  BY TodayType
<1>2. CASE Layout(sections)
  BY Zenon, <1>1, <1>2, LayoutTypes DEF Layout
<1>3. CASE NoLayout
  BY <1>3 DEF NoLayout, Typed
<1> QED
  BY <1>2, <1>3

\* A snapshot is shown: the reload is pending and a scroll block is queued.
LEMMA StepValue ==
    ASSUME TableInv, receiveMessage
    PROVE  TableInv'
<1>1. queue # <<>> /\ queue \in Seq(SnapBlock) /\ UNCHANGED <<view, refused, position, today>>
  BY DEF receiveMessage, TableInv, FiniteSnaps
<1>2. Head(queue) \in SnapBlock /\ Tail(queue) \in Seq(SnapBlock)
  BY <1>1, HeadTailProperties
<1>3. PICK msgs \in Sorted(Head(queue).snap) : message' = msgs /\ filterMessageArray(msgs)
  BY Zenon DEF receiveMessage
<1>4. PICK sections \in Sorted(MessageGroups(msgs)) :
          /\ messageSection' = sections
          /\ queue' = Tail(queue) \o [ i \in DOMAIN sections |-> Scroll ]
          /\ Layout(sections) \/ NoLayout
          /\ reloading' = (reloading \/ sections # <<>>)
  BY Zenon, <1>3 DEF filterMessageArray
<1>5. Head(queue).snap \in Snap /\ today \in Nat
  BY <1>2, TodayType DEF SnapBlock, TableInv
<1>6. /\ msgs \in Seq(Msg) /\ Arranged(msgs)
      /\ sections \in Seq(Section) /\ Grouped(msgs, sections)
  BY Zenon, <1>5, GroupsOfSnap
<1>7. Typed'
  <2>1. rows' \in Seq(Nat) /\ headers' \in Seq(HeaderView) /\ stale' \in BOOLEAN
    BY Zenon, <1>4, <1>6, LayoutStep DEF TableInv
  <2>2. reloading' \in BOOLEAN
    BY Zenon, <1>4
  <2> QED
    BY Zenon, <1>1, <1>3, <1>4, <1>6, <2>1, <2>2 DEF TableInv, Typed
<1>8. Sectioned'
  BY Zenon, <1>3, <1>4, <1>6 DEF Sectioned
<1> DEFINE n == Len(sections)
           scrolls == [ i \in 1..n |-> Scroll ]
<1>9. n \in Nat /\ DOMAIN sections = 1..n /\ (sections # <<>> => n >= 1)
  <2>1. n \in Nat /\ DOMAIN sections = 1..n
    BY <1>6, LenProperties
  <2>2. sections # <<>> => n \in Nat \ {0}
    BY Zenon, <1>6, EmptySeq
  <2> QED
    BY <2>1, <2>2
<1>10. Scroll \in SnapBlock /\ Scroll.kind = "scroll"
  BY FS_EmptySet DEF Scroll, SnapBlock, Snap
<1>11. queue' = Tail(queue) \o scrolls
  BY <1>4, <1>9
<1> HIDE DEF n
<1>12. /\ scrolls \in Seq(SnapBlock) /\ Len(scrolls) = n
       /\ \A i \in 1..n : scrolls[i].kind = "scroll"
  BY <1>9, <1>10
<1> HIDE DEF scrolls
<1>13. /\ queue' \in Seq(SnapBlock) /\ Len(queue') = Len(Tail(queue)) + n
       /\ Len(Tail(queue)) \in Nat
       /\ \A i \in 1..(Len(Tail(queue)) + n) :
             queue'[i] = IF i <= Len(Tail(queue)) THEN Tail(queue)[i]
                         ELSE scrolls[i - Len(Tail(queue))]
  BY Zenon, <1>2, <1>11, <1>12, ConcatProperties, LenProperties
<1>14. FiniteSnaps'
  BY <1>1, <1>13 DEF TableInv, FiniteSnaps
<1>15. RowsCurrent' /\ HeadersFit'
  BY Zenon, <1>4 DEF RowsCurrent, HeadersFit
<1>16. ScrollQueued'
  <2> SUFFICES ASSUME sections # <<>>
               PROVE  \E i \in 1..Len(queue') : queue'[i].kind = "scroll"
    BY Zenon, <1>4 DEF ScrollQueued
  <2>1. Len(queue') \in 1..Len(queue') /\ ~(Len(queue') <= Len(Tail(queue)))
        /\ Len(queue') - Len(Tail(queue)) = n /\ n \in 1..n
    BY <1>9, <1>13
  <2>2. queue'[Len(queue')] = scrolls[n]
    BY <1>13, <2>1
  <2> QED
    BY <1>12, <2>1, <2>2
<1> QED
  BY Zenon, <1>7, <1>8, <1>14, <1>15, <1>16 DEF TableInv

\* After a layout of the sections UITableView knows their rows and headers.
LEMMA LaidOut ==
    ASSUME Layout(messageSection), UNCHANGED <<messageSection, today>>
    PROVE  RowsCurrent' /\ HeadersFit'
<1>1. /\ rows' = RowCounts(messageSection) /\ stale' = FALSE
      /\ headers' = [ i \in DOMAIN messageSection |-> viewForHeaderInSection(messageSection, i) ]
  BY DEF Layout
<1>2. RowsCurrent'
  BY <1>1 DEF RowsCurrent, RowCounts
<1>3. HeadersFit'
  BY <1>1 DEF HeadersFit, viewForHeaderInSection, Header
<1> QED
  BY <1>2, <1>3

\* A table whose rows and headers do not change keeps them.
LEMMA NotLaidOut ==
    ASSUME TableInv, UNCHANGED <<messageSection, reloading, rows, headers>>,
           UNCHANGED <<today, stale>> \/ stale'
    PROVE  RowsCurrent' /\ HeadersFit'
<1>1. RowsCurrent'
  BY DEF TableInv, RowsCurrent, RowCounts
<1>2. HeadersFit'
  BY DEF TableInv, HeadersFit, viewForHeaderInSection, Header
<1> QED
  BY <1>1, <1>2

\* A scroll block goes to the last row there is by then.
LEMMA StepScroll ==
    ASSUME TableInv, scrollToBottom
    PROVE  TableInv'
<1>1. /\ queue # <<>> /\ queue' = Tail(queue)
      /\ UNCHANGED <<view, refused, message, messageSection, today>>
  BY DEF scrollToBottom
<1>2. FiniteSnaps'
  BY <1>1, HeadTailProperties DEF TableInv, FiniteSnaps
<1>3. Sectioned'
  BY Zenon, <1>1 DEF TableInv, Sectioned
<1>4. messageSection \in Seq(Section) /\ Typed
  BY DEF TableInv, Typed
<1>5. CASE messageSection = <<>>
  <2>1. NoLayout /\ UNCHANGED <<reloading, position>>
    BY <1>5 DEF scrollToBottom
  <2>2. Typed'
    BY Zenon, <1>1, <1>4, <2>1 DEF Typed, NoLayout
  <2>3. RowsCurrent' /\ HeadersFit' /\ ScrollQueued'
    BY Zenon, <1>1, <1>5 DEF RowsCurrent, HeadersFit, ScrollQueued
  <2> QED
    BY Zenon, <1>2, <1>3, <2>2, <2>3 DEF TableInv
<1>6. CASE messageSection # <<>>
  <2>1. /\ position' = LastRow(messageSection) /\ reloading' = FALSE
        /\ Layout(messageSection) \/ (~reloading /\ NoLayout)
    BY Zenon, <1>6 DEF scrollToBottom
  <2>2. LastRow(messageSection) \in [section : Nat, row : Nat]
    <3>1. Len(messageSection) \in Nat \ {0}
      BY Zenon, <1>4, <1>6, EmptySeq
    <3>2. messageSection[Len(messageSection)] \in Section
      BY <1>4, <3>1, ElementOfSeq
    <3>3. Len(messageSection[Len(messageSection)].message) \in Nat
      BY <3>2, LenProperties DEF Section
    <3> QED
      BY <3>1, <3>3 DEF LastRow
  <2>3. rows' \in Seq(Nat) /\ headers' \in Seq(HeaderView) /\ stale' \in BOOLEAN
    BY Zenon, <1>4, <2>1, LayoutStep
  <2>4. Typed'
    BY Zenon, <1>1, <1>4, <2>1, <2>2, <2>3 DEF Typed
  <2>5. RowsCurrent' /\ HeadersFit'
    <3>1. CASE Layout(messageSection)
      BY Zenon, <1>1, <3>1, LaidOut
    <3>2. CASE ~reloading /\ NoLayout
      <4>1. reloading' = reloading
        BY Zenon, <1>4, <2>1, <3>2 DEF Typed
      <4> QED
        BY Zenon, <1>1, <3>2, <4>1, NotLaidOut DEF NoLayout
    <3> QED
      BY <2>1, <3>1, <3>2
  <2>6. ScrollQueued'
    BY <1>1, <2>1 DEF ScrollQueued, LastRow
  <2> QED
    BY Zenon, <1>2, <1>3, <2>4, <2>5, <2>6 DEF TableInv
<1> QED
  BY <1>5, <1>6

\* The conversation changes, and the snapshot joins the queue.
LEMMA StepChanges ==
    ASSUME TableInv, NEW gone \in SUBSET view, NEW times \in BoundedSeq(Times, Unsent),
           Changes(gone, times)
    PROVE  TableInv'
<1> DEFINE base == Cardinality(view) + refused
           new(i) == [id |-> base + i, sendingTime |-> times[i]]
           N == { new(i) : i \in DOMAIN times }
           f == [ i \in DOMAIN times |-> new(i) ]
           b == [kind |-> "value", snap |-> view']
<1>1. /\ UNCHANGED <<message, messageSection, reloading, rows, headers, position, today, stale>>
      /\ refused + Cardinality(gone) <= MaxRefused
      /\ refused' = refused + Cardinality(gone)
      /\ view' = (view \ gone) \cup N
      /\ queue' = Append(queue, b)
  BY DEF Changes
<1>2. view \in Snap /\ refused \in Nat /\ queue \in Seq(SnapBlock)
  BY BoundsAssumption DEF TableInv, FiniteSnaps, Typed
<1>3. IsFiniteSet(view) /\ view \subseteq Msg /\ Cardinality(view) \in Nat
  BY <1>2, FS_CardinalityType DEF Snap
<1>4. IsFiniteSet(gone) /\ IsFiniteSet(view \ gone)
  <2>1. view \ gone \in SUBSET view
    OBVIOUS
  <2> QED
    BY SMTT(30), <1>3, <2>1, FS_Subset
<1>5. refused' \in 0..MaxRefused
  <2>1. Cardinality(gone) \in Nat
    BY Zenon, <1>4, FS_CardinalityType
  <2> QED
    BY SMTT(30), <1>1, <1>2, <2>1, BoundsAssumption
<1>6. PICK m \in 0..Unsent : times \in [1..m -> Times]
  BY DEF BoundedSeq, SeqOf
<1>7. base \in Nat /\ m \in Nat /\ base + m <= MaxMessages /\ DOMAIN times = 1..m
  BY SMTT(30), <1>2, <1>3, <1>6, BoundsAssumption DEF Unsent
<1> HIDE DEF base
<1>8. N \subseteq Msg
  <2> SUFFICES ASSUME NEW i \in 1..m
               PROVE  new(i) \in Msg
    BY <1>7
  <2>1. base + i \in 1..MaxMessages
    BY <1>7, BoundsAssumption
  <2> QED
    BY <1>6, <2>1 DEF Msg
<1>9. IsFiniteSet(N)
  <2>1. f \in Surjection(DOMAIN times, N)
    BY DEF Surjection
  <2>2. IsFiniteSet(DOMAIN times)
    BY <1>7, FS_Interval
  <2> QED
    BY SMTT(30), <2>1, <2>2, FS_Surjection
<1> HIDE DEF N, f
<1>10. view' \in Snap
  <2>1. IsFiniteSet((view \ gone) \cup N)
    BY ZenonT(30), <1>4, <1>9, FS_Union
  <2> QED
    BY <1>1, <1>3, <1>8, <2>1 DEF Snap
<1>11. b \in SnapBlock
  BY <1>10 DEF SnapBlock
<1> HIDE DEF b
<1>12. /\ queue' \in Seq(SnapBlock) /\ Len(queue') = Len(queue) + 1 /\ Len(queue) \in Nat
       /\ \A i \in 1..Len(queue) : queue'[i] = queue[i]
  BY SMTT(30), <1>1, <1>2, <1>11, AppendProperties, LenProperties
<1>13. FiniteSnaps' /\ Typed'
  BY Zenon, <1>1, <1>5, <1>10, <1>12 DEF TableInv, FiniteSnaps, Typed
<1>14. Sectioned'
  BY Zenon, <1>1 DEF TableInv, Sectioned
<1>15. RowsCurrent' /\ HeadersFit'
  BY Zenon, <1>1, NotLaidOut
<1>16. ScrollQueued'
  <2>1. \A i \in 1..Len(queue) : i \in 1..Len(queue')
    BY <1>12
  <2> QED
    BY <1>1, <1>12, <2>1 DEF TableInv, ScrollQueued, LastRow
<1> QED
  BY Zenon, <1>13, <1>14, <1>15, <1>16 DEF TableInv

\* A header is asked for again.
LEMMA StepHeader ==
    ASSUME TableInv, NEW i \in DOMAIN headers, HeaderAppears(i)
    PROVE  TableInv'
<1> DEFINE h == IF i \in DOMAIN messageSection
                THEN viewForHeaderInSection(messageSection, i) ELSE [text |-> "", day |-> 0]
<1>1. /\ UNCHANGED <<view, refused, queue, message, messageSection, reloading, rows,
                     position, today, stale>>
      /\ headers' = [headers EXCEPT ![i] = h]
  BY Zenon DEF HeaderAppears
<1>2. h \in HeaderView
  <2>1. i \in DOMAIN messageSection => viewForHeaderInSection(messageSection, i) \in HeaderView
    BY Zenon, TodayType, HeaderType DEF TableInv, Typed
  <2>2. [text |-> "", day |-> 0] \in HeaderView
    BY DEF HeaderView
  <2> QED
    BY Zenon, <2>1, <2>2
<1>3. headers' \in Seq(HeaderView) /\ DOMAIN headers' = DOMAIN headers
  <2>1. headers \in Seq(HeaderView)
    BY Zenon DEF TableInv, Typed
  <2> HIDE DEF h
  <2> QED
    BY <1>1, <1>2, <2>1
<1>4. Typed'
  BY Zenon, <1>1, <1>3 DEF TableInv, Typed
<1>5. FiniteSnaps' /\ Sectioned'
  BY Zenon, <1>1 DEF TableInv, FiniteSnaps, Sectioned
<1>6. RowsCurrent'
  BY Zenon, <1>1 DEF TableInv, RowsCurrent, RowCounts
<1>7. HeadersFit'
  <2> SUFFICES ASSUME messageSection # <<>>, ~reloading
               PROVE  /\ DOMAIN headers' = DOMAIN messageSection
                      /\ ~stale => \A j \in DOMAIN messageSection :
                            headers'[j] = viewForHeaderInSection(messageSection, j)
    BY <1>1 DEF HeadersFit, viewForHeaderInSection, Header
  <2>1. /\ DOMAIN headers = DOMAIN messageSection
        /\ ~stale => \A j \in DOMAIN messageSection :
                        headers[j] = viewForHeaderInSection(messageSection, j)
    BY Zenon DEF TableInv, HeadersFit
  <2>2. \A j \in DOMAIN messageSection :
            headers'[j] = IF j = i THEN viewForHeaderInSection(messageSection, i) ELSE headers[j]
    BY <1>1, <2>1
  <2> QED
    BY Zenon, <1>3, <2>1, <2>2
<1>8. ScrollQueued'
  BY Zenon, <1>1 DEF TableInv, ScrollQueued, LastRow
<1> QED
  BY Zenon, <1>4, <1>5, <1>6, <1>7, <1>8 DEF TableInv

\* UIKit lays out, and midnight passes.
LEMMA StepOther ==
    ASSUME TableInv, layoutSubviews \/ Midnight \/ UNCHANGED vars
    PROVE  TableInv'
<1>1. UNCHANGED <<view, refused, queue, message, messageSection, position>>
  BY Zenon DEF layoutSubviews, Midnight, vars
<1>2. FiniteSnaps' /\ Sectioned'
  BY Zenon, <1>1 DEF TableInv, FiniteSnaps, Sectioned
<1>3. ScrollQueued'
  BY <1>1 DEF TableInv, ScrollQueued, LastRow
<1>4. CASE layoutSubviews
  <2>1. Layout(messageSection) /\ reloading' = FALSE /\ today' = today
    BY <1>4 DEF layoutSubviews
  <2>2. rows' \in Seq(Nat) /\ headers' \in Seq(HeaderView) /\ stale' \in BOOLEAN
    BY Zenon, <2>1, LayoutStep DEF TableInv, Typed
  <2>3. Typed'
    BY Zenon, <1>1, <2>1, <2>2 DEF TableInv, Typed
  <2>4. RowsCurrent' /\ HeadersFit'
    BY Zenon, <1>1, <2>1, LaidOut
  <2> QED
    BY Zenon, <1>2, <1>3, <2>3, <2>4 DEF TableInv
<1>5. CASE Midnight \/ UNCHANGED vars
  <2>1. /\ UNCHANGED <<reloading, rows, headers>>
        /\ UNCHANGED <<today, stale>> \/ stale' = TRUE
    BY Zenon, <1>5 DEF Midnight, vars
  <2>2. today' \in FirstDay..(FirstDay + MaxMidnights)
    BY <1>5, DayAssumption, BoundsAssumption DEF Midnight, vars, TableInv, Typed
  <2>3. stale' \in BOOLEAN
    BY Zenon, <2>1 DEF TableInv, Typed
  <2>4. Typed'
    BY Zenon, <1>1, <2>1, <2>2, <2>3 DEF TableInv, Typed
  <2>5. RowsCurrent' /\ HeadersFit'
    BY Zenon, <1>1, <2>1, NotLaidOut
  <2> QED
    BY Zenon, <1>2, <1>3, <2>4, <2>5 DEF TableInv
<1> QED
  BY <1>4, <1>5

\* TableInv is inductive.
THEOREM TableInvariant == Spec => []TableInv
<1>1. TableInv /\ [Next]_vars => TableInv'
  BY Zenon, StepValue, StepScroll, StepChanges, StepHeader, StepOther DEF Next, MainQueue
<1> QED
  BY <1>1, TableInit, PTL DEF Spec

-----------------------------------------------------------------------------
(* The properties.                                                         *)

\* The variables have their types; no section is empty, and no message has an
\* identifier beyond those that have been sent (filterMessageArray).
THEOREM TableTypes == Spec => []TypeOK
<1>1. TableInv => TypeOK
  <2> SUFFICES ASSUME TableInv PROVE TypeOK
    OBVIOUS
  <2>1. view \subseteq Msg /\ Snap \subseteq SUBSET Msg
    BY DEF TableInv, FiniteSnaps, Snap
  <2>2. SnapBlock \subseteq Block
    BY <2>1 DEF SnapBlock, Block
  <2>3. queue \in Seq(Block)
    BY SMTT(30), <2>2 DEF TableInv, FiniteSnaps
  <2> QED
    BY Zenon, <2>1, <2>3 DEF TableInv, Typed, TypeOK, Section, HeaderView
<1> QED
  BY <1>1, TableInvariant, PTL

\* A row a scroll block names is one UITableView knows of, and a table with
\* messages shows the rows of its last snapshot (filterMessageArray).
THEOREM RowsAreCurrent == Spec => []RowsCurrent
<1>1. TableInv => RowsCurrent
  BY DEF TableInv
<1> QED
  BY <1>1, TableInvariant, PTL

\* With an empty main queue the table is at its last row (scrollToBottom).
THEOREM TableEndsAtBottom == Spec => []EndsAtBottom
<1>1. TableInv => EndsAtBottom
  <2> SUFFICES ASSUME TableInv, queue = <<>>, messageSection # <<>>
               PROVE  position = LastRow(messageSection)
    BY DEF EndsAtBottom
  <2>1. Len(queue) = 0
    BY Zenon, EmptySeq
  <2> QED
    BY <2>1 DEF TableInv, ScrollQueued
<1> QED
  BY <1>1, TableInvariant, PTL

\* The rows of a section hold different messages of its day, in the order of
\* the array.
LEMMA RowsOfSection ==
    ASSUME TableInv, NEW i \in DOMAIN messageSection
    PROVE  /\ DayOf(messageSection[i]) \in Nat
           /\ \E n \in Nat : DOMAIN message = 1..n /\ message \in [1..n -> Msg]
           /\ \E c \in Nat : \E pick :
                 /\ Picks(message, DayOf(messageSection[i]), c, pick)
                 /\ DOMAIN messageSection[i].message = 1..c
<1> DEFINE day == DayOf(messageSection[i])
           n == Len(message)
<1>1. n \in Nat /\ DOMAIN message = 1..n /\ message \in [1..n -> Msg]
  BY LenProperties DEF TableInv, Typed
<1>2. messageSection[i].message = OnDay(message, day)
  BY Zenon DEF TableInv, Sectioned, Grouped
<1>3. PICK k \in DOMAIN message : day = Day(message[k])
  <2>1. day \in { DayOf(messageSection[j]) : j \in DOMAIN messageSection }
    BY Zenon
  <2> QED
    BY Zenon, <2>1 DEF TableInv, Sectioned, Grouped
<1>4. day \in Nat
  BY Zenon, <1>1, <1>3, TimeType
<1> HIDE DEF day, n
<1>5. PICK c \in Nat : \E pick : Picks(message, day, c, pick)
  BY Zenon, <1>1, OnDayPicks
<1>6. PICK pick : Picks(message, day, c, pick)
  BY Zenon, <1>5
<1>7. DOMAIN messageSection[i].message = 1..c
  BY SMTT(30), <1>2, <1>6 DEF Picks
<1> QED
  BY Zenon, <1>1, <1>4, <1>6, <1>7 DEF day

\* The header above a message tells its day as of the last layout
\* (filterMessageArray, viewForHeaderInSection).
THEOREM HeadersAreCurrent == Spec => []HeadersCurrent
<1>1. TableInv => HeadersCurrent
  <2> SUFFICES ASSUME TableInv, messageSection # <<>>, ~reloading, ~stale,
                      NEW i \in DOMAIN messageSection,
                      NEW k \in DOMAIN messageSection[i].message,
                      ~InGap(messageSection[i].message[k])
               PROVE  headers[i] = Header(Day(messageSection[i].message[k]))
    BY Zenon DEF HeadersCurrent
  <2> DEFINE day == DayOf(messageSection[i])
  <2>1. headers[i] = Header(messageSection[i].sendingTime \div DayLength)
    BY Zenon DEF TableInv, HeadersFit, viewForHeaderInSection
  <2>2. day \in Nat /\ \E c \in Nat : \E pick : /\ Picks(message, day, c, pick)
                                                /\ DOMAIN messageSection[i].message = 1..c
    BY Zenon, RowsOfSection
  <2>3. PICK c \in Nat : \E pick : /\ Picks(message, day, c, pick)
                                   /\ DOMAIN messageSection[i].message = 1..c
    BY Zenon, <2>2
  <2>4. PICK pick : Picks(message, day, c, pick) /\ DOMAIN messageSection[i].message = 1..c
    BY Zenon, <2>3
  <2>5. messageSection[i].message = OnDay(message, day)
    BY Zenon DEF TableInv, Sectioned, Grouped
  <2> HIDE DEF day
  <2>6. Day(messageSection[i].message[k]) = day
    BY <2>4, <2>5 DEF Picks
  <2>7. messageSection[i].sendingTime = day * DayLength
    BY Zenon, <2>6 DEF TableInv, Sectioned, Grouped, InGap, day
  <2>8. messageSection[i].sendingTime \div DayLength = day
    BY Zenon, <2>2, <2>7, DayOfMidnight
  <2> QED
    BY Zenon, <2>1, <2>6, <2>8
<1> QED
  BY <1>1, TableInvariant, PTL

LEMMA RowHoldsMessage ==
    ASSUME TableInv, NEW i \in DOMAIN messageSection,
           NEW k \in DOMAIN messageSection[i].message
    PROVE  /\ messageSection[i].message[k] \in Msg
           /\ Day(messageSection[i].message[k]) = DayOf(messageSection[i])
           /\ \E p \in DOMAIN message : messageSection[i].message[k] = message[p]
<1> DEFINE day == DayOf(messageSection[i])
<1>1. PICK c \in Nat : \E pick : /\ Picks(message, day, c, pick)
                                 /\ DOMAIN messageSection[i].message = 1..c
  BY Zenon, RowsOfSection
<1>2. PICK pick : Picks(message, day, c, pick) /\ DOMAIN messageSection[i].message = 1..c
  BY Zenon, <1>1
<1>3. messageSection[i].message = OnDay(message, day)
  BY Zenon DEF TableInv, Sectioned, Grouped
<1> HIDE DEF day
<1>4. /\ messageSection[i].message[k] = message[pick[k]] /\ pick[k] \in DOMAIN message
      /\ Day(message[pick[k]]) = day
  BY <1>2, <1>3 DEF Picks
<1>5. \A p \in DOMAIN message : message[p] \in Msg
  BY Zenon, RowsOfSection
<1> QED
  BY Zenon, <1>4, <1>5 DEF day

LEMMA RowsInOrder ==
    ASSUME TableInv, NEW i \in DOMAIN messageSection,
           NEW k \in DOMAIN messageSection[i].message,
           NEW l \in DOMAIN messageSection[i].message, k < l
    PROVE  /\ messageSection[i].message[k] # messageSection[i].message[l]
           /\ messageSection[i].message[k].sendingTime <= messageSection[i].message[l].sendingTime
<1> DEFINE day == DayOf(messageSection[i])
<1>1. PICK c \in Nat : \E pick : /\ Picks(message, day, c, pick)
                                 /\ DOMAIN messageSection[i].message = 1..c
  BY Zenon, RowsOfSection
<1>2. PICK pick : Picks(message, day, c, pick) /\ DOMAIN messageSection[i].message = 1..c
  BY Zenon, <1>1
<1>3. messageSection[i].message = OnDay(message, day)
  BY Zenon DEF TableInv, Sectioned, Grouped
<1> HIDE DEF day
<1>4. /\ messageSection[i].message[k] = message[pick[k]] /\ pick[k] \in DOMAIN message
      /\ messageSection[i].message[l] = message[pick[l]] /\ pick[l] \in DOMAIN message
      /\ pick[k] < pick[l]
  BY <1>2, <1>3 DEF Picks
<1> QED
  BY Zenon, <1>4 DEF TableInv, Sectioned, Arranged

LEMMA SectionsInOrder ==
    ASSUME TableInv, NEW i \in DOMAIN messageSection, NEW j \in DOMAIN messageSection, i < j,
           NEW k \in DOMAIN messageSection[i].message,
           NEW l \in DOMAIN messageSection[j].message
    PROVE  LET a == messageSection[i].message[k]
               b == messageSection[j].message[l]
           IN  /\ Day(a) # Day(b)
               /\ InGap(a) \/ InGap(b) \/ ~(b.sendingTime < a.sendingTime)
<1> DEFINE a == messageSection[i].message[k]
           b == messageSection[j].message[l]
<1>1. /\ a \in Msg /\ Day(a) = DayOf(messageSection[i])
      /\ b \in Msg /\ Day(b) = DayOf(messageSection[j])
  BY Zenon, RowHoldsMessage
<1>2. /\ Day(a) # Day(b)
      /\ messageSection[i].sendingTime <= messageSection[j].sendingTime
      /\ Day(a) \notin GapDays => messageSection[i].sendingTime = Day(a) * DayLength
      /\ Day(b) \notin GapDays => messageSection[j].sendingTime = Day(b) * DayLength
  BY Zenon, <1>1 DEF TableInv, Sectioned, Grouped
<1>3. /\ a.sendingTime \in Nat /\ b.sendingTime \in Nat /\ Day(a) \in Nat /\ Day(b) \in Nat
      /\ DayLength \in Nat \ {0}
      /\ Day(a) = a.sendingTime \div DayLength /\ Day(b) = b.sendingTime \div DayLength
  BY Zenon, <1>1, TimeType, DayAssumption DEF Day
<1> HIDE DEF a, b
<1>4. ASSUME Day(a) \notin GapDays, Day(b) \notin GapDays
      PROVE  ~(b.sendingTime < a.sendingTime)
  <2>1. Day(a) * DayLength <= Day(b) * DayLength
    BY Zenon, <1>2, <1>4
  <2>2. Day(a) <= Day(b)
    BY <1>3, <2>1
  <2>3. Day(a) < Day(b)
    BY <1>2, <1>3, <2>2
  <2> QED
    BY <1>3, <2>3
<1> QED
  BY Zenon, <1>2, <1>4 DEF InGap, a, b

LEMMA MessageHasRow ==
    ASSUME TableInv, NEW p \in DOMAIN message
    PROVE  \E i \in DOMAIN messageSection : \E k \in DOMAIN messageSection[i].message :
              messageSection[i].message[k] = message[p]
<1>1. Day(message[p]) \in { DayOf(messageSection[i]) : i \in DOMAIN messageSection }
  BY Zenon DEF TableInv, Sectioned, Grouped
<1>2. PICK i \in DOMAIN messageSection : DayOf(messageSection[i]) = Day(message[p])
  BY Zenon, <1>1
<1> DEFINE day == DayOf(messageSection[i])
<1>3. PICK c \in Nat : \E pick : /\ Picks(message, day, c, pick)
                                 /\ DOMAIN messageSection[i].message = 1..c
  BY Zenon, RowsOfSection
<1>4. PICK pick : Picks(message, day, c, pick) /\ DOMAIN messageSection[i].message = 1..c
  BY Zenon, <1>3
<1>5. messageSection[i].message = OnDay(message, day)
  BY Zenon DEF TableInv, Sectioned, Grouped
<1>6. day = Day(message[p])
  BY <1>2
<1> HIDE DEF day
<1>7. PICK k \in 1..c : pick[k] = p
  BY Zenon, <1>4, <1>6 DEF Picks
<1>8. messageSection[i].message[k] = message[p]
  BY <1>4, <1>5, <1>7 DEF Picks
<1> QED
  BY Zenon, <1>4, <1>8

LEMMA ShownRows ==
    ASSUME NEW r \in Shown
    PROVE  /\ r[1] \in DOMAIN messageSection
           /\ r[2] \in DOMAIN messageSection[r[1]].message
           /\ r = <<r[1], r[2]>>
  BY DEF Shown

\* Grouping loses and repeats nothing, and only a day without a midnight is out
\* of order (filterMessageArray, receiveMessage).
THEOREM TableIsChronological == Spec => []Chronological
<1>1. TableInv => Chronological
  <2> SUFFICES ASSUME TableInv PROVE Chronological
    OBVIOUS
  <2>1. { At(r) : r \in Shown } = { message[i] : i \in DOMAIN message }
    <3>1. ASSUME NEW r \in Shown
          PROVE  \E p \in DOMAIN message : At(r) = message[p]
      BY Zenon, ShownRows, RowHoldsMessage DEF At
    <3>2. ASSUME NEW p \in DOMAIN message
          PROVE  \E r \in Shown : At(r) = message[p]
      <4>1. PICK i \in DOMAIN messageSection :
                \E k \in DOMAIN messageSection[i].message : messageSection[i].message[k] = message[p]
        BY Zenon, MessageHasRow
      <4>2. PICK k \in DOMAIN messageSection[i].message : messageSection[i].message[k] = message[p]
        BY Zenon, <4>1
      <4>3. <<i, k>> \in Shown /\ At(<<i, k>>) = message[p]
        BY <4>2 DEF Shown, At
      <4> QED
        BY Zenon, <4>3
    <3> QED
      BY Zenon, <3>1, <3>2
  <2>2. ASSUME NEW r \in Shown, NEW s \in Shown
        PROVE  /\ At(r) = At(s) => r = s
               /\ r[1] = s[1] <=> Day(At(r)) = Day(At(s))
               /\ Above(r, s) /\ At(s).sendingTime < At(r).sendingTime
                     => r[1] # s[1] /\ (InGap(At(r)) \/ InGap(At(s)))
    <3> DEFINE i == r[1]
               k == r[2]
               j == s[1]
               l == s[2]
    <3>1. /\ i \in DOMAIN messageSection /\ k \in DOMAIN messageSection[i].message
          /\ j \in DOMAIN messageSection /\ l \in DOMAIN messageSection[j].message
          /\ r = <<i, k>> /\ s = <<j, l>>
      BY Zenon, ShownRows
    <3>2. /\ At(r) = messageSection[i].message[k] /\ At(s) = messageSection[j].message[l]
          /\ Above(r, s) <=> i < j \/ (i = j /\ k < l)
      BY Zenon DEF At, Above
    <3>3. At(r) \in Msg /\ At(s) \in Msg
      BY Zenon, <3>1, <3>2, RowHoldsMessage
    <3>4. At(r).sendingTime \in Nat /\ At(s).sendingTime \in Nat
      BY Zenon, <3>3, TimeType
    <3>5. i \in Int /\ j \in Int /\ k \in Int /\ l \in Int
      <4>1. messageSection \in Seq(Section)
        BY Zenon DEF TableInv, Typed
      <4>2. \A x \in DOMAIN messageSection :
                x \in Int /\ messageSection[x].message \in Seq(Msg)
        <5>1. \A x \in DOMAIN messageSection : x \in Int /\ messageSection[x] \in Section
          BY <4>1
        <5>2. \A section \in Section : section.message \in Seq(Msg)
          BY DEF Section
        <5> QED
          BY Zenon, <5>1, <5>2
      <4>3. messageSection[i].message \in Seq(Msg) /\ messageSection[j].message \in Seq(Msg)
        BY Zenon, <3>1, <4>2
      <4>4. i \in Int /\ j \in Int
        BY Zenon, <3>1, <4>2
      <4> HIDE DEF i, j, k, l
      <4> QED
        BY <3>1, <4>3, <4>4
    <3> HIDE DEF i, j, k, l
    <3>6. CASE i = j
      <4>1. Day(At(r)) = Day(At(s))
        BY Zenon, <3>1, <3>2, <3>6, RowHoldsMessage
      <4>2. k < l => At(r) # At(s) /\ At(r).sendingTime <= At(s).sendingTime
        BY Zenon, <3>1, <3>2, <3>6, RowsInOrder
      <4>3. l < k => At(r) # At(s)
        BY Zenon, <3>1, <3>2, <3>6, RowsInOrder
      <4>4. At(r) = At(s) => r = s
        BY SMTT(30), <3>1, <3>5, <3>6, <4>2, <4>3
      <4>5. ~(Above(r, s) /\ At(s).sendingTime < At(r).sendingTime)
        BY SMTT(30), <3>2, <3>4, <3>5, <3>6, <4>2
      <4> QED
        BY Zenon, <3>6, <4>1, <4>4, <4>5 DEF i, j
    <3>7. CASE i < j
      <4>1. Day(At(r)) # Day(At(s)) /\ (InGap(At(r)) \/ InGap(At(s))
                \/ ~(At(s).sendingTime < At(r).sendingTime))
        BY Zenon, <3>1, <3>2, <3>7, SectionsInOrder
      <4>2. i # j
        BY <3>5, <3>7
      <4> QED
        BY Zenon, <4>1, <4>2 DEF i, j
    <3>8. CASE j < i
      <4>1. Day(At(r)) # Day(At(s))
        BY Zenon, <3>1, <3>2, <3>8, SectionsInOrder
      <4>2. i # j /\ ~Above(r, s)
        BY <3>2, <3>5, <3>8
      <4> QED
        BY Zenon, <4>1, <4>2 DEF i, j
    <3> QED
      BY <3>5, <3>6, <3>7, <3>8
  <2> QED
    BY Zenon, <2>1, <2>2 DEF Chronological
<1> QED
  BY <1>1, TableInvariant, PTL

=============================================================================
