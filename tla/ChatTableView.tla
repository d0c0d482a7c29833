---------------------------- MODULE ChatTableView ----------------------------
(***************************************************************************)
(* One chat table: the snapshots of its conversation on the main queue,    *)
(* the grouping of the messages into days, the blocks that scroll to the   *)
(* bottom, and what UITableView knows of the data source: the rows of the  *)
(* sections and the headers above them, while the date moves on.           *)
(*                                                                         *)
(* The sending time is the sender's clock, in a number that stands for     *)
(* milliseconds; a message without a readable one has time 0.              *)
(***************************************************************************)
EXTENDS Naturals, FiniteSets, Sequences, SequencesExt

CONSTANTS
    Times,        \* sending times
    DayLength,    \* the length of a day
    GapDays,      \* days without a midnight in the device's time zone
    NewYears,     \* days that are a 1 January
    FirstDay,     \* the device's date at the start
    MaxMidnights, \* bound: midnights that pass
    MaxMessages,  \* bound: messages sent in the conversation
    MaxRefused    \* bound: messages that disappear again

ASSUME TimesAssumption == Times \subseteq Nat
ASSUME DayAssumption == /\ DayLength \in Nat \ {0} /\ FirstDay \in Nat
                        /\ GapDays \subseteq Nat /\ NewYears \subseteq Nat
ASSUME BoundsAssumption ==
    MaxMidnights \in Nat /\ MaxMessages \in Nat /\ MaxRefused \in Nat

VARIABLES
    view,           \* the client's view of the conversation
    refused,        \* history: messages that have disappeared
    queue,          \* blocks on the main queue
    message,        \* ChatTableView.message
    messageSection, \* ChatTableView.messageSection
    reloading,      \* reloadData has been called since UITableView's last layout
    rows,           \* rows[i]: what UITableView takes for the rows of section i
    headers,        \* headers[i]: what the header of section i says
    position,       \* the row last scrolled to
    today,          \* the device's date
    stale           \* history: a midnight has passed since the last layout

vars == <<view, refused, queue, message, messageSection, reloading, rows, headers,
          position, today, stale>>

Msg == [id : 1..MaxMessages, sendingTime : Times]

Block == [kind : {"value", "scroll"}, snap : SUBSET Msg]
Scroll == [kind |-> "scroll", snap |-> {}]

Nowhere == [section |-> 0, row |-> 0]

Init == /\ view = {} /\ refused = 0
        /\ queue = <<>>
        /\ message = <<>> /\ messageSection = <<>>
        /\ reloading = FALSE /\ rows = <<>> /\ headers = <<>>
        /\ position = Nowhere
        /\ today = FirstDay /\ stale = FALSE

-----------------------------------------------------------------------------
(* Sorting and grouping. sort is not stable, and the elements come from a  *)
(* dictionary or a set: elements that compare equal get any order.         *)

Sorted(S) ==
    { s \in SetToSeqs(S) :
        \A i, j \in DOMAIN s : i < j => s[i].sendingTime <= s[j].sendingTime }

Day(m) == m.sendingTime \div DayLength

\* The day's midnight is parsed in a time zone further east.
SectionTimeOtherZone(day) == IF day = 0 THEN 0 ELSE day * DayLength - 1

\* The header's time: the day's midnight, formatted and parsed again. When
\* there is no such time the parser fails and dateFromString returns now.
SectionTime(day) == IF day \in GapDays THEN today * DayLength + DayLength - 1
                    ELSE day * DayLength

\* The messages of a day, in the array's order.
OnDay(msgs, day) ==
    LET at == { i \in DOMAIN msgs : Day(msgs[i]) = day }
        nth(k) == CHOOSE i \in at : Cardinality({ j \in at : j <= i }) = k
    IN  [ k \in 1..Cardinality(at) |-> msgs[nth(k)] ]

\* A group for the first day even if nothing was sent on it.
MessageGroupsFromFirstDay(msgs) ==
    { [ sendingTime |-> SectionTime(day),
        message |-> OnDay(msgs, day) ] :
      day \in { Day(msgs[i]) : i \in DOMAIN msgs } \cup {0} }

\* The groups of filterMessageArray, one for every day that occurs.
MessageGroups(msgs) ==
    { [ sendingTime |-> SectionTime(day),
        message |-> OnDay(msgs, day) ] :
      day \in { Day(msgs[i]) : i \in DOMAIN msgs } }

\* What UITableView learns when it asks the data source again.
RowCounts(sections) == [ i \in DOMAIN sections |-> Len(sections[i].message) ]

\* Today, Yesterday or the date. isYesterday fails on 1 January (DayHeader).
Header(day) ==
    CASE day = today -> [text |-> "Today", day |-> 0]
      [] day + 1 = today /\ today \notin NewYears -> [text |-> "Yesterday", day |-> 0]
      [] OTHER -> [text |-> "date", day |-> day]

viewForHeaderInSection(sections, i) == Header(sections[i].sendingTime \div DayLength)

\* UITableView carries out a pending reload, or has nothing to do.
Layout(sections) ==
    /\ rows' = RowCounts(sections)
    /\ headers' = [ i \in DOMAIN sections |-> viewForHeaderInSection(sections, i) ]
    /\ stale' = FALSE
NoLayout == UNCHANGED <<rows, headers, stale>>

-----------------------------------------------------------------------------
(* The blocks of the main queue.                                           *)

\* The table is not reloaded.
filterMessageArrayNoReload(msgs) ==
    \E sections \in Sorted(MessageGroups(msgs)) :
        /\ messageSection' = sections
        /\ queue' = Tail(queue) \o [ i \in DOMAIN sections |-> Scroll ]
        /\ NoLayout /\ UNCHANGED reloading

\* It is scrolled before it is filled.
filterMessageArrayScrollFirst(msgs) ==
    \E sections \in Sorted(MessageGroups(msgs)) :
        /\ messageSection' = sections
        /\ queue' = [ i \in DOMAIN messageSection |-> Scroll ] \o Tail(queue)
        /\ NoLayout
        /\ reloading' = (reloading \/ sections # <<>>)

\* For every day: append its group, sort, lay out, enqueue a scroll block and
\* call reloadData. Laying out has an effect only while a reload is pending,
\* that is for the second day or when one was pending before.
filterMessageArray(msgs) ==
    \E sections \in Sorted(MessageGroups(msgs)) :
        /\ messageSection' = sections
        /\ queue' = Tail(queue) \o [ i \in DOMAIN sections |-> Scroll ]
        /\ IF Len(sections) > 1 \/ (reloading /\ sections # <<>>)
           THEN Layout(sections) ELSE NoLayout
        /\ reloading' = (reloading \/ sections # <<>>)

\* The array keeps the dictionary's order.
receiveMessageUnsorted ==
    /\ queue # <<>> /\ Head(queue).kind = "value"
    /\ \E msgs \in SetToSeqs(Head(queue).snap) :
          message' = msgs /\ filterMessageArray(msgs)
    /\ UNCHANGED <<view, refused, position, today>>

\* The observer's block: a sorted array of the snapshot, then the table.
receiveMessage ==
    /\ queue # <<>> /\ Head(queue).kind = "value"
    /\ \E msgs \in Sorted(Head(queue).snap) :
          message' = msgs /\ filterMessageArray(msgs)
    /\ UNCHANGED <<view, refused, position, today>>

LastRow(sections) == [ section |-> Len(sections),
                       row |-> Len(sections[Len(sections)].message) ]

\* The block of scrollToBottom. It reads the sections there are by then, and
\* UITableView carries out a pending reload before it scrolls.
scrollToBottom ==
    /\ queue # <<>> /\ Head(queue).kind = "scroll"
    /\ queue' = Tail(queue)
    /\ IF messageSection = <<>>
       THEN NoLayout /\ UNCHANGED <<reloading, position>>
       ELSE /\ IF reloading THEN Layout(messageSection) ELSE NoLayout
            /\ reloading' = FALSE
            /\ position' = LastRow(messageSection)
    /\ UNCHANGED <<view, refused, message, messageSection, today>>

\* UIKit lays the table out between two blocks.
layoutSubviews ==
    /\ reloading
    /\ Layout(messageSection)
    /\ reloading' = FALSE
    /\ UNCHANGED <<view, refused, queue, message, messageSection, position, today>>

\* A header scrolls into view and is asked for again. Sections that are gone
\* get an empty view.
HeaderAppears(i) ==
    /\ ~reloading
    /\ headers' = [headers EXCEPT ![i] =
                     IF i \in DOMAIN messageSection
                     THEN viewForHeaderInSection(messageSection, i) ELSE [text |-> "", day |-> 0]]
    /\ UNCHANGED <<view, refused, queue, message, messageSection, reloading, rows,
                   position, today, stale>>

-----------------------------------------------------------------------------
(* The conversation and the date.                                          *)

\* How many messages may still be sent.
Unsent == MaxMessages - (Cardinality(view) + refused)

\* A snapshot: messages arrive and others, refused by the server, leave, one
\* at a time or, after a reconnection, several together.
Changes(gone, times) ==
    /\ gone # {} \/ times # <<>>
    /\ refused + Cardinality(gone) <= MaxRefused
    /\ refused' = refused + Cardinality(gone)
    /\ view' = (view \ gone) \cup
                 { [id |-> Cardinality(view) + refused + i, sendingTime |-> times[i]] :
                   i \in DOMAIN times }
    /\ queue' = Append(queue, [kind |-> "value", snap |-> view'])
    /\ UNCHANGED <<message, messageSection, reloading, rows, headers, position, today,
                   stale>>

Midnight ==
    /\ today < FirstDay + MaxMidnights
    /\ today' = today + 1
    /\ stale' = TRUE
    /\ UNCHANGED <<view, refused, queue, message, messageSection, reloading, rows,
                   headers, position>>

MainQueue == receiveMessage \/ scrollToBottom \/ layoutSubviews

Next == \/ MainQueue
        \/ \E i \in DOMAIN headers : HeaderAppears(i)
        \/ \E gone \in SUBSET view, times \in BoundedSeq(Times, Unsent) : Changes(gone, times)
        \/ Midnight

Spec == Init /\ [][Next]_vars

\* The main queue is served and UIKit lays out.
FairSpec == Spec /\ WF_vars(MainQueue)

-----------------------------------------------------------------------------
(* Properties.                                                             *)

\* The variables have their types, and no section is empty.
TypeOK ==
    /\ view \subseteq Msg /\ refused \in 0..MaxRefused
    /\ queue \in Seq(Block)
    /\ message \in Seq(Msg)
    /\ messageSection \in Seq([sendingTime : Nat, message : Seq(Msg) \ {<<>>}])
    /\ reloading \in BOOLEAN
    /\ rows \in Seq(Nat)
    /\ headers \in Seq([text : {"Today", "Yesterday", "date", ""}, day : Nat])
    /\ position \in [section : Nat, row : Nat]
    /\ today \in FirstDay..(FirstDay + MaxMidnights) /\ stale \in BOOLEAN

\* The rows of the table, the message in a row, and their order on screen.
Shown == UNION { {i} \X DOMAIN messageSection[i].message : i \in DOMAIN messageSection }

At(r) == messageSection[r[1]].message[r[2]]

Above(r, s) == r[1] < s[1] \/ (r[1] = s[1] /\ r[2] < s[2])

InGap(m) == Day(m) \in GapDays

\* Grouping loses and repeats nothing, makes one section of each day, and shows
\* the messages by sending time; only a day without a midnight can stand out of
\* order, because its section is dated now (filterMessageArray).
Chronological ==
    /\ { At(r) : r \in Shown } = { message[i] : i \in DOMAIN message }
    /\ \A r, s \in Shown :
          /\ At(r) = At(s) => r = s
          /\ r[1] = s[1] <=> Day(At(r)) = Day(At(s))
          /\ Above(r, s) /\ At(s).sendingTime < At(r).sendingTime
                => r[1] # s[1] /\ (InGap(At(r)) \/ InGap(At(s)))

\* Whatever snapshots come between reloadData, a layout and a scroll block,
\* the row a scroll block names exists for UITableView, which would otherwise
\* raise an exception; and what UITableView knows of a table with messages is
\* current. A snapshot without messages is never reloaded, so only then the
\* rows of an earlier snapshot may stay on screen (filterMessageArray).
RowsCurrent ==
    messageSection # <<>> /\ ~reloading => rows = RowCounts(messageSection)

\* The header above a message tells the day it was sent, as seen when the table
\* was last laid out: right until the next midnight, and again after the next
\* snapshot. Only a day without a midnight has another header
\* (filterMessageArray, viewForHeaderInSection).
HeadersCurrent ==
    messageSection # <<>> /\ ~reloading /\ ~stale =>
        \A i \in DOMAIN messageSection : \A k \in DOMAIN messageSection[i].message :
            LET m == messageSection[i].message[k]
            IN  ~InGap(m) => headers[i] = Header(Day(m))

\* When the main queue is empty, a table with messages has been scrolled to
\* its last row, although every scroll block may run after later snapshots
\* (scrollToBottom).
EndsAtBottom ==
    queue = <<>> /\ messageSection # <<>> => position = LastRow(messageSection)

\* Sooner or later the table shows the conversation's last state, unless that
\* is empty.
EventuallyShown ==
    <>[](view # {} => /\ ToSet(message) = view
                      /\ rows = RowCounts(messageSection))

=============================================================================
