---------------------------- MODULE CurrentProofs ----------------------------
(***************************************************************************)
(* A device at rest shows what the server stores, in every table. Three    *)
(* things are in between: what the server stores reaches the cache, writes *)
(* leave the view when they are answered, and the view reaches the table.  *)
(* CurrentInv says of each that what is missing is still under way. From   *)
(* it, VisibleInv: the data of a message arrives before its write leaves.  *)
(***************************************************************************)
EXTENDS MessagingProofs, Integers

\* The backend of the leaves that name no other. Arithmetic and sequences need SMT.
USE ZenonT(30)

DataUnderWay(d) ==
    \A n \in Nodes : DataOK(down[d], server, cache[d][n], heard[d], unacked[d], n)

\* Every observed node that may be read is listened to. A connected client has
\* each listen answered, with data that has initialised its view, or outstanding.
ListensOK(d) ==
    /\ \A i \in 1..Len(observers[d]) : observers[d][i] \in listens[d] \cup Unreadable
    /\ heard[d] \subseteq listens[d] /\ unacked[d] \subseteq listens[d]
    /\ conn[d] => listens[d] \subseteq unacked[d] \cup (heard[d] \cap loaded[d])
    /\ ~conn[d] => heard[d] = {} /\ unacked[d] = {} /\ down[d] = <<>>

PutsAnswered(d) == conn[d] => Answered(puts[d], up[d], down[d])

\* Acknowledgements are held back only while a listen is outstanding. The writes
\* they are for are different from each other and from the outstanding puts.
HeldBack(d) ==
    /\ putsToAck[d] # <<>> => listens[d] # {} /\ (conn[d] => unacked[d] # {})
    /\ Distinct(putsToAck[d])
    /\ \A m \in Elements(putsToAck[d]) :
          m \notin Elements(puts[d]) /\ m.device = d /\ m.seq <= sent[d]

ViewsShown(d) ==
    \A i \in 1..Len(tables[d]) :
        observers[d][i] \in loaded[d] =>
            ShownOK(events[d], tables[d][i].message, View(d, observers[d][i]), i)

CurrentAt(d) == /\ DataUnderWay(d) /\ ListensOK(d) /\ PutsAnswered(d)
                /\ HeldBack(d) /\ ViewsShown(d)

CurrentInv == \A d \in Devices : CurrentAt(d)

-----------------------------------------------------------------------------
(* Every step keeps CurrentInv: one lemma per action, after the devices and *)
(* the conjuncts a step does not concern.                                   *)

LEMMA DataFrame ==
    ASSUME NEW d \in Devices, DataUnderWay(d), server' = server, down'[d] = down[d],
           cache'[d] = cache[d], heard'[d] = heard[d], unacked'[d] = unacked[d]
    PROVE  DataUnderWay(d)'
BY DEF DataUnderWay

LEMMA ListensFrame ==
    ASSUME NEW d \in Devices, ListensOK(d), observers'[d] = observers[d],
           listens'[d] = listens[d], heard'[d] = heard[d], unacked'[d] = unacked[d],
           conn'[d] = conn[d], loaded'[d] = loaded[d], down'[d] = down[d]
    PROVE  ListensOK(d)'
BY DEF ListensOK

LEMMA AnsweredFrame ==
    ASSUME NEW d \in Devices, PutsAnswered(d), conn'[d] = conn[d], puts'[d] = puts[d],
           up'[d] = up[d], down'[d] = down[d]
    PROVE  PutsAnswered(d)'
BY DEF PutsAnswered

LEMMA HeldFrame ==
    ASSUME NEW d \in Devices, HeldBack(d), putsToAck'[d] = putsToAck[d],
           listens'[d] = listens[d], conn'[d] = conn[d], unacked'[d] = unacked[d],
           puts'[d] = puts[d], sent'[d] = sent[d]
    PROVE  HeldBack(d)'
BY DEF HeldBack

LEMMA ShownFrame ==
    ASSUME NEW d \in Devices, ViewsShown(d), tables'[d] = tables[d],
           observers'[d] = observers[d], loaded'[d] = loaded[d], events'[d] = events[d],
           cache'[d] = cache[d], puts'[d] = puts[d], putsToAck'[d] = putsToAck[d]
    PROVE  ViewsShown(d)'
BY DEF ViewsShown, View, Pending

\* What CurrentAt says of device e is not changed.
Same(e) ==
    /\ server' = server /\ heard'[e] = heard[e] /\ conn'[e] = conn[e]
    /\ listens'[e] = listens[e] /\ unacked'[e] = unacked[e] /\ puts'[e] = puts[e]
    /\ putsToAck'[e] = putsToAck[e] /\ up'[e] = up[e] /\ down'[e] = down[e]
    /\ cache'[e] = cache[e] /\ loaded'[e] = loaded[e] /\ observers'[e] = observers[e]
    /\ events'[e] = events[e] /\ tables'[e] = tables[e] /\ sent'[e] = sent[e]

LEMMA CurrentElsewhere ==
    ASSUME NEW e \in Devices, CurrentAt(e), Same(e)
    PROVE  CurrentAt(e)'
BY DataFrame, ListensFrame, AnsweredFrame, HeldFrame, ShownFrame DEF CurrentAt, Same

LEMMA CurrentInit == Init => CurrentInv
<1> SUFFICES ASSUME Init, NEW d \in Devices PROVE CurrentAt(d)
  BY DEF CurrentInv
<1>1. /\ server = {} /\ heard[d] = {} /\ ~conn[d] /\ listens[d] = {} /\ unacked[d] = {}
      /\ putsToAck[d] = <<>> /\ down[d] = <<>> /\ tables[d] = <<>> /\ observers[d] = <<>>
      /\ \A n \in Nodes : cache[d][n] = {}
  BY DEF Init, DbInit
<1>2. DataUnderWay(d)
  BY <1>1, DataNone DEF DataUnderWay
<1>3. ListensOK(d) /\ PutsAnswered(d)
  BY SMTT(30), <1>1 DEF ListensOK, PutsAnswered
<1>4. HeldBack(d) /\ ViewsShown(d)
  BY SMTT(30), <1>1, ElementsEmpty DEF HeldBack, ViewsShown, Distinct
<1> QED
  BY <1>2, <1>3, <1>4 DEF CurrentAt

\* Nothing CurrentInv is about changes.
LEMMA CurrentUnchanged ==
    ASSUME CurrentInv, UNCHANGED dbVars, UNCHANGED <<tables, sent>>
    PROVE  CurrentInv'
<1>1. \A e \in Devices : Same(e)
  BY DEF Same, dbVars
<1> QED
  BY <1>1, CurrentElsewhere DEF CurrentInv

\* The types, and the state of one device.
LEMMA DeviceTypes ==
    ASSUME OwnInv, NEW d \in Devices
    PROVE  /\ puts[d] \in Seq(Genuine) /\ putsToAck[d] \in Seq(Genuine)
           /\ up[d] \in Seq(Genuine) /\ down[d] \in Seq(GenuineResponse)
           /\ events[d] \in Seq(GenuineEvent) /\ observers[d] \in Seq(Nodes)
           /\ tables[d] \in Seq(Table) /\ Len(tables[d]) = Len(observers[d])
           /\ sent[d] \in Nat /\ conn[d] \in BOOLEAN
           /\ heard[d] \subseteq Nodes /\ unacked[d] \subseteq Nodes
           /\ loaded[d] \subseteq Nodes /\ listens[d] \subseteq Nodes
           /\ heard[d] \cap Unreadable = {} /\ loaded[d] \cap Unreadable = {}
           /\ \A i \in 1..Len(observers[d]) : observers[d][i] \in Nodes
<1>1. observers[d] \in Seq(Nodes)
  BY DEF OwnInv, Typed
<1>2. \A i \in 1..Len(observers[d]) : observers[d][i] \in Nodes
  BY <1>1, SeqFacts
<1>3. sent[d] \in Nat
  BY SMTT(30), MaxSendsAssumption DEF OwnInv, Typed
<1> QED
  BY <1>1, <1>2, <1>3 DEF OwnInv, Typed, TablesRegistered

\* What sendMessage does: one write, with the next push id.
LEMMA SentPut ==
    ASSUME OwnInv, NEW d \in Devices, NEW r \in Users, sendMessage(d, r)
    PROVE  \E m \in Genuine :
             /\ m.device = d /\ m.seq = sent[d] + 1 /\ Put(d, m)
             /\ sent' = [sent EXCEPT ![d] = @ + 1] /\ UNCHANGED tables
<1> DEFINE m == [device |-> d, seq |-> sent[d] + 1, from |-> Account[d],
                 to |-> r, node |-> createNode(Account[d], r)]
<1>1. m \in Genuine
  <2>1. sent[d] + 1 \in 1..MaxSends
    BY SMTT(30), MaxSendsAssumption DEF OwnInv, Typed, sendMessage
  <2> QED
    BY <2>1, NodeOfPair, AccountIsUser DEF Genuine, Message
<1>2. m.device = d /\ m.seq = sent[d] + 1
  OBVIOUS
<1>3. Put(d, m) /\ sent' = [sent EXCEPT ![d] = @ + 1] /\ UNCHANGED tables
  BY DEF sendMessage
<1> HIDE DEF m
<1> QED
  BY <1>1, <1>2, <1>3

LEMMA CurrentSend ==
    ASSUME OwnInv, OrderInv, CurrentInv, NEW d \in Devices, NEW r \in Users,
           sendMessage(d, r)
    PROVE  CurrentInv'
<1>0. CurrentAt(d)
  BY DEF CurrentInv
<1>1. PICK m \in Genuine :
             /\ m.device = d /\ m.seq = sent[d] + 1 /\ Put(d, m)
             /\ sent' = [sent EXCEPT ![d] = @ + 1] /\ UNCHANGED tables
  BY SentPut
<1> DEFINE n == m.node
           q == Raise(events[d], d, n, View(d, n), View(d, n) \cup {m})
<1>2. /\ puts' = [puts EXCEPT ![d] = Append(@, m)]
      /\ up' = IF conn[d] THEN [up EXCEPT ![d] = Append(@, m)] ELSE up
      /\ events' = [events EXCEPT ![d] = q]
      /\ UNCHANGED <<server, heard, conn, listens, unacked, putsToAck, down, cache,
                     loaded, observers>>
  BY <1>1 DEF Put
<1> HIDE DEF q
<1>3. /\ puts'[d] = Append(puts[d], m) /\ events'[d] = q /\ sent'[d] = sent[d] + 1
      /\ up'[d] = IF conn[d] THEN Append(up[d], m) ELSE up[d]
      /\ \A e \in Devices : e # d => Same(e)
  BY <1>1, <1>2 DEF OwnInv, Typed, Same
<1>4. /\ puts[d] \in Seq(Genuine) /\ putsToAck[d] \in Seq(Genuine)
      /\ up[d] \in Seq(Genuine) /\ events[d] \in Seq(GenuineEvent) /\ sent[d] \in Nat
      /\ Len(tables[d]) = Len(observers[d])
      /\ \A i \in 1..Len(observers[d]) : observers[d][i] \in Nodes
  BY DeviceTypes
<1>5. /\ Elements(puts'[d]) = Elements(puts[d]) \cup {m}
      /\ Elements(up'[d]) = IF conn[d] THEN Elements(up[d]) \cup {m} ELSE Elements(up[d])
  <2>1. /\ Elements(Append(puts[d], m)) = Elements(puts[d]) \cup {m}
        /\ Elements(Append(up[d], m)) = Elements(up[d]) \cup {m}
    BY SMTT(30), <1>4, ElementsAppend
  <2> QED
    BY <2>1, <1>3
<1>6. DataUnderWay(d)' /\ ListensOK(d)'
  BY <1>0, <1>2, DataFrame, ListensFrame DEF CurrentAt
<1>7. PutsAnswered(d)'
  <2> SUFFICES ASSUME conn[d] PROVE Answered(puts'[d], up'[d], down[d])
    BY <1>2 DEF PutsAnswered
  <2>1. Answered(puts[d], up[d], down[d])
    BY <1>0 DEF CurrentAt, PutsAnswered
  <2> QED
    BY <2>1, <1>5 DEF Answered
<1>8. HeldBack(d)'
  <2>1. \A x \in Elements(putsToAck[d]) : /\ x \notin Elements(puts[d]) /\ x.device = d
                                          /\ x.seq <= sent[d] /\ x.seq \in Nat
    BY <1>0, <1>4, ElementsOfSeq, OrderTypes DEF CurrentAt, HeldBack
  <2>2. \A x \in Elements(putsToAck[d]) : x # m /\ x.seq <= sent'[d]
    BY SMTT(30), <2>1, <1>1, <1>3, <1>4
  <2> QED
    BY <2>1, <2>2, <1>0, <1>2, <1>5 DEF CurrentAt, HeldBack
<1>9. ViewsShown(d)'
  <2> SUFFICES ASSUME NEW i \in 1..Len(tables[d]), observers[d][i] \in loaded[d]
               PROVE  ShownOK(q, tables[d][i].message, View(d, observers[d][i])', i)
    BY <1>1, <1>2, <1>3 DEF ViewsShown
  <2>1. View(d, observers[d][i])' = IF observers[d][i] = n THEN View(d, n) \cup {m}
                                    ELSE View(d, observers[d][i])
    BY <1>2, <1>5 DEF View, Pending, At
  <2>2. n \in Nodes /\ View(d, n) \cup {m} \in SUBSET GenuineAt(n)
    BY ViewGenuine, GenuineFacts
  <2>3. ShownOK(events[d], tables[d][i].message,
                IF observers[d][i] = n THEN View(d, n) ELSE View(d, observers[d][i]), i)
    BY <1>0 DEF CurrentAt, ViewsShown
  <2> QED
    BY <2>1, <2>2, <2>3, <1>4, ShownRaise DEF q
<1>10. CurrentAt(d)'
  BY <1>6, <1>7, <1>8, <1>9 DEF CurrentAt
<1> QED
  BY <1>3, <1>10, CurrentElsewhere DEF CurrentInv

LEMMA CurrentOpenChat ==
    ASSUME OwnInv, OrderInv, CurrentInv, NEW d \in Devices, NEW r \in Users,
           OpenChat(d, r)
    PROVE  CurrentInv'
<1> DEFINE n == createNode(Account[d], r)
           t == [partner |-> r, message |-> {}]
           new == Len(observers[d]) + 1
           v == [node |-> n, snap |-> View(d, n), todo |-> {new}]
<1>0. CurrentAt(d) /\ n \in Nodes /\ t \in Table
  BY NodeOfPair, AccountIsUser DEF CurrentInv, Table
<1>1. Observe(d, n) /\ tables' = [tables EXCEPT ![d] = Append(@, t)] /\ UNCHANGED sent
  BY DEF OpenChat
<1>2. /\ observers' = [observers EXCEPT ![d] = Append(@, n)]
      /\ listens' = [listens EXCEPT ![d] = @ \cup {n}]
      /\ unacked' = IF conn[d] /\ n \notin listens[d]
                    THEN [unacked EXCEPT ![d] = @ \cup {n}] ELSE unacked
      /\ events' = IF n \in loaded[d]
                   THEN [events EXCEPT ![d] = Append(@, v)] ELSE events
      /\ UNCHANGED <<server, heard, conn, puts, putsToAck, up, down, cache, loaded>>
  BY <1>1 DEF Observe
<1> HIDE DEF n, t, v
<1>3. /\ observers'[d] = Append(observers[d], n) /\ listens'[d] = listens[d] \cup {n}
      /\ unacked'[d] = IF conn[d] /\ n \notin listens[d]
                       THEN unacked[d] \cup {n} ELSE unacked[d]
      /\ events'[d] = IF n \in loaded[d] THEN Append(events[d], v) ELSE events[d]
      /\ tables'[d] = Append(tables[d], t)
      /\ \A e \in Devices : e # d => Same(e)
  BY <1>1, <1>2 DEF OwnInv, Typed, Same
<1>4. /\ observers[d] \in Seq(Nodes) /\ tables[d] \in Seq(Table)
      /\ Len(tables[d]) = Len(observers[d]) /\ events[d] \in Seq(GenuineEvent)
  BY DeviceTypes
<1>5. /\ Len(observers[d]) \in Nat /\ Len(observers'[d]) = new /\ observers'[d][new] = n
      /\ \A i \in 1..Len(observers[d]) : observers'[d][i] = observers[d][i]
      /\ \A i \in 1..new : i \in 1..Len(observers[d]) \/ i = new
  BY SMTT(30), <1>0, <1>3, <1>4, AppendFacts
<1>6. /\ Len(tables'[d]) = new
      /\ \A i \in 1..Len(observers[d]) : tables'[d][i] = tables[d][i]
  BY SMTT(30), <1>0, <1>3, <1>4, AppendFacts
<1>7. DataUnderWay(d)'
  <2> SUFFICES ASSUME NEW x \in Nodes
               PROVE  DataOK(down[d], server, cache[d][x], heard[d], unacked'[d], x)
    BY <1>2 DEF DataUnderWay
  <2>1. DataOK(down[d], server, cache[d][x], heard[d], unacked[d], x)
    BY <1>0 DEF CurrentAt, DataUnderWay
  <2>2. x \in heard[d] => (x \in unacked'[d] <=> x \in unacked[d])
    BY <1>0, <1>3 DEF CurrentAt, ListensOK
  <2> QED
    BY <2>1, <2>2, DataSame
<1>8. ListensOK(d)'
  <2>1. \A i \in 1..Len(observers'[d]) : observers'[d][i] \in listens'[d] \cup Unreadable
    BY <1>0, <1>3, <1>5 DEF CurrentAt, ListensOK
  <2>2. heard[d] \subseteq listens'[d] /\ unacked'[d] \subseteq listens'[d]
    BY <1>0, <1>3 DEF CurrentAt, ListensOK
  <2>3. conn[d] => listens'[d] \subseteq unacked'[d] \cup (heard[d] \cap loaded[d])
    BY <1>0, <1>3 DEF CurrentAt, ListensOK
  <2>4. ~conn[d] => heard[d] = {} /\ unacked'[d] = {} /\ down[d] = <<>>
    BY <1>0, <1>3 DEF CurrentAt, ListensOK
  <2> QED
    BY <2>1, <2>2, <2>3, <2>4, <1>2 DEF ListensOK
<1>9. PutsAnswered(d)'
  BY <1>0, <1>2, AnsweredFrame DEF CurrentAt
<1>10. HeldBack(d)'
  BY SMTT(30), <1>0, <1>1, <1>2, <1>3 DEF CurrentAt, HeldBack
<1>11. ViewsShown(d)'
  <2> SUFFICES ASSUME NEW i \in 1..new, observers'[d][i] \in loaded[d]
               PROVE  ShownOK(events'[d], tables'[d][i].message,
                              View(d, observers'[d][i]), i)
    BY <1>2, <1>6 DEF ViewsShown, View, Pending
  <2>1. v \in GenuineEvent /\ v.todo = {new} /\ v.snap = View(d, n)
    <3>1. View(d, n) \in SUBSET GenuineAt(n) /\ {new} \in SUBSET Nat
      BY SMTT(30), <1>0, <1>5, ViewGenuine
    <3> QED
      BY <3>1, <1>0, EventGenuine DEF v
  <2>2. CASE i = new
    <3>1. n \in loaded[d] /\ observers'[d][i] = n
      BY <2>2, <1>5
    <3>2. events'[d] = Append(events[d], v)
      BY <3>1, <1>3
    <3>3. new \in v.todo
      BY <2>1
    <3>4. ShownOK(Append(events[d], v), tables'[d][i].message, View(d, n), new)
      BY <2>1, <3>3, <1>4, ShownAppend
    <3> QED
      BY <2>2, <3>1, <3>2, <3>4
  <2>3. CASE i \in 1..Len(observers[d])
    <3>1. i # new
      BY SMTT(30), <2>3, <1>5
    <3>2. ShownOK(events[d], tables[d][i].message, View(d, observers[d][i]), i)
      BY <2>3, <1>0, <1>4, <1>5 DEF CurrentAt, ViewsShown
    <3>3. ShownOK(events'[d], tables[d][i].message, View(d, observers[d][i]), i)
      <4>1. i \notin v.todo
        BY <2>1, <3>1
      <4>2. ShownOK(Append(events[d], v), tables[d][i].message,
                    View(d, observers[d][i]), i)
        BY <2>1, <3>2, <4>1, <1>4, ShownAppend
      <4> QED
        BY <3>2, <4>2, <1>3
    <3> QED
      BY <2>3, <3>3, <1>5, <1>6
  <2> QED
    BY <2>2, <2>3, <1>5
<1>12. CurrentAt(d)'
  BY <1>7, <1>8, <1>9, <1>10, <1>11 DEF CurrentAt
<1> QED
  BY <1>3, <1>12, CurrentElsewhere DEF CurrentInv

LEMMA CurrentReceiveMessage ==
    ASSUME OwnInv, OrderInv, CurrentInv, NEW d \in Devices, receiveMessage(d)
    PROVE  CurrentInv'
<1> DEFINE ev == Head(events[d])
<1>0. CurrentAt(d)
  BY DEF CurrentInv
<1>1. PICK b \in NextBlock(d) :
         /\ events[d] # <<>>
         /\ messageclass' = [messageclass EXCEPT ![d] = ev.snap]
         /\ tables' = [tables EXCEPT ![d][b].message = messageclass'[d]]
         /\ events' = [events EXCEPT ![d] = Done(@, b)]
  BY DEF receiveMessage
<1>2. b \in ev.todo /\ b \in 1..Len(tables[d])
  BY <1>1, NextBlockObserves
<1>3. /\ messageclass' = [messageclass EXCEPT ![d] = ev.snap]
      /\ tables' = [tables EXCEPT ![d][b].message = messageclass'[d]]
      /\ events' = [events EXCEPT ![d] = Done(events[d], b)]
      /\ UNCHANGED <<server, heard, conn, listens, unacked, puts, putsToAck, up,
                     down, cache, loaded, observers, sent>>
  BY <1>1 DEF receiveMessage
<1> HIDE DEF ev
<1>4. messageclass'[d] = ev.snap /\ events'[d] = Done(events[d], b)
  BY <1>3 DEF OwnInv, Typed
<1>5. events[d] \in Seq(GenuineEvent) /\ tables[d] \in Seq(Table)
  BY DeviceTypes
<1>6. DOMAIN tables[d] = 1..Len(tables[d]) /\ \A i \in 1..Len(tables[d]) : tables[d][i] \in Table
  BY <1>5, SeqFacts
<1> DEFINE t == [tables[d][b] EXCEPT !.message = ev.snap]
           r == [tables[d] EXCEPT ![b] = t]
<1>7. tables'[d] = r /\ \A e \in Devices : e # d => tables'[e] = tables[e]
  BY <1>3, <1>4 DEF OwnInv, Typed
<1>8. t.message = ev.snap /\ t \in [partner : Users, message : {ev.snap}]
  BY <1>2, <1>6 DEF Table
<1>9. /\ DOMAIN r = DOMAIN tables[d] /\ r[b] = t
      /\ \A i \in 1..Len(tables[d]) : i # b => r[i] = tables[d][i]
  BY <1>2, <1>6
<1>10. Len(r) = Len(tables[d])
  BY SMTT(30), <1>5, <1>6, <1>9
<1> HIDE DEF t, r
<1>11. \A i \in 1..Len(tables[d]) :
          tables'[d][i].message = IF i = b THEN ev.snap ELSE tables[d][i].message
  BY <1>7, <1>8, <1>9
<1>12. \A e \in Devices : e # d => Same(e)
  BY <1>3, <1>7 DEF Same, OwnInv, Typed
<1>13. DataUnderWay(d)' /\ ListensOK(d)' /\ PutsAnswered(d)' /\ HeldBack(d)'
  BY <1>0, <1>3, DataFrame, ListensFrame, AnsweredFrame, HeldFrame DEF CurrentAt
<1>14. ViewsShown(d)'
  <2> SUFFICES ASSUME NEW i \in 1..Len(tables[d]), observers[d][i] \in loaded[d]
               PROVE  ShownOK(Done(events[d], b), tables'[d][i].message,
                              View(d, observers[d][i]), i)
    BY <1>3, <1>4, <1>7, <1>10 DEF ViewsShown, View, Pending
  <2>1. ShownOK(events[d], tables[d][i].message, View(d, observers[d][i]), i)
    BY <1>0 DEF CurrentAt, ViewsShown
  <2>2. ShownOK(Done(events[d], b), IF i = b THEN ev.snap ELSE tables[d][i].message,
                View(d, observers[d][i]), i)
    BY <2>1, <1>1, <1>2, <1>5, ShownDone DEF ev
  <2> QED
    BY <2>2, <1>11
<1> QED
  BY <1>12, <1>13, <1>14, CurrentElsewhere DEF CurrentInv, CurrentAt

LEMMA CurrentSkipEvent ==
    ASSUME OwnInv, OrderInv, CurrentInv, NEW d \in Devices, skipEvent(d)
    PROVE  CurrentInv'
<1>0. CurrentAt(d)
  BY DEF CurrentInv
<1>1. /\ events[d] # <<>> /\ Head(events[d]).todo = {}
      /\ events' = [events EXCEPT ![d] = Tail(@)]
      /\ UNCHANGED <<server, heard, conn, listens, unacked, puts, putsToAck, up,
                     down, cache, loaded, observers, tables, sent>>
  BY DEF skipEvent, appVars
<1>2. events'[d] = Tail(events[d]) /\ \A e \in Devices : e # d => Same(e)
  BY <1>1 DEF OwnInv, Typed, Same
<1>3. events[d] \in Seq(GenuineEvent)
  BY DeviceTypes
<1>4. DataUnderWay(d)' /\ ListensOK(d)' /\ PutsAnswered(d)' /\ HeldBack(d)'
  BY <1>0, <1>1, DataFrame, ListensFrame, AnsweredFrame, HeldFrame DEF CurrentAt
<1>5. ViewsShown(d)'
  <2> SUFFICES ASSUME NEW i \in 1..Len(tables[d]), observers[d][i] \in loaded[d]
               PROVE  ShownOK(Tail(events[d]), tables[d][i].message,
                              View(d, observers[d][i]), i)
    BY <1>1, <1>2 DEF ViewsShown, View, Pending
  <2>1. ShownOK(events[d], tables[d][i].message, View(d, observers[d][i]), i)
    BY <1>0 DEF CurrentAt, ViewsShown
  <2> QED
    BY <2>1, <1>1, <1>3, ShownTail
<1> QED
  BY <1>2, <1>4, <1>5, CurrentElsewhere DEF CurrentInv, CurrentAt

LEMMA CurrentServerListen ==
    ASSUME OwnInv, OrderInv, CurrentInv, NEW d \in Devices, NEW n \in Nodes,
           ServerListen(d, n), UNCHANGED appVars
    PROVE  CurrentInv'
<1>0. CurrentAt(d)
  BY DEF CurrentInv
<1> DEFINE r == [kind |-> "snap", node |-> n, data |-> At(n, server)]
<1>2. /\ n \in unacked[d] /\ n \notin heard[d] /\ n \notin Unreadable
      /\ heard' = [heard EXCEPT ![d] = @ \cup {n}]
      /\ down' = [down EXCEPT ![d] = Append(@, r)]
      /\ UNCHANGED <<server, conn, listens, unacked, puts, putsToAck, up, cache,
                     loaded, observers, events, tables, sent>>
  BY DEF ServerListen, appVars
<1>3. r \in GenuineResponse /\ r.kind = "snap" /\ r.node = n /\ r.data = At(n, server)
  <2>1. At(n, server) \subseteq GenuineAt(n) /\ At(n, server) \in SUBSET Message
    BY GenuineFacts DEF OwnInv, Typed
  <2> QED
    BY <2>1, <1>2 DEF GenuineResponse, Response
<1> HIDE DEF r
<1>4. /\ heard'[d] = heard[d] \cup {n} /\ down'[d] = Append(down[d], r)
      /\ \A e \in Devices : e # d => Same(e)
  BY <1>2 DEF OwnInv, Typed, Same
<1>5. down[d] \in Seq(GenuineResponse)
  BY DeviceTypes
<1>6. /\ Len(down[d]) \in Nat /\ Len(down'[d]) = Len(down[d]) + 1
      /\ \A k \in 1..Len(down[d]) : k \in 1..(Len(down[d]) + 1) /\ down'[d][k] = down[d][k]
  BY SMTT(30), <1>3, <1>4, <1>5, AppendFacts
<1>7. DataUnderWay(d)'
  <2> SUFFICES ASSUME NEW x \in Nodes
               PROVE  DataOK(Append(down[d], r), server, cache[d][x],
                             heard[d] \cup {n}, unacked[d], x)
    BY <1>2, <1>4 DEF DataUnderWay
  <2>1. DataOK(down[d], server, cache[d][x], heard[d], unacked[d], x)
    BY <1>0 DEF CurrentAt, DataUnderWay
  <2>2. CASE x = n
    BY <2>1, <2>2, <1>2, <1>3, <1>5, DataAnswered
  <2>3. CASE x # n
    <3>1. ~IsData(r, x)
      BY <2>3, <1>3 DEF IsData
    <3>2. DataOK(down[d], server, cache[d][x], heard[d] \cup {n}, unacked[d], x)
      BY <2>1, <2>3, DataSame
    <3> QED
      BY <3>1, <3>2, <1>3, <1>5, DataAppendOther
  <2> QED
    BY <2>2, <2>3
<1>8. ListensOK(d)'
  BY <1>0, <1>2, <1>4 DEF CurrentAt, ListensOK
<1>9. PutsAnswered(d)'
  <2> SUFFICES ASSUME conn[d] PROVE Answered(puts[d], up[d], down'[d])
    BY <1>2 DEF PutsAnswered
  <2>1. Answered(puts[d], up[d], down[d])
    BY <1>0 DEF CurrentAt, PutsAnswered
  <2> QED
    BY SMTT(30), <2>1, <1>6, StillAnswered
<1>10. HeldBack(d)' /\ ViewsShown(d)'
  BY <1>0, <1>2, HeldFrame, ShownFrame DEF CurrentAt
<1> QED
  BY <1>4, <1>7, <1>8, <1>9, <1>10, CurrentElsewhere DEF CurrentInv, CurrentAt

LEMMA CurrentServerRefuse ==
    ASSUME OwnInv, OrderInv, CurrentInv, NEW d \in Devices, NEW n \in Nodes,
           ServerRefuse(d, n), UNCHANGED appVars
    PROVE  CurrentInv'
<1> DEFINE r == Refusal(n)
<1>0. CurrentAt(d)
  BY DEF CurrentInv
<1>1. /\ n \in unacked[d] /\ n \in Unreadable
      /\ down' = [down EXCEPT ![d] = Append(@, r)]
      /\ UNCHANGED <<server, heard, conn, listens, unacked, puts, putsToAck, up, cache,
                     loaded, observers, events, tables, sent>>
  BY DEF ServerRefuse, appVars
<1>2. r \in GenuineResponse /\ r.kind = "refused"
  BY <1>1, RefusalGenuine
<1> HIDE DEF r
<1>3. down'[d] = Append(down[d], r) /\ \A e \in Devices : e # d => Same(e)
  BY <1>1 DEF OwnInv, Typed, Same
<1>4. down[d] \in Seq(GenuineResponse)
  BY DeviceTypes
<1>5. /\ Len(down[d]) \in Nat /\ Len(down'[d]) = Len(down[d]) + 1
      /\ \A k \in 1..Len(down[d]) : k \in 1..(Len(down[d]) + 1) /\ down'[d][k] = down[d][k]
  BY SMTT(30), <1>2, <1>3, <1>4, AppendFacts
<1>6. DataUnderWay(d)'
  <2>1. \A x : ~IsData(r, x)
    BY <1>2 DEF IsData
  <2> QED
    BY <2>1, <1>0, <1>1, <1>2, <1>3, <1>4, DataAppendOther DEF CurrentAt, DataUnderWay
<1>7. ListensOK(d)'
  BY <1>0, <1>1 DEF CurrentAt, ListensOK
<1>8. PutsAnswered(d)'
  <2> SUFFICES ASSUME conn[d] PROVE Answered(puts[d], up[d], down'[d])
    BY <1>1 DEF PutsAnswered
  <2>1. Answered(puts[d], up[d], down[d])
    BY <1>0 DEF CurrentAt, PutsAnswered
  <2> QED
    BY SMTT(30), <2>1, <1>5, StillAnswered
<1>9. HeldBack(d)' /\ ViewsShown(d)'
  BY <1>0, <1>1, HeldFrame, ShownFrame DEF CurrentAt
<1> QED
  BY <1>3, <1>6, <1>7, <1>8, <1>9, CurrentElsewhere DEF CurrentInv, CurrentAt

\* A stored message is under way to every device the server reports its node to.
LEMMA PushKeepsData ==
    ASSUME OwnInv, NEW e \in Devices, NEW n \in Nodes, NEW m \in Genuine,
           DataOK(down[e], server, cache[e][n], heard[e], unacked[e], n)
    PROVE  DataOK(Push(e, m), server \cup {m}, cache[e][n], heard[e], unacked[e], n)
<1> DEFINE r == [kind |-> "child", node |-> m.node, data |-> {m}]
<1>1. r \in GenuineResponse /\ r.kind = "child" /\ r.node = m.node /\ r.data = {m}
  BY ResponseGenuine
<1>2. Push(e, m) = IF m.node \in heard[e] THEN Append(down[e], r) ELSE down[e]
  BY DEF Push
<1>3. down[e] \in Seq(GenuineResponse)
  BY DeviceTypes
<1> HIDE DEF r
<1>4. CASE m.node = n /\ n \in heard[e]
  <2>1. DataOK(Append(down[e], r), server \cup {m}, cache[e][n], heard[e], unacked[e], n)
    BY <1>1, <1>3, <1>4, DataPushed
  <2> QED
    BY <2>1, <1>2, <1>4
<1>5. CASE m.node # n \/ n \notin heard[e]
  <2>1. n \in heard[e] => At(n, server \cup {m}) = At(n, server)
    BY <1>5 DEF At
  <2>2. DataOK(down[e], server \cup {m}, cache[e][n], heard[e], unacked[e], n)
    BY <2>1, DataSame
  <2>3. CASE m.node \in heard[e]
    <3>1. ~IsData(r, n)
      BY <2>3, <1>1, <1>5 DEF IsData
    <3> QED
      BY SMTT(30), <2>2, <2>3, <3>1, <1>1, <1>2, <1>3, DataAppendOther
  <2>4. CASE m.node \notin heard[e]
    BY <2>2, <2>4, <1>2
  <2> QED
    BY <2>3, <2>4
<1> QED
  BY <1>4, <1>5

\* q2 holds every response of q.
Extends(q, q2) == \A k \in 1..Len(q) : \E j \in 1..Len(q2) : q2[j] = q[k]

LEMMA PushExtends ==
    ASSUME OwnInv, NEW e \in Devices, NEW m \in Genuine
    PROVE  /\ Push(e, m) \in Seq(GenuineResponse)
           /\ Extends(down[e], Push(e, m))
<1> DEFINE r == [kind |-> "child", node |-> m.node, data |-> {m}]
<1>1. r \in GenuineResponse
  BY ResponseGenuine
<1>2. Push(e, m) = IF m.node \in heard[e] THEN Append(down[e], r) ELSE down[e]
  BY DEF Push
<1>3. down[e] \in Seq(GenuineResponse)
  BY DeviceTypes
<1> HIDE DEF r
<1>4. /\ Append(down[e], r) \in Seq(GenuineResponse)
      /\ Len(Append(down[e], r)) = Len(down[e]) + 1
      /\ \A k \in 1..Len(down[e]) : /\ k \in 1..(Len(down[e]) + 1)
                                    /\ Append(down[e], r)[k] = down[e][k]
  BY SMTT(30), <1>1, <1>3, AppendFacts, ElementsAppend
<1>5. Extends(down[e], Append(down[e], r)) /\ Extends(down[e], down[e])
  BY <1>4 DEF Extends
<1> QED
  BY <1>2, <1>3, <1>4, <1>5

\* The device whose put is answered: q is what else is on its way to it.
LEMMA CurrentAnswered ==
    ASSUME OwnInv, OrderInv, NEW d \in Devices, CurrentAt(d), HandlePut(d),
           NEW q \in Seq(GenuineResponse), Extends(down[d], q),
           down'[d] = Append(q, Ack(Head(up[d]))),
           \A n \in Nodes : DataOK(q, server', cache[d][n], heard[d], unacked[d], n)
    PROVE  CurrentAt(d)'
<1> DEFINE m == Head(up[d])
           a == Ack(m)
<1>1. /\ up[d] # <<>> /\ up' = [up EXCEPT ![d] = Tail(@)]
      /\ UNCHANGED <<heard, conn, listens, unacked, puts, putsToAck, cache, loaded,
                     observers, events, tables, sent>>
  BY DEF HandlePut, ServerPut
<1>2. /\ m \in Genuine /\ conn[d]
      /\ Elements(up[d]) = {m} \cup Elements(Tail(up[d]))
  BY <1>1, HeadIsFirst
<1>3. up'[d] = Tail(up[d])
  BY <1>1 DEF OwnInv, Typed
<1> HIDE DEF m
<1>4. a \in GenuineResponse /\ a.kind = "ack" /\ a.data = {m}
  BY <1>2, ResponseGenuine DEF Ack
<1> HIDE DEF a
<1>5. down'[d] = Append(q, a)
  BY DEF a, m
<1>6. /\ Len(q) \in Nat /\ Len(down'[d]) = Len(q) + 1
      /\ \A k \in 1..Len(q) : k \in 1..(Len(q) + 1) /\ down'[d][k] = q[k]
      /\ down'[d][Len(q) + 1] = a /\ Len(q) + 1 \in 1..(Len(q) + 1)
  BY SMTT(30), <1>4, <1>5, AppendFacts
<1>7. DataUnderWay(d)'
  <2> SUFFICES ASSUME NEW n \in Nodes
               PROVE  DataOK(Append(q, a), server', cache[d][n], heard[d], unacked[d], n)
    BY <1>1, <1>5 DEF DataUnderWay
  <2>1. ~IsData(a, n)
    BY <1>4 DEF IsData
  <2> QED
    BY <2>1, <1>4, DataAppendOther
<1>8. ListensOK(d)'
  BY <1>1, <1>2 DEF CurrentAt, ListensOK
<1>9. PutsAnswered(d)'
  <2>1. Answered(puts[d], up[d], down[d])
    BY <1>2 DEF CurrentAt, PutsAnswered
  <2>2. \A x \in Elements(puts[d]) \cap Elements(up[d]) : x \in Elements(up'[d])
           \/ \E k \in 1..Len(down'[d]) : down'[d][k].kind = "ack" /\ down'[d][k].data = {x}
    BY <1>2, <1>3, <1>4, <1>6
  <2>3. \A k \in 1..Len(down[d]) : \E j \in 1..Len(down'[d]) : down'[d][j] = down[d][k]
    BY <1>6 DEF Extends
  <2>4. Answered(puts[d], up'[d], down'[d])
    <3> SUFFICES ASSUME NEW x \in Elements(puts[d]), x \notin Elements(up'[d])
                 PROVE  \E k \in 1..Len(down'[d]) :
                           down'[d][k].kind = "ack" /\ down'[d][k].data = {x}
      BY DEF Answered
    <3>1. CASE x \in Elements(up[d])
      BY <3>1, <2>2
    <3>2. CASE x \notin Elements(up[d])
      <4>1. PICK k \in 1..Len(down[d]) : down[d][k].kind = "ack" /\ down[d][k].data = {x}
        BY <3>2, <2>1 DEF Answered
      <4>2. PICK j \in 1..Len(down'[d]) : down'[d][j] = down[d][k]
        BY <2>3
      <4> QED
        BY <4>1, <4>2
    <3> QED
      BY <3>1, <3>2
  <2> QED
    BY <2>4, <1>1 DEF PutsAnswered
<1>10. HeldBack(d)' /\ ViewsShown(d)'
  BY <1>1, HeldFrame, ShownFrame DEF CurrentAt
<1> QED
  BY <1>7, <1>8, <1>9, <1>10 DEF CurrentAt

LEMMA CurrentHandlePut ==
    ASSUME OwnInv, OrderInv, CurrentInv, NEW d \in Devices, HandlePut(d)
    PROVE  CurrentInv'
<1> DEFINE m == Head(up[d])
<1>1. /\ up[d] # <<>> /\ up' = [up EXCEPT ![d] = Tail(@)]
      /\ IF m \in Denied \cup server
         THEN /\ down' = [down EXCEPT ![d] = Append(@, Ack(m))]
              /\ server' = server
         ELSE /\ server' = server \cup {m}
              /\ down' = [ e \in Devices |-> IF e = d THEN Append(Push(e, m), Ack(m))
                                                      ELSE Push(e, m) ]
      /\ UNCHANGED <<heard, conn, listens, unacked, puts, putsToAck, cache, loaded,
                     observers, events, tables, sent>>
  BY DEF HandlePut, ServerPut
<1>2. m \in Genuine
  BY <1>1, HeadIsFirst
<1>3. \A e \in Devices : e # d => up'[e] = up[e]
  BY <1>1 DEF OwnInv, Typed
<1>4. \A e \in Devices : CurrentAt(e) /\ DataUnderWay(e)
  BY DEF CurrentInv, CurrentAt
<1>5. down[d] \in Seq(GenuineResponse)
  BY DeviceTypes
<1>6. CASE m \in Denied \cup server
  <2>1. down'[d] = Append(down[d], Ack(m)) /\ server' = server
    BY <1>1, <1>6 DEF OwnInv, Typed
  <2>2. \A e \in Devices : e # d => Same(e)
    BY <1>1, <1>3, <1>6 DEF OwnInv, Typed, Same
  <2>3. Extends(down[d], down[d])
    BY DEF Extends
  <2>4. CurrentAt(d)'
    BY <2>1, <2>3, <1>4, <1>5, CurrentAnswered DEF DataUnderWay
  <2> QED
    BY <2>2, <2>4, <1>4, CurrentElsewhere DEF CurrentInv
<1>7. CASE m \notin Denied \cup server
  <2>1. /\ server' = server \cup {m} /\ down'[d] = Append(Push(d, m), Ack(m))
        /\ \A e \in Devices : e # d => down'[e] = Push(e, m)
    BY <1>1, <1>7
  <2> HIDE DEF m
  <2>2. ASSUME NEW e \in Devices, NEW n \in Nodes
        PROVE  DataOK(Push(e, m), server', cache[e][n], heard[e], unacked[e], n)
    BY <2>1, <1>2, <1>4, PushKeepsData DEF DataUnderWay
  <2>3. \A e \in Devices : /\ Push(e, m) \in Seq(GenuineResponse)
                           /\ Extends(down[e], Push(e, m))
    BY <1>2, PushExtends
  <2>4. CurrentAt(d)'
    BY <2>1, <2>2, <2>3, <1>4, CurrentAnswered DEF m
  <2>5. ASSUME NEW e \in Devices, e # d PROVE CurrentAt(e)'
    <3>1. down'[e] = Push(e, m) /\ up'[e] = up[e]
      BY <2>1, <2>5, <1>3
    <3>2. DataUnderWay(e)'
      BY <2>2, <3>1, <1>1 DEF DataUnderWay
    <3>3. ListensOK(e)'
      <4>1. ~conn[e] => down'[e] = <<>>
        BY <3>1, <1>4 DEF CurrentAt, ListensOK, Push
      <4> QED
        BY <4>1, <1>1, <1>4 DEF CurrentAt, ListensOK
    <3>4. PutsAnswered(e)'
      <4>1. conn[e] => Answered(puts[e], up[e], down[e])
        BY <1>4 DEF CurrentAt, PutsAnswered
      <4>2. conn[e] => Answered(puts[e], up[e], Push(e, m))
        BY SMTT(30), <4>1, <2>3, StillAnswered DEF Extends
      <4> QED
        BY <4>2, <3>1, <1>1 DEF PutsAnswered
    <3>5. HeldBack(e)' /\ ViewsShown(e)'
      BY <1>1, <1>4, HeldFrame, ShownFrame DEF CurrentAt
    <3> QED
      BY <3>2, <3>3, <3>4, <3>5 DEF CurrentAt
  <2> QED
    BY <2>4, <2>5 DEF CurrentInv
<1> QED
  BY <1>6, <1>7

LEMMA TailAnswered ==
    ASSUME NEW q \in Seq(GenuineResponse), q # <<>>, NEW p, NEW u, Answered(p, u, q),
           Head(q).kind # "ack"
    PROVE  Answered(p, u, Tail(q))
<1>1. /\ Len(Tail(q)) = Len(q) - 1 /\ Head(q) = q[1]
      /\ \A k \in 1..Len(q) : k # 1 => /\ k - 1 \in 1..(Len(q) - 1)
                                       /\ Tail(q)[k - 1] = q[k]
  BY TailFacts
<1> SUFFICES ASSUME NEW m \in Elements(p), m \notin Elements(u)
             PROVE  \E k \in 1..Len(Tail(q)) :
                       Tail(q)[k].kind = "ack" /\ Tail(q)[k].data = {m}
  BY DEF Answered
<1>2. PICK k \in 1..Len(q) : q[k].kind = "ack" /\ q[k].data = {m}
  BY DEF Answered
<1>3. k # 1
  BY <1>1, <1>2
<1> QED
  BY <1>1, <1>2, <1>3

LEMMA CurrentReceiveChild ==
    ASSUME OwnInv, OrderInv, CurrentInv, NEW d \in Devices, ReceiveChild(d),
           UNCHANGED appVars
    PROVE  CurrentInv'
<1> DEFINE n == Head(down[d]).node
           data == Head(down[d]).data
           q == Raise(events[d], d, n, View(d, n), View(d, n) \cup data)
<1>0. CurrentAt(d)
  BY DEF CurrentInv
<1>1. /\ down[d] # <<>> /\ Head(down[d]).kind = "child"
      /\ down' = [down EXCEPT ![d] = Tail(@)]
      /\ cache' = [cache EXCEPT ![d][n] = @ \cup data]
      /\ events' = [events EXCEPT ![d] = q]
      /\ UNCHANGED <<server, heard, conn, listens, unacked, puts, putsToAck, up,
                     loaded, observers, tables, sent>>
  BY DEF ReceiveChild, Arrives, appVars
<1>2. n \in Nodes /\ data \subseteq GenuineAt(n)
  BY <1>1, Arrival
<1> HIDE DEF n, data, q
<1>3. /\ down'[d] = Tail(down[d]) /\ events'[d] = q
      /\ \A x \in Nodes : cache'[d][x] = IF x = n THEN cache[d][n] \cup data
                                         ELSE cache[d][x]
      /\ \A e \in Devices : e # d => Same(e)
  BY <1>1, <1>2 DEF OwnInv, Typed, Same
<1>4. /\ down[d] \in Seq(GenuineResponse) /\ events[d] \in Seq(GenuineEvent)
      /\ Len(tables[d]) = Len(observers[d])
      /\ \A i \in 1..Len(observers[d]) : observers[d][i] \in Nodes
  BY DeviceTypes
<1>5. DataUnderWay(d)'
  <2> SUFFICES ASSUME NEW x \in Nodes
               PROVE  DataOK(Tail(down[d]), server, cache'[d][x], heard[d], unacked[d], x)
    BY <1>1, <1>3 DEF DataUnderWay
  <2>1. DataOK(down[d], server, cache[d][x], heard[d], unacked[d], x)
    BY <1>0 DEF CurrentAt, DataUnderWay
  <2>2. CASE x = n
    <3>1. DataOK(Tail(down[d]), server, cache[d][x] \cup Head(down[d]).data,
                 heard[d], unacked[d], x)
      BY <2>1, <2>2, <1>1, <1>4, DataTaken DEF n
    <3> QED
      BY <3>1, <2>2, <1>3 DEF data
  <2>3. CASE x # n
    <3>1. ~IsData(Head(down[d]), x)
      BY <2>3 DEF IsData, n
    <3> QED
      BY <2>1, <2>3, <3>1, <1>1, <1>3, <1>4, DataTailOther
  <2> QED
    BY <2>2, <2>3
<1>6. ListensOK(d)'
  BY <1>0, <1>1 DEF CurrentAt, ListensOK
<1>7. PutsAnswered(d)'
  <2>1. Head(down[d]).kind # "ack"
    BY <1>1
  <2>2. conn[d] => Answered(puts[d], up[d], Tail(down[d]))
    BY <2>1, <1>0, <1>1, <1>4, TailAnswered DEF CurrentAt, PutsAnswered
  <2> QED
    BY <2>2, <1>1, <1>3 DEF PutsAnswered
<1>8. HeldBack(d)'
  BY <1>0, <1>1, HeldFrame DEF CurrentAt
<1>9. ViewsShown(d)'
  <2> SUFFICES ASSUME NEW i \in 1..Len(tables[d]), observers[d][i] \in loaded[d]
               PROVE  ShownOK(q, tables[d][i].message, View(d, observers[d][i])', i)
    BY <1>1, <1>3 DEF ViewsShown
  <2>1. View(d, observers[d][i])' = IF observers[d][i] = n THEN View(d, n) \cup data
                                    ELSE View(d, observers[d][i])
    BY SMTT(30), <1>1, <1>3, <1>4 DEF View, Pending
  <2>2. View(d, n) \cup data \in SUBSET GenuineAt(n)
    BY <1>2, ViewGenuine
  <2>3. ShownOK(events[d], tables[d][i].message,
                IF observers[d][i] = n THEN View(d, n) ELSE View(d, observers[d][i]), i)
    BY <1>0 DEF CurrentAt, ViewsShown
  <2> QED
    BY <2>1, <2>2, <2>3, <1>2, <1>4, ShownRaise DEF q
<1> QED
  BY <1>3, <1>5, <1>6, <1>7, <1>8, <1>9, CurrentElsewhere DEF CurrentInv, CurrentAt

LEMMA CurrentReceiveSnap ==
    ASSUME OwnInv, OrderInv, CurrentInv, NEW d \in Devices, ReceiveSnap(d),
           UNCHANGED appVars
    PROVE  CurrentInv'
<1> DEFINE n == Head(down[d]).node
           data == Head(down[d]).data
           new == data \cup At(n, Pending(d))
           event == [node |-> n, snap |-> new, todo |-> Observing(d, n)]
           q == IF n \notin loaded[d] THEN Append(events[d], event)
                ELSE Raise(events[d], d, n, View(d, n), new)
           acks == AckEvents(d, putsToAck[d], Elements(puts[d]), cache'[d], loaded'[d])
<1>0. CurrentAt(d)
  BY DEF CurrentInv
<1>1. /\ down[d] # <<>> /\ Head(down[d]).kind = "snap"
      /\ down' = [down EXCEPT ![d] = Tail(@)]
      /\ cache' = [cache EXCEPT ![d][n] = data]
      /\ loaded' = [loaded EXCEPT ![d] = @ \cup {n}]
      /\ unacked' = [unacked EXCEPT ![d] = @ \ {n}]
      /\ UNCHANGED <<server, heard, conn, listens, puts, up, observers, tables, sent>>
  BY DEF ReceiveSnap, Arrives, appVars
<1>2. IF unacked[d] \ {n} = {}
      THEN /\ putsToAck' = [putsToAck EXCEPT ![d] = <<>>]
           /\ events' = [events EXCEPT ![d] = q \o acks]
      ELSE /\ events' = [events EXCEPT ![d] = q]
           /\ putsToAck' = putsToAck
  BY DEF ReceiveSnap
<1>3. n \in Nodes /\ data \subseteq GenuineAt(n)
  BY <1>1, Arrival
<1> HIDE DEF n, data, new, event, q, acks
<1>4. /\ down'[d] = Tail(down[d]) /\ loaded'[d] = loaded[d] \cup {n}
      /\ unacked'[d] = unacked[d] \ {n}
      /\ \A x \in Nodes : cache'[d][x] = IF x = n THEN data ELSE cache[d][x]
  BY <1>1, <1>3 DEF OwnInv, Typed
<1>5. IF unacked'[d] = {} THEN putsToAck'[d] = <<>> /\ events'[d] = q \o acks
      ELSE putsToAck'[d] = putsToAck[d] /\ events'[d] = q
  BY <1>2, <1>4 DEF OwnInv, Typed
<1>6. \A e \in Devices : e # d => Same(e)
  BY <1>1, <1>2 DEF OwnInv, Typed, Same
<1>7. /\ down[d] \in Seq(GenuineResponse) /\ events[d] \in Seq(GenuineEvent)
      /\ putsToAck[d] \in Seq(Genuine) /\ puts[d] \in Seq(Genuine)
      /\ Len(tables[d]) = Len(observers[d])
      /\ \A i \in 1..Len(observers[d]) : observers[d][i] \in Nodes
  BY DeviceTypes
<1>8. /\ n \in heard[d] /\ n \in unacked[d]
      /\ DataOK(Tail(down[d]), server, data, heard[d], unacked[d] \ {n}, n)
  <2>1. DataOK(down[d], server, cache[d][n], heard[d], unacked[d], n)
    BY <1>0, <1>3 DEF CurrentAt, DataUnderWay
  <2>2. Head(down[d]).node = n /\ Head(down[d]).data = data
    BY DEF n, data
  <2> QED
    BY <2>1, <2>2, <1>1, <1>7, DataLoaded
<1>9. DataUnderWay(d)'
  <2> SUFFICES ASSUME NEW x \in Nodes
               PROVE  DataOK(Tail(down[d]), server, cache'[d][x], heard[d], unacked'[d], x)
    BY <1>1, <1>4 DEF DataUnderWay
  <2>1. DataOK(down[d], server, cache[d][x], heard[d], unacked[d], x)
    BY <1>0 DEF CurrentAt, DataUnderWay
  <2>2. CASE x = n
    BY <2>2, <1>4, <1>8
  <2>3. CASE x # n
    <3>1. ~IsData(Head(down[d]), x)
      BY <2>3 DEF IsData, n
    <3>2. DataOK(Tail(down[d]), server, cache[d][x], heard[d], unacked[d], x)
      BY <2>1, <3>1, <1>1, <1>7, DataTailOther
    <3>3. x \in unacked'[d] <=> x \in unacked[d]
      BY <2>3, <1>4
    <3> QED
      BY <2>3, <3>2, <3>3, <1>4, DataSame
  <2> QED
    BY <2>2, <2>3
<1>10. conn[d] /\ ListensOK(d)'
  <2>1. conn[d]
    BY <1>0, <1>1 DEF CurrentAt, ListensOK
  <2> QED
    BY <2>1, <1>0, <1>1, <1>4, <1>8 DEF CurrentAt, ListensOK
<1>11. PutsAnswered(d)'
  <2>1. Head(down[d]).kind # "ack"
    BY <1>1
  <2>2. conn[d] => Answered(puts[d], up[d], Tail(down[d]))
    BY <2>1, <1>0, <1>1, <1>7, TailAnswered DEF CurrentAt, PutsAnswered
  <2> QED
    BY <2>2, <1>1, <1>4 DEF PutsAnswered
<1>12. HeldBack(d)'
  <2>1. CASE unacked'[d] = {}
    BY SMTT(30), <2>1, <1>5, ElementsEmpty DEF HeldBack, Distinct
  <2>2. CASE unacked'[d] # {}
    BY <2>2, <1>0, <1>1, <1>5 DEF CurrentAt, HeldBack
  <2> QED
    BY <2>1, <2>2
<1>13. ViewsShown(d)'
  <2> SUFFICES ASSUME NEW i \in 1..Len(tables[d]), observers[d][i] \in loaded'[d]
               PROVE  ShownOK(events'[d], tables[d][i].message,
                              View(d, observers[d][i])', i)
    BY <1>1 DEF ViewsShown
  <2> DEFINE x == observers[d][i]
             shown == tables[d][i].message
             mid == cache'[d][x] \cup At(x, Elements(puts[d]) \cup Elements(putsToAck[d]))
  <2>0. i \in 1..Len(observers[d]) /\ x \in Nodes
    BY <1>7
  <2>1. mid = IF x = n THEN new ELSE View(d, x)
    BY <2>0, <1>4 DEF new, View, Pending
  <2>2. new \in SUBSET GenuineAt(n)
    BY <1>3, ViewGenuine, GenuineFacts DEF new
  <2>3. q \in Seq(GenuineEvent) /\ ShownOK(q, shown, mid, i)
    <3>1. x \in loaded[d] => ShownOK(events[d], shown, View(d, x), i)
      BY <1>0 DEF CurrentAt, ViewsShown
    <3>2. CASE n \notin loaded[d]
      <4>1. event \in GenuineEvent /\ event.snap = new /\ event.todo = Observing(d, n)
        BY <2>2, <1>3, ObservingType, EventGenuine DEF event
      <4>2. i \in Observing(d, n) <=> x = n
        <5>1. DOMAIN observers[d] = 1..Len(observers[d])
          BY SeqFacts DEF OwnInv, Typed
        <5> QED
          BY <5>1, <2>0 DEF Observing
      <4>3. q = Append(events[d], event)
        BY <3>2 DEF q
      <4>4. q \in Seq(GenuineEvent)
        BY <4>1, <4>3, <1>7, ElementsAppend
      <4> HIDE DEF mid
      <4>5. CASE x = n
        BY <2>1, <4>1, <4>2, <4>3, <4>4, <4>5, <1>7, ShownAppend
      <4>6. CASE x # n
        <5>1. ShownOK(events[d], shown, mid, i)
          BY <2>1, <3>1, <4>6, <1>4
        <5> QED
          BY <5>1, <4>1, <4>2, <4>3, <4>4, <4>6, <1>7, ShownAppend
      <4> QED
        BY <4>5, <4>6
    <3>3. CASE n \in loaded[d]
      <4>1. x \in loaded[d]
        BY <3>3, <1>4
      <4>2. q = Raise(events[d], d, n, View(d, n), new)
        BY <3>3 DEF q
      <4>3. ShownOK(events[d], shown, IF x = n THEN View(d, n) ELSE View(d, x), i)
        BY <3>1, <4>1
      <4>4. ShownOK(q, shown, IF x = n THEN new ELSE View(d, x), i)
        BY <2>0, <2>2, <4>1, <4>2, <4>3, <1>3, <1>7, ShownRaise
      <4>5. q \in Seq(GenuineEvent)
        BY <2>2, <4>2, <1>3, GoodQueueNow, RaiseGood DEF GoodQueue
      <4> QED
        BY <2>1, <4>4, <4>5
    <3> QED
      BY <3>2, <3>3
  <2>4. CASE unacked'[d] # {}
    <3>1. View(d, x)' = mid
      BY <2>4, <1>1, <1>5 DEF View, Pending
    <3> QED
      BY <2>3, <2>4, <3>1, <1>5
  <2>5. CASE unacked'[d] = {}
    <3>1. View(d, x)' = cache'[d][x] \cup At(x, Elements(puts[d]))
      BY <2>5, <1>1, <1>5, ElementsEmpty DEF View, Pending
    <3>2. \A y \in Nodes : cache'[d][y] \subseteq GenuineAt(y)
      BY <1>3, <1>4 DEF OwnInv, CacheGenuine
    <3>3. Distinct(putsToAck[d]) /\ Elements(puts[d]) \in SUBSET Genuine
      BY <1>0, <1>7, ElementsOfSeq DEF CurrentAt, HeldBack
    <3>4. ShownOK(q \o acks, shown, cache'[d][x] \cup At(x, Elements(puts[d])), i)
      BY <2>0, <2>3, <3>2, <3>3, <1>7, ShownAcks DEF acks
    <3> QED
      BY <2>5, <3>1, <3>4, <1>5
  <2> QED
    BY <2>4, <2>5
<1> QED
  BY <1>6, <1>9, <1>10, <1>11, <1>12, <1>13, CurrentElsewhere DEF CurrentInv, CurrentAt

LEMMA CurrentReceiveRefusal ==
    ASSUME OwnInv, OrderInv, CurrentInv, NEW d \in Devices, ReceiveRefusal(d),
           UNCHANGED appVars
    PROVE  CurrentInv'
<1> DEFINE n == Head(down[d]).node
           acks == AckEvents(d, putsToAck[d], Elements(puts[d]), cache[d], loaded[d])
<1>0. CurrentAt(d)
  BY DEF CurrentInv
<1>1. /\ down[d] # <<>> /\ Head(down[d]).kind = "refused"
      /\ down' = [down EXCEPT ![d] = Tail(@)]
      /\ listens' = [listens EXCEPT ![d] = @ \ {n}]
      /\ unacked' = [unacked EXCEPT ![d] = @ \ {n}]
      /\ UNCHANGED <<server, heard, conn, puts, up, cache, loaded, observers, tables, sent>>
  BY DEF ReceiveRefusal, Arrives, appVars
<1>2. IF unacked[d] \ {n} = {}
      THEN /\ putsToAck' = [putsToAck EXCEPT ![d] = <<>>]
           /\ events' = [events EXCEPT ![d] = events[d] \o acks]
      ELSE putsToAck' = putsToAck /\ events' = events
  BY DEF ReceiveRefusal
<1>3. n \in Unreadable
  BY <1>1, Arrival DEF GenuineResponse
<1> HIDE DEF n, acks
<1>4. /\ down'[d] = Tail(down[d]) /\ listens'[d] = listens[d] \ {n}
      /\ unacked'[d] = unacked[d] \ {n}
  BY <1>1 DEF OwnInv, Typed
<1>5. IF unacked'[d] = {} THEN putsToAck'[d] = <<>> /\ events'[d] = events[d] \o acks
      ELSE putsToAck'[d] = putsToAck[d] /\ events'[d] = events[d]
  BY <1>2, <1>4 DEF OwnInv, Typed
<1>6. \A e \in Devices : e # d => Same(e)
  BY <1>1, <1>2 DEF OwnInv, Typed, Same
<1>7. /\ down[d] \in Seq(GenuineResponse) /\ events[d] \in Seq(GenuineEvent)
      /\ putsToAck[d] \in Seq(Genuine) /\ puts[d] \in Seq(Genuine)
      /\ Len(tables[d]) = Len(observers[d])
      /\ \A i \in 1..Len(observers[d]) : observers[d][i] \in Nodes
  BY DeviceTypes
<1>8. n \notin heard[d] /\ n \notin loaded[d]
  BY <1>3, DeviceTypes
<1>9. DataUnderWay(d)'
  <2> SUFFICES ASSUME NEW x \in Nodes
               PROVE  DataOK(Tail(down[d]), server, cache[d][x], heard[d], unacked'[d], x)
    BY <1>1, <1>4 DEF DataUnderWay
  <2>1. DataOK(down[d], server, cache[d][x], heard[d], unacked[d], x)
    BY <1>0 DEF CurrentAt, DataUnderWay
  <2>2. ~IsData(Head(down[d]), x)
    BY <1>1 DEF IsData
  <2>3. DataOK(Tail(down[d]), server, cache[d][x], heard[d], unacked[d], x)
    BY <2>1, <2>2, <1>1, <1>7, DataTailOther
  <2>4. x \in heard[d] => (x \in unacked'[d] <=> x \in unacked[d])
    BY <1>4, <1>8
  <2> QED
    BY <2>3, <2>4, DataSame
<1>10. conn[d] /\ ListensOK(d)'
  <2>1. conn[d]
    BY <1>0, <1>1 DEF CurrentAt, ListensOK
  <2> QED
    BY <2>1, <1>0, <1>1, <1>3, <1>4, <1>8 DEF CurrentAt, ListensOK
<1>11. PutsAnswered(d)'
  <2>1. Head(down[d]).kind # "ack"
    BY <1>1
  <2>2. conn[d] => Answered(puts[d], up[d], Tail(down[d]))
    BY <2>1, <1>0, <1>1, <1>7, TailAnswered DEF CurrentAt, PutsAnswered
  <2> QED
    BY <2>2, <1>1, <1>4 DEF PutsAnswered
<1>12. HeldBack(d)'
  <2>1. CASE unacked'[d] = {}
    BY SMTT(30), <2>1, <1>5, ElementsEmpty DEF HeldBack, Distinct
  <2>2. CASE unacked'[d] # {}
    <3>1. listens'[d] # {}
      BY <2>2, <1>0, <1>4 DEF CurrentAt, ListensOK
    <3> QED
      BY <2>2, <3>1, <1>0, <1>1, <1>5 DEF CurrentAt, HeldBack
  <2> QED
    BY <2>1, <2>2
<1>13. ViewsShown(d)'
  <2> SUFFICES ASSUME NEW i \in 1..Len(tables[d]), observers[d][i] \in loaded[d]
               PROVE  ShownOK(events'[d], tables[d][i].message,
                              View(d, observers[d][i])', i)
    BY <1>1 DEF ViewsShown
  <2> DEFINE x == observers[d][i]
             shown == tables[d][i].message
  <2>1. x \in Nodes /\ i \in 1..Len(observers[d])
    BY <1>7
  <2>2. ShownOK(events[d], shown, View(d, x), i)
    BY <1>0 DEF CurrentAt, ViewsShown
  <2>3. CASE unacked'[d] # {}
    <3>1. View(d, x)' = View(d, x)
      BY <2>3, <1>1, <1>5 DEF View, Pending
    <3> QED
      BY <2>2, <2>3, <3>1, <1>5
  <2>4. CASE unacked'[d] = {}
    <3>1. View(d, x)' = cache[d][x] \cup At(x, Elements(puts[d]))
      BY <2>4, <1>1, <1>5, ElementsEmpty DEF View, Pending
    <3>2. \A y \in Nodes : cache[d][y] \subseteq GenuineAt(y)
      BY DEF OwnInv, CacheGenuine
    <3>3. Distinct(putsToAck[d]) /\ Elements(puts[d]) \in SUBSET Genuine
      BY <1>0, <1>7, ElementsOfSeq DEF CurrentAt, HeldBack
    <3>4. ShownOK(events[d], shown,
                  cache[d][x] \cup At(x, Elements(puts[d]) \cup Elements(putsToAck[d])), i)
      BY <2>2 DEF View, Pending
    <3>5. ShownOK(events[d] \o acks, shown, cache[d][x] \cup At(x, Elements(puts[d])), i)
      BY <2>1, <3>2, <3>3, <3>4, <1>7, ShownAcks DEF acks
    <3> QED
      BY <2>4, <3>1, <3>5, <1>5
  <2> QED
    BY <2>3, <2>4
<1> QED
  BY <1>6, <1>9, <1>10, <1>11, <1>12, <1>13, CurrentElsewhere DEF CurrentInv, CurrentAt

LEMMA CurrentReceiveAck ==
    ASSUME OwnInv, OrderInv, CurrentInv, NEW d \in Devices, ReceiveAck(d),
           UNCHANGED appVars
    PROVE  CurrentInv'
<1> DEFINE m == Written(Head(down[d]))
           rest == Without(puts[d], m)
           others == Elements(rest) \cup Elements(putsToAck[d])
           acks == AckEvents(d, <<m>>, others, cache[d], loaded[d])
<1>0. CurrentAt(d)
  BY DEF CurrentInv
<1>1. /\ Arrives(d, "ack") /\ down[d] # <<>> /\ Head(down[d]).kind = "ack"
      /\ down' = [down EXCEPT ![d] = Tail(@)]
      /\ puts' = [puts EXCEPT ![d] = rest]
      /\ UNCHANGED <<server, heard, conn, listens, unacked, up, cache, loaded,
                     observers, tables, sent>>
  BY DEF ReceiveAck, Arrives, appVars
<1>2. /\ IF m \in Elements(puts[d]) /\ unacked[d] # {}
         THEN putsToAck' = [putsToAck EXCEPT ![d] = Append(@, m)]
         ELSE putsToAck' = putsToAck
      /\ IF m \in Elements(puts[d]) /\ unacked[d] = {}
         THEN events' = [events EXCEPT ![d] = @ \o acks]
         ELSE events' = events
  BY DEF ReceiveAck
<1>3. m \in Genuine /\ Head(down[d]).data = {m}
  BY <1>1, WrittenGenuine
<1> HIDE DEF m, acks
<1>4. /\ puts[d] \in Seq(Genuine) /\ putsToAck[d] \in Seq(Genuine)
      /\ down[d] \in Seq(GenuineResponse) /\ events[d] \in Seq(GenuineEvent)
      /\ Len(tables[d]) = Len(observers[d])
      /\ \A i \in 1..Len(observers[d]) : observers[d][i] \in Nodes
  BY DeviceTypes
<1>5. Ascending(puts[d]) /\ \A x \in Elements(puts[d]) : x.device = d /\ x.seq <= sent[d]
  BY DEF OrderInv, PutsInOrder
<1>6. /\ rest \in Seq(Genuine) /\ m \notin Elements(rest)
      /\ Elements(rest) \subseteq Elements(puts[d])
      /\ Elements(puts[d]) \subseteq Elements(rest) \cup {m}
  BY <1>4, <1>5, WithoutProperties, WithoutRemoves
<1> HIDE DEF rest
<1>7. /\ down'[d] = Tail(down[d]) /\ puts'[d] = rest
      /\ \A e \in Devices : e # d => Same(e)
  BY <1>1, <1>2 DEF OwnInv, Typed, Same
<1>8. /\ putsToAck'[d] = IF m \in Elements(puts[d]) /\ unacked[d] # {}
                         THEN Append(putsToAck[d], m) ELSE putsToAck[d]
      /\ events'[d] = IF m \in Elements(puts[d]) /\ unacked[d] = {}
                      THEN events[d] \o acks ELSE events[d]
  <2>1. /\ putsToAck \in [Devices -> Seq(Genuine)]
        /\ events \in [Devices -> Seq(GenuineEvent)]
    BY DEF OwnInv, Typed
  <2>2. /\ [putsToAck EXCEPT ![d] = Append(@, m)][d] = Append(putsToAck[d], m)
        /\ [events EXCEPT ![d] = @ \o acks][d] = events[d] \o acks
    BY <2>1
  <2> QED
    BY <1>2, <2>2
<1>9. conn[d]
  BY <1>0, <1>1 DEF CurrentAt, ListensOK
<1>10. DataUnderWay(d)'
  <2> SUFFICES ASSUME NEW x \in Nodes
               PROVE  DataOK(Tail(down[d]), server, cache[d][x], heard[d], unacked[d], x)
    BY <1>1, <1>7 DEF DataUnderWay
  <2>1. DataOK(down[d], server, cache[d][x], heard[d], unacked[d], x)
    BY <1>0 DEF CurrentAt, DataUnderWay
  <2>2. ~IsData(Head(down[d]), x)
    BY <1>1 DEF IsData
  <2> QED
    BY <2>1, <2>2, <1>1, <1>4, DataTailOther
<1>11. ListensOK(d)'
  BY <1>0, <1>1, <1>9 DEF CurrentAt, ListensOK
<1>12. PutsAnswered(d)'
  <2>1. /\ Len(Tail(down[d])) = Len(down[d]) - 1 /\ Head(down[d]) = down[d][1]
        /\ \A k \in 1..Len(down[d]) : k # 1 =>
              k - 1 \in 1..(Len(down[d]) - 1) /\ Tail(down[d])[k - 1] = down[d][k]
    BY <1>1, <1>4, TailFacts
  <2> SUFFICES ASSUME NEW x \in Elements(rest), x \notin Elements(up[d])
               PROVE  \E k \in 1..Len(Tail(down[d])) :
                         Tail(down[d])[k].kind = "ack" /\ Tail(down[d])[k].data = {x}
    BY <1>1, <1>7 DEF PutsAnswered, Answered
  <2>2. PICK k \in 1..Len(down[d]) : down[d][k].kind = "ack" /\ down[d][k].data = {x}
    BY <1>0, <1>6, <1>9 DEF CurrentAt, PutsAnswered, Answered
  <2>3. k # 1
    BY <2>1, <2>2, <1>3, <1>6
  <2> QED
    BY <2>1, <2>2, <2>3
<1>13. HeldBack(d)'
  <2>1. /\ putsToAck[d] # <<>> => listens[d] # {} /\ unacked[d] # {}
        /\ Distinct(putsToAck[d])
        /\ \A x \in Elements(putsToAck[d]) :
              x \notin Elements(puts[d]) /\ x.device = d /\ x.seq <= sent[d]
    BY <1>0, <1>9 DEF CurrentAt, HeldBack
  <2>2. CASE m \in Elements(puts[d]) /\ unacked[d] # {}
    <3>1. putsToAck'[d] = Append(putsToAck[d], m)
      BY <2>2, <1>8
    <3>2. Elements(putsToAck'[d]) = Elements(putsToAck[d]) \cup {m}
      BY SMTT(30), <3>1, <1>3, <1>4, ElementsAppend
    <3>3. listens[d] # {}
      BY <2>2, <1>0 DEF CurrentAt, ListensOK
    <3>4. m \notin Elements(putsToAck[d])
      BY <2>1, <2>2
    <3>5. Distinct(putsToAck'[d])
      <4>1. /\ Len(putsToAck[d]) \in Nat /\ Len(putsToAck'[d]) = Len(putsToAck[d]) + 1
            /\ \A k \in 1..Len(putsToAck[d]) : putsToAck'[d][k] = putsToAck[d][k]
            /\ putsToAck'[d][Len(putsToAck[d]) + 1] = m
            /\ \A k \in 1..(Len(putsToAck[d]) + 1) :
                  k \in 1..Len(putsToAck[d]) \/ k = Len(putsToAck[d]) + 1
        BY SMTT(30), <3>1, <1>3, <1>4, AppendFacts
      <4>2. \A k \in 1..Len(putsToAck[d]) : putsToAck[d][k] # m
        BY SMTT(30), <3>4, <1>4, ElementsOfSeq
      <4> QED
        BY <2>1, <4>1, <4>2 DEF Distinct
    <3> QED
      BY <2>1, <2>2, <3>2, <3>3, <3>5, <1>1, <1>5, <1>6, <1>7 DEF HeldBack
  <2>3. CASE ~(m \in Elements(puts[d]) /\ unacked[d] # {})
    BY <2>1, <2>3, <1>1, <1>6, <1>7, <1>8 DEF HeldBack
  <2> QED
    BY <2>2, <2>3
<1>14. ViewsShown(d)'
  <2> SUFFICES ASSUME NEW i \in 1..Len(tables[d]), observers[d][i] \in loaded[d]
               PROVE  ShownOK(events'[d], tables[d][i].message,
                              View(d, observers[d][i])', i)
    BY <1>1 DEF ViewsShown
  <2> DEFINE x == observers[d][i]
             shown == tables[d][i].message
  <2>0. i \in 1..Len(observers[d]) /\ x \in Nodes
    BY <1>4
  <2>1. ShownOK(events[d], shown, View(d, x), i)
    BY <1>0 DEF CurrentAt, ViewsShown
  <2>2. CASE m \in Elements(puts[d]) /\ unacked[d] = {}
    <3>1. View(d, x)' = cache[d][x] \cup At(x, others)
      BY <2>2, <1>1, <1>7, <1>8 DEF View, Pending
    <3>2. /\ <<m>> \in Seq(Genuine) /\ Elements(<<m>>) = {m} /\ Distinct(<<m>>)
      BY SMTT(30), <1>3 DEF Elements, Distinct
    <3>3. View(d, x) = cache[d][x] \cup At(x, others \cup Elements(<<m>>))
      BY <2>2, <3>2, <1>6 DEF View, Pending, At
    <3>4. others \in SUBSET Genuine
      BY <1>4, <1>6, ElementsOfSeq
    <3>5. \A y \in Nodes : cache[d][y] \subseteq GenuineAt(y)
      BY DEF OwnInv, CacheGenuine
    <3> HIDE DEF others
    <3>6. ShownOK(events[d] \o acks, shown, cache[d][x] \cup At(x, others), i)
      BY <2>0, <2>1, <3>2, <3>3, <3>4, <3>5, <1>4, ShownAcks DEF acks
    <3> QED
      BY <2>2, <3>1, <3>6, <1>8
  <2>3. CASE ~(m \in Elements(puts[d]) /\ unacked[d] = {})
    <3>1. Pending(d)' = Pending(d)
      <4>1. CASE m \in Elements(puts[d])
        <5>1. Elements(putsToAck'[d]) = Elements(putsToAck[d]) \cup {m}
          BY SMTT(30), <2>3, <4>1, <1>3, <1>4, <1>8, ElementsAppend
        <5> QED
          BY <4>1, <5>1, <1>6, <1>7 DEF Pending
      <4>2. CASE m \notin Elements(puts[d])
        BY <4>2, <1>6, <1>7, <1>8 DEF Pending
      <4> QED
        BY <4>1, <4>2
    <3>2. View(d, x)' = View(d, x)
      BY <3>1, <1>1 DEF View
    <3> QED
      BY <2>1, <2>3, <3>2, <1>8
  <2> QED
    BY <2>2, <2>3
<1> QED
  BY <1>7, <1>10, <1>11, <1>12, <1>13, <1>14, CurrentElsewhere DEF CurrentInv, CurrentAt

LEMMA CurrentConnect ==
    ASSUME OwnInv, OrderInv, CurrentInv, NEW d \in Devices, Connect(d)
    PROVE  CurrentInv'
<1>0. CurrentAt(d)
  BY DEF CurrentInv
<1>1. /\ ~conn[d] /\ conn' = [conn EXCEPT ![d] = TRUE]
      /\ unacked' = [unacked EXCEPT ![d] = listens[d]]
      /\ up' = [up EXCEPT ![d] = puts[d]]
      /\ UNCHANGED <<server, heard, listens, puts, putsToAck, down, cache, loaded,
                     observers, events, tables, sent>>
  BY DEF Connect, Reconnect, appVars
<1>2. /\ conn'[d] /\ unacked'[d] = listens[d] /\ up'[d] = puts[d]
      /\ \A e \in Devices : e # d => Same(e)
  BY <1>1 DEF OwnInv, Typed, Same
<1>3. heard[d] = {}
  BY <1>0, <1>1 DEF CurrentAt, ListensOK
<1>4. DataUnderWay(d)'
  <2> SUFFICES ASSUME NEW x \in Nodes
               PROVE  DataOK(down[d], server, cache[d][x], heard[d], unacked'[d], x)
    BY <1>1 DEF DataUnderWay
  <2>1. DataOK(down[d], server, cache[d][x], heard[d], unacked[d], x)
    BY <1>0 DEF CurrentAt, DataUnderWay
  <2> QED
    BY <2>1, <1>3, DataSame
<1>5. ListensOK(d)'
  BY <1>0, <1>1, <1>2, <1>3 DEF CurrentAt, ListensOK
<1>6. PutsAnswered(d)'
  BY <1>1, <1>2 DEF PutsAnswered, Answered
<1>7. HeldBack(d)'
  BY <1>0, <1>1, <1>2 DEF CurrentAt, HeldBack
<1>8. ViewsShown(d)'
  BY <1>0, <1>1, ShownFrame DEF CurrentAt
<1> QED
  BY <1>2, <1>4, <1>5, <1>6, <1>7, <1>8, CurrentElsewhere DEF CurrentInv, CurrentAt

LEMMA CurrentDrop ==
    ASSUME OwnInv, OrderInv, CurrentInv, NEW d \in Devices, Drop(d)
    PROVE  CurrentInv'
<1>0. CurrentAt(d)
  BY DEF CurrentInv
<1>1. /\ conn' = [conn EXCEPT ![d] = FALSE] /\ unacked' = [unacked EXCEPT ![d] = {}]
      /\ heard' = [heard EXCEPT ![d] = {}] /\ up' = [up EXCEPT ![d] = <<>>]
      /\ down' = [down EXCEPT ![d] = <<>>]
      /\ UNCHANGED <<server, listens, puts, putsToAck, cache, loaded, observers,
                     events, tables, sent>>
  BY DEF Drop, Disconnect
<1>2. /\ ~conn'[d] /\ unacked'[d] = {} /\ heard'[d] = {} /\ down'[d] = <<>>
      /\ \A e \in Devices : e # d => Same(e)
  BY <1>1 DEF OwnInv, Typed, Same
<1>3. DataUnderWay(d)'
  <2> SUFFICES ASSUME NEW x \in Nodes
               PROVE  DataOK(<<>>, server, cache[d][x], {}, {}, x)
    BY <1>1, <1>2 DEF DataUnderWay
  <2>1. cache[d][x] \subseteq server
    BY <1>0 DEF CurrentAt, DataUnderWay, DataOK
  <2> QED
    BY <2>1, DataNone
<1>4. ListensOK(d)'
  BY <1>0, <1>1, <1>2 DEF CurrentAt, ListensOK
<1>5. PutsAnswered(d)'
  BY <1>2 DEF PutsAnswered
<1>6. HeldBack(d)'
  BY <1>0, <1>1, <1>2 DEF CurrentAt, HeldBack
<1>7. ViewsShown(d)'
  BY <1>0, <1>1, ShownFrame DEF CurrentAt
<1> QED
  BY <1>2, <1>3, <1>4, <1>5, <1>6, <1>7, CurrentElsewhere DEF CurrentInv, CurrentAt

LEMMA CurrentKill ==
    ASSUME OwnInv, OrderInv, CurrentInv, NEW d \in Devices, Kill(d)
    PROVE  CurrentInv'
<1>1. Restart(d) /\ tables' = [tables EXCEPT ![d] = <<>>] /\ UNCHANGED sent
  BY DEF Kill
<1>2. /\ server' = server /\ ~conn'[d] /\ unacked'[d] = {} /\ heard'[d] = {}
      /\ down'[d] = <<>> /\ listens'[d] = {} /\ putsToAck'[d] = <<>>
      /\ observers'[d] = <<>> /\ tables'[d] = <<>>
      /\ \A x \in Nodes : cache'[d][x] = {}
  BY <1>1 DEF Restart, OwnInv, Typed
<1>3. \A e \in Devices : e # d => Same(e)
  BY <1>1 DEF Restart, OwnInv, Typed, Same
<1>4. DataUnderWay(d)'
  BY <1>2, DataNone DEF DataUnderWay
<1>5. ListensOK(d)' /\ PutsAnswered(d)'
  <2>1. \A i \in 1..Len(observers'[d]) : observers'[d][i] \in listens'[d] \cup Unreadable
    BY SMTT(30), <1>2
  <2>2. ListensOK(d)'
    BY <2>1, <1>2 DEF ListensOK
  <2>3. PutsAnswered(d)'
    BY <1>2 DEF PutsAnswered
  <2> QED
    BY <2>2, <2>3
<1>6. HeldBack(d)' /\ ViewsShown(d)'
  BY SMTT(30), <1>2, ElementsEmpty DEF HeldBack, ViewsShown, Distinct
<1> QED
  BY <1>3, <1>4, <1>5, <1>6, CurrentElsewhere DEF CurrentInv, CurrentAt

LEMMA CurrentStep == OwnInv /\ OrderInv /\ CurrentInv /\ [Next]_vars => CurrentInv'
<1> SUFFICES ASSUME OwnInv, OrderInv, CurrentInv, [Next]_vars PROVE CurrentInv'
  OBVIOUS
<1>1. CASE UNCHANGED vars
  BY <1>1, CurrentUnchanged DEF vars, appVars
<1>2. ASSUME NEW d \in Devices, UserStep(d) PROVE CurrentInv'
  <2>1. CASE \E r \in Users : OpenChat(d, r)
    BY <2>1, CurrentOpenChat
  <2>2. CASE tappedOnBackButton(d)
    BY <2>2, CurrentUnchanged DEF tappedOnBackButton
  <2>3. CASE SendText(d)
    <3>1. screen[d] \in Users /\ sendMessage(d, screen[d])
      BY <2>3 DEF SendText, OwnInv, Typed
    <3> QED
      BY <3>1, CurrentSend
  <2>4. CASE SendVoice(d)
    <3>1. PICK i \in DOMAIN tables[d] : sendMessage(d, tables[d][i].partner)
      BY <2>4 DEF SendVoice
    <3>2. tables[d] \in Seq(Table)
      BY DeviceTypes
    <3>3. i \in 1..Len(tables[d])
      BY <3>2, SeqFacts
    <3>4. tables[d][i] \in Table
      BY <3>2, <3>3, SeqFacts
    <3>5. tables[d][i].partner \in Users
      BY <3>4 DEF Table
    <3> QED
      BY <3>1, <3>5, CurrentSend
  <2> QED
    BY <1>2, <2>1, <2>2, <2>3, <2>4 DEF UserStep
<1>3. ASSUME NEW d \in Devices, SystemStep(d) PROVE CurrentInv'
  <2>1. CASE Receive(d)
    BY <2>1, CurrentReceiveSnap, CurrentReceiveRefusal, CurrentReceiveChild,
       CurrentReceiveAck DEF Receive
  <2>2. CASE HandleListen(d)
    BY <2>2, CurrentServerListen, CurrentServerRefuse DEF HandleListen
  <2> QED
    BY <1>3, <2>1, <2>2, CurrentReceiveMessage, CurrentSkipEvent, CurrentHandlePut,
       CurrentConnect DEF SystemStep
<1> QED
  BY <1>1, <1>2, <1>3, CurrentDrop, CurrentKill DEF Next

\* CurrentInv is inductive relative to OwnInv and OrderInv: through losses of the
\* connection and ends of processes, whatever a table lacks is still under way.
THEOREM CurrentInvariant == Spec => []CurrentInv
BY OwnInvariant, OrderInvariant, CurrentInit, CurrentStep, PTL DEF Spec

\* A device at rest, connected with nothing in flight and nothing queued, shows
\* in every table it may read exactly what the server stores and waits for no
\* answer (restoreState, maybeAddValue, sendListen, ackPuts, receiveMessage).
THEOREM RestIsCurrent == Spec => []IdleIsCurrent
<1>1. OwnInv /\ CurrentInv => IdleIsCurrent
  <2> SUFFICES ASSUME OwnInv, CurrentInv, NEW d \in Devices, Idle(d)
               PROVE  Pending(d) = {} /\ \A i \in Readable(d) : Current(d, i)
    BY DEF IdleIsCurrent
  <2>1. /\ CurrentAt(d) /\ conn[d] /\ unacked[d] = {}
        /\ up[d] = <<>> /\ down[d] = <<>> /\ events[d] = <<>>
    BY DEF CurrentInv, Idle
  <2>2. Pending(d) = {}
    <3>1. Elements(puts[d]) = {}
      BY SMTT(30), <2>1, ElementsEmpty DEF CurrentAt, PutsAnswered, Answered
    <3>2. putsToAck[d] = <<>>
      BY <2>1 DEF CurrentAt, HeldBack
    <3> QED
      BY <3>1, <3>2, ElementsEmpty DEF Pending
  <2>3. ASSUME NEW i \in Readable(d) PROVE Current(d, i)
    <3> DEFINE n == observers[d][i]
    <3>1. /\ i \in 1..Len(tables[d]) /\ i \in 1..Len(observers[d]) /\ n \in Nodes
          /\ n = TableNode(d, i) /\ n \notin Unreadable
      <4>1. /\ tables[d] \in Seq(Table) /\ Len(tables[d]) = Len(observers[d])
            /\ \A k \in 1..Len(observers[d]) : observers[d][k] \in Nodes
        BY DeviceTypes
      <4>2. i \in 1..Len(tables[d]) /\ TableNode(d, i) \notin Unreadable
        BY <4>1, SeqFacts DEF Readable
      <4> QED
        BY <4>1, <4>2 DEF OwnInv, TablesRegistered, TableNode
    <3>2. n \in heard[d] /\ n \in loaded[d]
      BY <2>1, <3>1 DEF CurrentAt, ListensOK
    <3>3. tables[d][i].message = View(d, n)
      BY SMTT(30), <2>1, <3>1, <3>2 DEF CurrentAt, ViewsShown, ShownOK
    <3>4. View(d, n) = cache[d][n]
      BY <2>2 DEF View, At
    <3>5. DataOK(<<>>, server, cache[d][n], heard[d], {}, n)
      BY <2>1, <3>1 DEF CurrentAt, DataUnderWay
    <3> HIDE DEF n
    <3>6. cache[d][n] \subseteq server /\ At(n, server) \subseteq cache[d][n]
      <4>1. cache[d][n] \subseteq server
        BY <3>5 DEF DataOK
      <4>2. \A m \in At(n, server) : m \in cache[d][n]
        BY SMTT(30), <3>2, <3>5 DEF DataOK
      <4> QED
        BY <4>1, <4>2
    <3>7. cache[d][n] \subseteq At(n, server)
      <4>1. cache[d][n] \subseteq GenuineAt(n)
        BY <3>1 DEF OwnInv, CacheGenuine
      <4> QED
        BY <4>1, <3>6 DEF GenuineAt, At
    <3>8. cache[d][n] = At(n, server)
      BY <3>6, <3>7
    <3> QED
      BY <3>1, <3>3, <3>4, <3>8 DEF Current
  <2> QED
    BY <2>2, <2>3
<1> QED
  BY <1>1, OwnInvariant, CurrentInvariant, PTL

-----------------------------------------------------------------------------
(* A message stays in the views while it is not lost.                      *)

\* A client that hears of m's node (h) has m in its cache (c) of the node, or will
\* have it before response k of q is handled, or with the answer to a listen.
Reaches(q, c, h, m, k) ==
    m.node \in h =>
        \/ m \in c
        \/ \E j \in 1..Len(q) : /\ IsData(q[j], m.node) /\ m \in q[j].data
                                /\ j < k \/ q[j].kind = "snap"

\* The answer to a listen takes nothing from the cache.
SnapsGrow(q, C) ==
    \A k \in 1..Len(q) : q[k].kind = "snap" => C[q[k].node] \subseteq q[k].data

\* A message whose acknowledgement is under way (q) or held back (p) is lost (L),
\* or its data comes first.
AcksFollow(q, C, h, L) ==
    \A k \in 1..Len(q) : q[k].kind = "ack" =>
        \A m \in q[k].data : m \in L \/ Reaches(q, C[m.node], h, m, k)

HeldFollow(q, C, h, L, S, p) ==
    \A m \in Elements(p) :
        m \in L \/ (m \in S /\ Reaches(q, C[m.node], h, m, 0))

Follow(q, C, h, L, S, p) ==
    SnapsGrow(q, C) /\ AcksFollow(q, C, h, L) /\ HeldFollow(q, C, h, L, S, p)

VisibleAt(d) ==
    /\ loaded[d] \subseteq listens[d]
    /\ Follow(down[d], cache[d], heard[d], lost, server, putsToAck[d])

VisibleInv == \A d \in Devices : VisibleAt(d)

LEMMA ReachesAppend ==
    ASSUME NEW R, NEW q \in Seq(R), NEW x \in R, NEW c, NEW h, NEW m, NEW k \in Int,
           Reaches(q, c, h, m, k)
    PROVE  Reaches(Append(q, x), c, h, m, k)
<1>1. /\ Len(Append(q, x)) = Len(q) + 1
      /\ \A j \in 1..Len(q) : j \in 1..(Len(q) + 1) /\ Append(q, x)[j] = q[j]
  BY SMTT(30), AppendFacts
<1> QED
  BY <1>1 DEF Reaches

\* The node is heard of from now on: the answer holds what the server stores.
LEMMA ReachesListened ==
    ASSUME NEW R, NEW q \in Seq(R), NEW x \in R, NEW c, NEW h, NEW m, NEW k \in Int,
           NEW n, NEW S, x.kind = "snap", x.node = n, x.data = At(n, S), m \in S,
           Reaches(q, c, h, m, k)
    PROVE  Reaches(Append(q, x), c, h \cup {n}, m, k)
<1>1. /\ Len(Append(q, x)) = Len(q) + 1
      /\ Append(q, x)[Len(q) + 1] = x /\ Len(q) + 1 \in 1..(Len(q) + 1)
  BY SMTT(30), AppendFacts
<1>2. CASE m.node = n
  <2>1. IsData(x, m.node) /\ m \in x.data
    BY <1>2 DEF IsData, At
  <2> QED
    BY <1>1, <2>1 DEF Reaches
<1>3. CASE m.node # n
  <2>1. Reaches(Append(q, x), c, h, m, k)
    BY ReachesAppend
  <2> QED
    BY <1>3, <2>1 DEF Reaches
<1> QED
  BY <1>2, <1>3

\* The first response is handled: its data is in the cache (c2).
LEMMA ReachesTail ==
    ASSUME NEW R, NEW q \in Seq(R), q # <<>>, NEW c, NEW c2, NEW h, NEW m,
           NEW k \in Int, NEW k2 \in Int, k - 1 <= k2, c \subseteq c2,
           IsData(q[1], m.node) => q[1].data \subseteq c2,
           Reaches(q, c, h, m, k)
    PROVE  Reaches(Tail(q), c2, h, m, k2)
<1> SUFFICES ASSUME m.node \in h, m \notin c2
             PROVE  \E j \in 1..Len(Tail(q)) :
                       /\ IsData(Tail(q)[j], m.node) /\ m \in Tail(q)[j].data
                       /\ j < k2 \/ Tail(q)[j].kind = "snap"
  BY DEF Reaches
<1>1. /\ Len(q) \in Nat /\ Len(Tail(q)) = Len(q) - 1
      /\ \A j \in 1..Len(q) : j # 1 =>
            j - 1 \in 1..(Len(q) - 1) /\ Tail(q)[j - 1] = q[j]
  BY TailFacts
<1>2. PICK j \in 1..Len(q) : /\ IsData(q[j], m.node) /\ m \in q[j].data
                             /\ j < k \/ q[j].kind = "snap"
  BY DEF Reaches
<1>3. j # 1
  BY <1>2
<1>4. j - 1 < k2 \/ q[j].kind = "snap"
  BY SMTT(30), <1>1, <1>2
<1>5. j - 1 \in 1..Len(Tail(q)) /\ Tail(q)[j - 1] = q[j]
  BY <1>1, <1>3
<1> QED
  BY <1>2, <1>4, <1>5

LEMMA FollowMore ==
    ASSUME NEW q, NEW C, NEW h, NEW L, NEW L2, NEW S, NEW S2, NEW p,
           L \subseteq L2, S \subseteq S2, Follow(q, C, h, L, S, p)
    PROVE  Follow(q, C, h, L2, S2, p)
BY DEF Follow, AcksFollow, HeldFollow

\* x may be sent after q.
MayFollow(q, x, C, h, L) ==
    /\ x.kind # "snap"
    /\ x.kind = "ack" => \A m \in x.data :
          m \in L \/ Reaches(q, C[m.node], h, m, Len(q) + 1)

\* Data or an acknowledgement is sent.
LEMMA FollowAppend ==
    ASSUME NEW R, NEW q \in Seq(R), NEW x \in R, NEW C, NEW h, NEW L, NEW S, NEW p,
           MayFollow(q, x, C, h, L), Follow(q, C, h, L, S, p)
    PROVE  Follow(Append(q, x), C, h, L, S, p)
<1>1. /\ Len(q) \in Nat /\ Len(Append(q, x)) = Len(q) + 1
      /\ \A j \in 1..Len(q) : Append(q, x)[j] = q[j]
      /\ Append(q, x)[Len(q) + 1] = x
      /\ \A j \in 1..(Len(q) + 1) : j \in 1..Len(q) \/ j = Len(q) + 1
  BY SMTT(30), AppendFacts
<1>2. SnapsGrow(Append(q, x), C)
  BY <1>1 DEF Follow, SnapsGrow, MayFollow
<1>3. AcksFollow(Append(q, x), C, h, L)
  <2> SUFFICES ASSUME NEW k \in 1..(Len(q) + 1), Append(q, x)[k].kind = "ack",
                      NEW m \in Append(q, x)[k].data, m \notin L
               PROVE  Reaches(Append(q, x), C[m.node], h, m, k)
    BY <1>1 DEF AcksFollow
  <2>1. k \in Int
    BY SMTT(30)
  <2>2. Reaches(q, C[m.node], h, m, k)
    BY <1>1 DEF Follow, AcksFollow, MayFollow
  <2> QED
    BY <2>1, <2>2, ReachesAppend
<1>4. HeldFollow(Append(q, x), C, h, L, S, p)
  <2>1. 0 \in Int
    BY SMTT(30)
  <2> QED
    BY <2>1, ReachesAppend DEF Follow, HeldFollow
<1> QED
  BY <1>2, <1>3, <1>4 DEF Follow

\* A listen is answered.
LEMMA FollowListened ==
    ASSUME NEW R, NEW q \in Seq(R), NEW x \in R, NEW C, NEW h, NEW L, NEW S, NEW p,
           NEW n, x.kind = "snap", x.node = n, x.data = At(n, S), C[n] \subseteq At(n, S),
           \A k \in 1..Len(q) : q[k].kind = "ack" => q[k].data \subseteq S \cup L,
           Follow(q, C, h, L, S, p)
    PROVE  Follow(Append(q, x), C, h \cup {n}, L, S, p)
<1>1. /\ Len(q) \in Nat /\ Len(Append(q, x)) = Len(q) + 1
      /\ \A j \in 1..Len(q) : Append(q, x)[j] = q[j]
      /\ Append(q, x)[Len(q) + 1] = x
      /\ \A j \in 1..(Len(q) + 1) : j \in 1..Len(q) \/ j = Len(q) + 1
  BY SMTT(30), AppendFacts
<1>2. SnapsGrow(Append(q, x), C)
  BY <1>1 DEF Follow, SnapsGrow
<1>3. AcksFollow(Append(q, x), C, h \cup {n}, L)
  <2> SUFFICES ASSUME NEW k \in 1..(Len(q) + 1), Append(q, x)[k].kind = "ack",
                      NEW m \in Append(q, x)[k].data, m \notin L
               PROVE  Reaches(Append(q, x), C[m.node], h \cup {n}, m, k)
    BY <1>1 DEF AcksFollow
  <2>1. k \in Int
    BY SMTT(30)
  <2>2. k \in 1..Len(q) /\ Append(q, x)[k] = q[k]
    BY <1>1
  <2>3. Reaches(q, C[m.node], h, m, k) /\ m \in S
    BY <2>2 DEF Follow, AcksFollow
  <2> QED
    BY <2>1, <2>3, ReachesListened
<1>4. HeldFollow(Append(q, x), C, h \cup {n}, L, S, p)
  <2>1. 0 \in Int
    BY SMTT(30)
  <2> QED
    BY <2>1, ReachesListened DEF Follow, HeldFollow
<1> QED
  BY <1>2, <1>3, <1>4 DEF Follow

\* The first response of q is taken into the cache, C before and C2 after.
Taken(q, C, C2, p) ==
    /\ \A n \in Nodes : C[n] \subseteq C2[n]
    /\ \A n \in Nodes : IsData(q[1], n) => q[1].data \subseteq C2[n]
    /\ \A k \in 1..Len(q) : k # 1 /\ q[k].kind = "snap" => C2[q[k].node] = C[q[k].node]
    /\ \A k \in 1..Len(q) : \A m \in q[k].data : m.node \in Nodes
    /\ \A m \in Elements(p) : m.node \in Nodes

LEMMA FollowTail ==
    ASSUME NEW R, NEW q \in Seq(R), q # <<>>, NEW C, NEW C2, NEW h, NEW L, NEW S, NEW p,
           Taken(q, C, C2, p), Follow(q, C, h, L, S, p)
    PROVE  Follow(Tail(q), C2, h, L, S, p)
<1>1. /\ Len(q) \in Nat /\ Len(Tail(q)) = Len(q) - 1
      /\ \A k \in 1..(Len(q) - 1) : k + 1 \in 1..Len(q) /\ Tail(q)[k] = q[k + 1]
  BY TailFacts
<1>2. SnapsGrow(Tail(q), C2)
  <2> SUFFICES ASSUME NEW k \in 1..(Len(q) - 1), Tail(q)[k].kind = "snap"
               PROVE  C2[Tail(q)[k].node] \subseteq Tail(q)[k].data
    BY <1>1 DEF SnapsGrow
  <2>1. k + 1 \in 1..Len(q) /\ Tail(q)[k] = q[k + 1]
    BY <1>1
  <2>2. k + 1 # 1
    BY SMTT(30)
  <2> QED
    BY <2>1, <2>2 DEF Follow, SnapsGrow, Taken
<1>3. AcksFollow(Tail(q), C2, h, L)
  <2> SUFFICES ASSUME NEW k \in 1..(Len(q) - 1), Tail(q)[k].kind = "ack",
                      NEW m \in Tail(q)[k].data, m \notin L
               PROVE  Reaches(Tail(q), C2[m.node], h, m, k)
    BY <1>1 DEF AcksFollow
  <2>1. k + 1 \in 1..Len(q) /\ Tail(q)[k] = q[k + 1]
    BY <1>1
  <2>2. k \in Int /\ k + 1 \in Int /\ (k + 1) - 1 <= k
    BY SMTT(30)
  <2>3. Reaches(q, C[m.node], h, m, k + 1) /\ m.node \in Nodes
    BY <2>1 DEF Follow, AcksFollow, Taken
  <2> QED
    BY <2>2, <2>3, ReachesTail DEF Taken
<1>4. HeldFollow(Tail(q), C2, h, L, S, p)
  <2>1. 0 \in Int /\ 0 - 1 <= 0
    BY SMTT(30)
  <2> QED
    BY <2>1, ReachesTail DEF Follow, HeldFollow, Taken
<1> QED
  BY <1>2, <1>3, <1>4 DEF Follow

\* No message leaves a view of device d that stays initialised, unless it is lost.
Keeps(d) ==
    \A n \in loaded[d] : n \in loaded'[d] => View(d, n) \ lost' \subseteq View(d, n)'

\* What VisibleAt says of device e is not disturbed.
Calm(e) ==
    /\ server \subseteq server' /\ lost \subseteq lost' /\ heard'[e] = heard[e]
    /\ down'[e] = down[e] /\ cache'[e] = cache[e] /\ loaded'[e] = loaded[e]
    /\ listens[e] \subseteq listens'[e] /\ putsToAck'[e] = putsToAck[e]

LEMMA VisibleElsewhere ==
    ASSUME NEW e \in Devices, VisibleAt(e), Calm(e)
    PROVE  VisibleAt(e)'
<1>1. loaded'[e] \subseteq listens'[e]
  BY DEF VisibleAt, Calm
<1>2. Follow(down'[e], cache'[e], heard'[e], lost', server', putsToAck'[e])
  BY FollowMore DEF VisibleAt, Calm
<1> QED
  BY <1>1, <1>2 DEF VisibleAt

LEMMA KeepsElsewhere ==
    ASSUME NEW e \in Devices, cache'[e] = cache[e],
           Elements(puts[e]) \subseteq Elements(puts'[e]), putsToAck'[e] = putsToAck[e]
    PROVE  Keeps(e)
BY DEF Keeps, View, Pending, At

\* A step that neither sends nor handles a response and ends no process.
LEMMA VisibleUnchanged ==
    ASSUME VisibleInv, server' = server, lost' = lost, heard' = heard, down' = down,
           cache' = cache, loaded' = loaded, puts' = puts, putsToAck' = putsToAck,
           \A e \in Devices : listens[e] \subseteq listens'[e]
    PROVE  VisibleInv' /\ \A e \in Devices : Keeps(e)
<1>1. \A e \in Devices : Calm(e)
  BY DEF Calm
<1>2. VisibleInv'
  BY <1>1, VisibleElsewhere DEF VisibleInv
<1>3. \A e \in Devices : Keeps(e)
  BY KeepsElsewhere
<1> QED
  BY <1>2, <1>3

LEMMA VisibleInit == Init => VisibleInv
<1> SUFFICES ASSUME Init, NEW d \in Devices PROVE VisibleAt(d)
  BY DEF VisibleInv
<1>1. /\ loaded[d] = {} /\ down[d] = <<>> /\ putsToAck[d] = <<>>
  BY DEF Init, DbInit
<1>2. Len(<<>>) = 0 /\ 1..0 = {}
  BY SMTT(30)
<1> QED
  BY <1>1, <1>2, ElementsEmpty DEF VisibleAt, Follow, SnapsGrow, AcksFollow, HeldFollow

LEMMA VisibleSend ==
    ASSUME OwnInv, VisibleInv, NEW d \in Devices, NEW r \in Users, sendMessage(d, r)
    PROVE  VisibleInv' /\ \A e \in Devices : Keeps(e)
<1>1. PICK m \in Genuine : Put(d, m)
  BY SentPut
<1>2. /\ puts' = [puts EXCEPT ![d] = Append(@, m)]
      /\ UNCHANGED <<server, heard, listens, putsToAck, down, cache, loaded, lost>>
  BY <1>1 DEF Put, sendMessage
<1>3. puts \in [Devices -> Seq(Genuine)]
  BY DEF OwnInv, Typed
<1>4. puts'[d] = Append(puts[d], m) /\ \A e \in Devices : e # d => puts'[e] = puts[e]
  BY <1>2, <1>3
<1>5. Elements(puts'[d]) = Elements(puts[d]) \cup {m}
  <2>1. puts[d] \in Seq(Genuine)
    BY <1>3
  <2>2. Elements(Append(puts[d], m)) = Elements(puts[d]) \cup {m}
    BY SMTT(30), <2>1, ElementsAppend
  <2> QED
    BY <1>4, <2>2
<1>6. \A e \in Devices : Calm(e) /\ Elements(puts[e]) \subseteq Elements(puts'[e])
  BY <1>2, <1>4, <1>5 DEF Calm
<1>7. VisibleInv'
  BY <1>6, VisibleElsewhere DEF VisibleInv
<1>8. \A e \in Devices : Keeps(e)
  BY <1>2, <1>6, KeepsElsewhere
<1> QED
  BY <1>7, <1>8

LEMMA VisibleOpenChat ==
    ASSUME OwnInv, VisibleInv, NEW d \in Devices, NEW r \in Users, OpenChat(d, r)
    PROVE  VisibleInv' /\ \A e \in Devices : Keeps(e)
<1> DEFINE n == createNode(Account[d], r)
<1>1. /\ listens' = [listens EXCEPT ![d] = @ \cup {n}]
      /\ UNCHANGED <<server, heard, putsToAck, puts, down, cache, loaded, lost>>
  BY DEF OpenChat, Observe
<1>2. \A e \in Devices : listens[e] \subseteq listens'[e]
  BY <1>1 DEF OwnInv, Typed
<1> QED
  BY <1>1, <1>2, VisibleUnchanged

LEMMA VisibleServerListen ==
    ASSUME OwnInv, OrderInv, CurrentInv, VisibleInv, NEW d \in Devices, NEW n \in Nodes,
           ServerListen(d, n), UNCHANGED appVars
    PROVE  VisibleInv' /\ \A e \in Devices : Keeps(e)
<1>0. VisibleAt(d) /\ DataUnderWay(d)
  BY DEF CurrentInv, CurrentAt, VisibleInv
<1> DEFINE r == [kind |-> "snap", node |-> n, data |-> At(n, server)]
<1>2. /\ n \notin Unreadable /\ heard' = [heard EXCEPT ![d] = @ \cup {n}]
      /\ down' = [down EXCEPT ![d] = Append(@, r)]
      /\ UNCHANGED <<server, listens, puts, putsToAck, cache, loaded, lost>>
  BY DEF ServerListen, appVars
<1>3. r \in GenuineResponse /\ r.kind = "snap" /\ r.node = n /\ r.data = At(n, server)
  <2>1. At(n, server) \subseteq GenuineAt(n) /\ At(n, server) \in SUBSET Message
    BY GenuineFacts DEF OwnInv, Typed
  <2> QED
    BY <2>1, <1>2 DEF GenuineResponse, Response
<1> HIDE DEF r
<1>4. /\ heard'[d] = heard[d] \cup {n} /\ down'[d] = Append(down[d], r)
      /\ \A e \in Devices : e # d => Calm(e)
  BY <1>2 DEF OwnInv, Typed, Calm
<1>5. down[d] \in Seq(GenuineResponse)
  BY DeviceTypes
<1>6. cache[d][n] \subseteq At(n, server)
  <2>1. cache[d][n] \subseteq server
    BY <1>0 DEF DataUnderWay, DataOK
  <2> QED
    BY <2>1 DEF OwnInv, CacheGenuine, GenuineAt, At
<1>7. \A k \in 1..Len(down[d]) : down[d][k].kind = "ack" =>
          down[d][k].data \subseteq server \cup lost
  BY DEF OrderInv, AcksAreResolved
<1>8. Follow(Append(down[d], r), cache[d], heard[d] \cup {n}, lost, server, putsToAck[d])
  BY <1>0, <1>3, <1>5, <1>6, <1>7, FollowListened DEF VisibleAt
<1>9. VisibleAt(d)'
  BY <1>0, <1>2, <1>4, <1>8 DEF VisibleAt
<1>10. \A e \in Devices : Keeps(e)
  BY <1>2, KeepsElsewhere
<1> QED
  BY <1>4, <1>9, <1>10, VisibleElsewhere DEF VisibleInv

LEMMA VisibleServerRefuse ==
    ASSUME OwnInv, VisibleInv, NEW d \in Devices, NEW n \in Nodes,
           ServerRefuse(d, n), UNCHANGED appVars
    PROVE  VisibleInv' /\ \A e \in Devices : Keeps(e)
<1> DEFINE r == Refusal(n)
<1>0. VisibleAt(d)
  BY DEF VisibleInv
<1>1. /\ n \in Unreadable /\ down' = [down EXCEPT ![d] = Append(@, r)]
      /\ UNCHANGED <<server, heard, listens, puts, putsToAck, cache, loaded, lost>>
  BY DEF ServerRefuse, appVars
<1>2. r \in GenuineResponse /\ r.kind = "refused"
  BY <1>1, RefusalGenuine
<1> HIDE DEF r
<1>3. down'[d] = Append(down[d], r) /\ \A e \in Devices : e # d => Calm(e)
  BY <1>1 DEF OwnInv, Typed, Calm
<1>4. MayFollow(down[d], r, cache[d], heard[d], lost) /\ down[d] \in Seq(GenuineResponse)
  BY <1>2, DeviceTypes DEF MayFollow
<1>5. VisibleAt(d)'
  BY <1>0, <1>1, <1>2, <1>3, <1>4, FollowAppend DEF VisibleAt
<1>6. \A e \in Devices : Keeps(e)
  BY <1>1, KeepsElsewhere
<1> QED
  BY <1>3, <1>5, <1>6, VisibleElsewhere DEF VisibleInv

\* The data of a put goes to a device that hears of its node, and precedes the
\* acknowledgement.
LEMMA VisiblePushed ==
    ASSUME OwnInv, NEW e \in Devices, VisibleAt(e), NEW m \in Genuine, NEW L, NEW S,
           lost \subseteq L, server \subseteq S
    PROVE  /\ Push(e, m) \in Seq(GenuineResponse)
           /\ Follow(Push(e, m), cache[e], heard[e], L, S, putsToAck[e])
           /\ Reaches(Push(e, m), cache[e][m.node], heard[e], m, Len(Push(e, m)) + 1)
<1> DEFINE r == [kind |-> "child", node |-> m.node, data |-> {m}]
<1>1. r \in GenuineResponse /\ r.kind = "child" /\ r.node = m.node /\ r.data = {m}
  BY ResponseGenuine
<1>2. Push(e, m) = IF m.node \in heard[e] THEN Append(down[e], r) ELSE down[e]
  BY DEF Push
<1>3. down[e] \in Seq(GenuineResponse)
  BY DeviceTypes
<1>4. Follow(down[e], cache[e], heard[e], L, S, putsToAck[e])
  BY FollowMore DEF VisibleAt
<1> HIDE DEF r
<1>5. CASE m.node \in heard[e]
  <2>1. Push(e, m) = Append(down[e], r) /\ Append(down[e], r) \in Seq(GenuineResponse)
    BY <1>1, <1>2, <1>3, <1>5, ElementsAppend
  <2>2. r.kind # "snap" /\ r.kind # "ack"
    BY <1>1
  <2>3. Follow(Append(down[e], r), cache[e], heard[e], L, S, putsToAck[e])
    <3>1. MayFollow(down[e], r, cache[e], heard[e], L)
      BY <2>2 DEF MayFollow
    <3> QED
      BY <3>1, <1>1, <1>3, <1>4, FollowAppend
  <2>4. /\ Len(Append(down[e], r)) = Len(down[e]) + 1 /\ Len(down[e]) \in Nat
        /\ Append(down[e], r)[Len(down[e]) + 1] = r
        /\ Len(down[e]) + 1 \in 1..(Len(down[e]) + 1)
    BY SMTT(30), <1>1, <1>3, AppendFacts
  <2>5. Len(down[e]) + 1 < Len(down[e]) + 1 + 1
    BY SMTT(30), <2>4
  <2>6. IsData(r, m.node) /\ m \in r.data
    BY <1>1, <2>2 DEF IsData
  <2>7. Reaches(Append(down[e], r), cache[e][m.node], heard[e], m, Len(down[e]) + 1 + 1)
    BY <2>4, <2>5, <2>6 DEF Reaches
  <2> QED
    BY <2>1, <2>3, <2>4, <2>7
<1>6. CASE m.node \notin heard[e]
  <2>1. Push(e, m) = down[e]
    BY <1>2, <1>6
  <2>2. Reaches(down[e], cache[e][m.node], heard[e], m, Len(down[e]) + 1)
    BY <1>6 DEF Reaches
  <2> QED
    BY <1>3, <1>4, <2>1, <2>2
<1> QED
  BY <1>5, <1>6

LEMMA VisibleHandlePut ==
    ASSUME OwnInv, OrderInv, CurrentInv, VisibleInv, NEW d \in Devices, HandlePut(d)
    PROVE  VisibleInv' /\ \A e \in Devices : Keeps(e)
<1> DEFINE m == Head(up[d])
<1>1. /\ up[d] # <<>>
      /\ IF m \in Denied \cup server
         THEN /\ down' = [down EXCEPT ![d] = Append(@, Ack(m))]
              /\ server' = server
         ELSE /\ server' = server \cup {m}
              /\ down' = [ e \in Devices |-> IF e = d THEN Append(Push(e, m), Ack(m))
                                                      ELSE Push(e, m) ]
      /\ lost' = IF m \in Denied THEN lost \cup {m} ELSE lost
      /\ UNCHANGED <<heard, listens, puts, putsToAck, cache, loaded>>
  BY DEF HandlePut, ServerPut
<1>2. m \in Genuine
  BY <1>1, HeadIsFirst
<1> HIDE DEF m
<1>3. m.node \in Nodes /\ lost \subseteq lost' /\ server \subseteq server'
  BY <1>1, <1>2, GenuineFacts
<1>4. /\ Ack(m) \in GenuineResponse /\ Ack(m).kind = "ack" /\ Ack(m).kind # "snap"
      /\ Ack(m).data = {m}
  BY <1>2, ResponseGenuine DEF Ack
<1>5. down[d] \in Seq(GenuineResponse) /\ VisibleAt(d) /\ DataUnderWay(d)
  BY DeviceTypes DEF CurrentInv, CurrentAt, VisibleInv
<1>6. \A e \in Devices : Keeps(e)
  BY <1>1, KeepsElsewhere
<1>7. CASE m \in Denied \cup server
  <2>1. /\ down'[d] = Append(down[d], Ack(m)) /\ server' = server
        /\ \A e \in Devices : e # d => Calm(e)
    BY <1>1, <1>3, <1>7 DEF OwnInv, Typed, Calm
  <2>2. m \in lost' \/ Reaches(down[d], cache[d][m.node], heard[d], m, Len(down[d]) + 1)
    <3> SUFFICES ASSUME m \in server, m.node \in heard[d], m \notin cache[d][m.node]
                 PROVE  \E j \in 1..Len(down[d]) :
                           /\ IsData(down[d][j], m.node) /\ m \in down[d][j].data
                           /\ j < Len(down[d]) + 1
      BY <1>1, <1>7 DEF Reaches
    <3>1. m \in At(m.node, server)
      BY DEF At
    <3>2. DataOK(down[d], server, cache[d][m.node], heard[d], unacked[d], m.node)
      BY <1>3, <1>5 DEF DataUnderWay
    <3>3. PICK j \in 1..Len(down[d]) : IsData(down[d][j], m.node) /\ m \in down[d][j].data
      BY <3>1, <3>2 DEF DataOK
    <3>4. Len(down[d]) \in Nat
      BY <1>5, SeqFacts
    <3>5. j < Len(down[d]) + 1
      BY SMTT(30), <3>4
    <3> QED
      BY <3>3, <3>5
  <2>3. Follow(Append(down[d], Ack(m)), cache[d], heard[d], lost', server', putsToAck[d])
    <3>1. MayFollow(down[d], Ack(m), cache[d], heard[d], lost')
      BY <2>2, <1>4 DEF MayFollow
    <3>2. Follow(down[d], cache[d], heard[d], lost', server', putsToAck[d])
      BY <1>3, <1>5, FollowMore DEF VisibleAt
    <3> QED
      BY <3>1, <3>2, <1>4, <1>5, FollowAppend
  <2>4. VisibleAt(d)'
    BY <2>1, <2>3, <1>1, <1>5 DEF VisibleAt
  <2> QED
    BY <2>1, <2>4, <1>6, VisibleElsewhere DEF VisibleInv
<1>8. CASE m \notin Denied \cup server
  <2>1. /\ down'[d] = Append(Push(d, m), Ack(m))
        /\ \A e \in Devices : e # d => down'[e] = Push(e, m)
    BY <1>1, <1>8
  <2>2. ASSUME NEW e \in Devices
        PROVE  /\ Push(e, m) \in Seq(GenuineResponse)
               /\ Follow(Push(e, m), cache[e], heard[e], lost', server', putsToAck[e])
               /\ Reaches(Push(e, m), cache[e][m.node], heard[e], m, Len(Push(e, m)) + 1)
    <3>1. VisibleAt(e)
      BY DEF VisibleInv
    <3> QED
      BY <3>1, <1>2, <1>3, VisiblePushed
  <2>3. Follow(Append(Push(d, m), Ack(m)), cache[d], heard[d], lost', server',
               putsToAck[d])
    <3>1. MayFollow(Push(d, m), Ack(m), cache[d], heard[d], lost')
      BY <2>2, <1>4 DEF MayFollow
    <3> QED
      BY <2>2, <3>1, <1>4, FollowAppend
  <2>4. VisibleAt(d)'
    BY <2>1, <2>3, <1>1, <1>5 DEF VisibleAt
  <2>5. \A e \in Devices : e # d => VisibleAt(e)'
    BY <2>1, <2>2, <1>1 DEF VisibleAt, VisibleInv
  <2> QED
    BY <2>4, <2>5, <1>6 DEF VisibleInv
<1> QED
  BY <1>7, <1>8

\* The answers to listens still under way are for other nodes.
LEMMA OtherSnaps ==
    ASSUME NEW d \in Devices, DataUnderWay(d), NEW n \in Nodes,
           IsData(down[d][1], n), 1 \in 1..Len(down[d])
    PROVE  /\ n \in heard[d]
           /\ \A k \in 1..Len(down[d]) :
                 k # 1 /\ down[d][k].kind = "snap" => down[d][k].node # n
<1>1. DataOK(down[d], server, cache[d][n], heard[d], unacked[d], n)
  BY DEF DataUnderWay
<1>2. n \in heard[d]
  BY <1>1 DEF DataOK
<1>3. ASSUME NEW k \in 1..Len(down[d]), k # 1, down[d][k].kind = "snap",
             down[d][k].node = n
      PROVE  FALSE
  <2>1. 1 < k
    BY SMTT(30), <1>3
  <2> QED
    BY <2>1, <1>1, <1>3 DEF DataOK
<1> QED
  BY <1>2, <1>3

\* The nodes of what is under way or held back.
LEMMA NodesUnderWay ==
    ASSUME OwnInv, NEW d \in Devices
    PROVE  /\ down[d] \in Seq(GenuineResponse)
           /\ \A k \in 1..Len(down[d]) :
                 down[d][k].node \in Nodes /\ \A m \in down[d][k].data : m.node \in Nodes
           /\ \A m \in Elements(putsToAck[d]) : m.node \in Nodes
<1>1. down[d] \in Seq(GenuineResponse) /\ putsToAck[d] \in Seq(Genuine)
  BY DeviceTypes
<1>2. \A k \in 1..Len(down[d]) : down[d][k] \in GenuineResponse
  BY <1>1, SeqFacts
<1>3. \A r \in GenuineResponse : r.node \in Nodes /\ \A m \in r.data : m.node \in Nodes
  BY GenuineFacts DEF GenuineResponse, Response
<1>4. \A m \in Elements(putsToAck[d]) : m \in Genuine
  BY <1>1, ElementsOfSeq
<1> QED
  BY <1>1, <1>2, <1>3, <1>4, GenuineFacts

LEMMA VisibleReceiveChild ==
    ASSUME OwnInv, CurrentInv, VisibleInv, NEW d \in Devices, ReceiveChild(d),
           UNCHANGED appVars
    PROVE  VisibleInv' /\ \A e \in Devices : Keeps(e)
<1> DEFINE n == Head(down[d]).node
           data == Head(down[d]).data
<1>0. VisibleAt(d) /\ DataUnderWay(d)
  BY DEF CurrentInv, CurrentAt, VisibleInv
<1>1. /\ down[d] # <<>> /\ Head(down[d]).kind = "child"
      /\ down' = [down EXCEPT ![d] = Tail(@)]
      /\ cache' = [cache EXCEPT ![d][n] = @ \cup data]
      /\ UNCHANGED <<server, heard, listens, puts, putsToAck, loaded, lost>>
  BY DEF ReceiveChild, Arrives, appVars
<1>2. n \in Nodes
  BY <1>1, Arrival
<1>3. /\ down[d] \in Seq(GenuineResponse)
      /\ \A k \in 1..Len(down[d]) :
            down[d][k].node \in Nodes /\ \A m \in down[d][k].data : m.node \in Nodes
      /\ \A m \in Elements(putsToAck[d]) : m.node \in Nodes
  BY NodesUnderWay
<1>4. 1 \in 1..Len(down[d]) /\ Head(down[d]) = down[d][1]
  BY <1>1, <1>3, TailFacts
<1>5. IsData(down[d][1], n) /\ \A x \in Nodes : IsData(down[d][1], x) => x = n
  BY <1>1, <1>4 DEF IsData
<1>6. data = down[d][1].data
  BY <1>4
<1> HIDE DEF n, data
<1>7. /\ down'[d] = Tail(down[d])
      /\ \A x \in Nodes : cache'[d][x] = IF x = n THEN cache[d][n] \cup data
                                         ELSE cache[d][x]
      /\ \A e \in Devices : e # d => Calm(e) /\ cache'[e] = cache[e]
  BY <1>1, <1>2 DEF OwnInv, Typed, Calm
<1>8. /\ \A x \in Nodes : cache[d][x] \subseteq cache'[d][x]
      /\ \A x \in Nodes : IsData(down[d][1], x) => down[d][1].data \subseteq cache'[d][x]
  BY <1>5, <1>6, <1>7
<1>9. \A k \in 1..Len(down[d]) : k # 1 /\ down[d][k].kind = "snap" =>
          cache'[d][down[d][k].node] = cache[d][down[d][k].node]
  BY <1>0, <1>2, <1>3, <1>4, <1>5, <1>7, OtherSnaps
<1>10. Follow(Tail(down[d]), cache'[d], heard[d], lost, server, putsToAck[d])
  <2>1. Taken(down[d], cache[d], cache'[d], putsToAck[d])
    BY <1>3, <1>8, <1>9 DEF Taken
  <2> QED
    BY <2>1, <1>0, <1>1, <1>3, FollowTail DEF VisibleAt
<1>11. VisibleAt(d)'
  BY <1>0, <1>1, <1>7, <1>10 DEF VisibleAt
<1>12. Keeps(d)
  <2>1. loaded[d] \subseteq Nodes
    BY DeviceTypes
  <2> QED
    BY <2>1, <1>1, <1>8 DEF Keeps, View, Pending
<1>13. \A e \in Devices : e # d => Keeps(e)
  BY <1>1, <1>7, KeepsElsewhere
<1> QED
  BY <1>7, <1>11, <1>12, <1>13, VisibleElsewhere DEF VisibleInv

LEMMA VisibleReceiveSnap ==
    ASSUME OwnInv, CurrentInv, VisibleInv, NEW d \in Devices, ReceiveSnap(d),
           UNCHANGED appVars
    PROVE  VisibleInv' /\ \A e \in Devices : Keeps(e)
<1> DEFINE n == Head(down[d]).node
           data == Head(down[d]).data
<1>0. VisibleAt(d) /\ DataUnderWay(d) /\ ListensOK(d)
  BY DEF CurrentInv, CurrentAt, VisibleInv
<1>1. /\ down[d] # <<>> /\ Head(down[d]).kind = "snap"
      /\ down' = [down EXCEPT ![d] = Tail(@)]
      /\ cache' = [cache EXCEPT ![d][n] = data]
      /\ loaded' = [loaded EXCEPT ![d] = @ \cup {n}]
      /\ IF unacked[d] \ {n} = {} THEN putsToAck' = [putsToAck EXCEPT ![d] = <<>>]
                                  ELSE putsToAck' = putsToAck
      /\ UNCHANGED <<server, heard, listens, puts, lost>>
  BY DEF ReceiveSnap, Arrives, appVars
<1>2. n \in Nodes
  BY <1>1, Arrival
<1>3. /\ down[d] \in Seq(GenuineResponse)
      /\ \A k \in 1..Len(down[d]) :
            down[d][k].node \in Nodes /\ \A m \in down[d][k].data : m.node \in Nodes
      /\ \A m \in Elements(putsToAck[d]) : m.node \in Nodes
  BY NodesUnderWay
<1>4. 1 \in 1..Len(down[d]) /\ Head(down[d]) = down[d][1]
  BY <1>1, <1>3, TailFacts
<1>5. IsData(down[d][1], n) /\ \A x \in Nodes : IsData(down[d][1], x) => x = n
  BY <1>1, <1>4 DEF IsData
<1>6. data = down[d][1].data /\ cache[d][n] \subseteq data
  BY <1>0, <1>1, <1>4 DEF VisibleAt, Follow, SnapsGrow
<1> HIDE DEF n, data
<1>7. /\ down'[d] = Tail(down[d]) /\ loaded'[d] = loaded[d] \cup {n}
      /\ \A x \in Nodes : cache'[d][x] = IF x = n THEN data ELSE cache[d][x]
      /\ putsToAck'[d] = IF unacked[d] \ {n} = {} THEN <<>> ELSE putsToAck[d]
  BY <1>1, <1>2 DEF OwnInv, Typed
<1>8. \A e \in Devices : e # d => /\ Calm(e) /\ cache'[e] = cache[e]
                                  /\ putsToAck'[e] = putsToAck[e]
  BY <1>1 DEF OwnInv, Typed, Calm
<1>9. /\ \A x \in Nodes : cache[d][x] \subseteq cache'[d][x]
      /\ \A x \in Nodes : IsData(down[d][1], x) => down[d][1].data \subseteq cache'[d][x]
  BY <1>5, <1>6, <1>7
<1>10. n \in heard[d] /\ \A k \in 1..Len(down[d]) :
           k # 1 /\ down[d][k].kind = "snap" => down[d][k].node # n
  BY <1>0, <1>2, <1>4, <1>5, OtherSnaps
<1>11. \A k \in 1..Len(down[d]) : k # 1 /\ down[d][k].kind = "snap" =>
           cache'[d][down[d][k].node] = cache[d][down[d][k].node]
  BY <1>3, <1>7, <1>10
<1>12. Follow(Tail(down[d]), cache'[d], heard[d], lost, server, putsToAck[d])
  <2>1. Taken(down[d], cache[d], cache'[d], putsToAck[d])
    BY <1>3, <1>9, <1>11 DEF Taken
  <2> QED
    BY <2>1, <1>0, <1>1, <1>3, FollowTail DEF VisibleAt
<1>13. VisibleAt(d)'
  <2>1. Follow(Tail(down[d]), cache'[d], heard[d], lost, server, putsToAck'[d])
    BY <1>7, <1>12, ElementsEmpty DEF Follow, HeldFollow
  <2>2. n \in listens[d]
    BY <1>0, <1>10 DEF ListensOK
  <2> QED
    BY <2>1, <2>2, <1>0, <1>1, <1>7, <1>12 DEF VisibleAt
<1>14. Keeps(d)
  <2>1. loaded[d] \subseteq Nodes /\ conn[d] \in BOOLEAN
    BY DeviceTypes
  <2>2. \A m \in Elements(putsToAck[d]) :
            unacked[d] \ {n} = {} /\ m.node \in loaded[d] /\ m \notin lost
                => m \in cache'[d][m.node]
    <3> SUFFICES ASSUME NEW m \in Elements(putsToAck[d]), unacked[d] \ {n} = {},
                        m.node \in loaded[d], m \notin lost
                 PROVE  m \in cache'[d][m.node]
      OBVIOUS
    <3>1. m.node \in Nodes /\ Reaches(down[d], cache[d][m.node], heard[d], m, 0)
      BY <2>1, <1>0 DEF VisibleAt, Follow, HeldFollow
    <3>2. m.node \in heard[d]
      <4>1. m.node \in listens[d] /\ conn[d]
        BY <1>0, <1>1 DEF VisibleAt, ListensOK
      <4>2. m.node \in unacked[d] \/ m.node \in heard[d]
        BY <4>1, <1>0 DEF ListensOK
      <4>3. m.node \in unacked[d] => m.node = n
        OBVIOUS
      <4> QED
        BY <4>2, <4>3, <1>10
    <3>3. CASE m \in cache[d][m.node]
      BY <3>1, <3>3, <1>9
    <3>4. CASE m \notin cache[d][m.node]
      <4>1. PICK j \in 1..Len(down[d]) :
                /\ IsData(down[d][j], m.node) /\ m \in down[d][j].data
                /\ j < 0 \/ down[d][j].kind = "snap"
        BY <3>1, <3>2, <3>4 DEF Reaches
      <4>2. down[d][j].kind = "snap" /\ down[d][j].node = m.node
        <5>1. ~(j < 0)
          BY SMTT(30)
        <5> QED
          BY <4>1, <5>1 DEF IsData
      <4>3. m.node \in unacked[d]
        BY <4>2, <3>1, <1>0 DEF DataUnderWay, DataOK
      <4>4. m.node = n
        BY <4>3
      <4>5. j = 1
        BY <4>2, <4>4, <1>10
      <4> QED
        BY <4>1, <4>4, <4>5, <1>2, <1>6, <1>7
    <3> QED
      BY <3>3, <3>4
  <2>3. ASSUME NEW x \in loaded[d], NEW m \in View(d, x), m \notin lost'
        PROVE  m \in View(d, x)'
    <3>1. x \in Nodes /\ m \notin lost
      BY <2>1, <2>3, <1>1
    <3>2. CASE m \in cache[d][x]
      BY <3>1, <3>2, <1>9 DEF View
    <3>3. CASE m \in At(x, Elements(puts[d]))
      BY <3>3, <1>1 DEF View, Pending, At
    <3>4. CASE m \in At(x, Elements(putsToAck[d]))
      <4>1. m \in Elements(putsToAck[d]) /\ m.node = x
        BY <3>4 DEF At
      <4>2. CASE unacked[d] \ {n} = {}
        BY <2>2, <3>1, <4>1, <4>2 DEF View
      <4>3. CASE unacked[d] \ {n} # {}
        BY <4>1, <4>3, <1>7 DEF View, Pending, At
      <4> QED
        BY <4>2, <4>3
    <3> QED
      BY <3>2, <3>3, <3>4 DEF View, Pending, At
  <2> QED
    BY <2>3 DEF Keeps
<1>15. \A e \in Devices : e # d => Keeps(e)
  BY <1>1, <1>8, KeepsElsewhere
<1> QED
  BY <1>8, <1>13, <1>14, <1>15, VisibleElsewhere DEF VisibleInv

LEMMA VisibleReceiveRefusal ==
    ASSUME OwnInv, CurrentInv, VisibleInv, NEW d \in Devices, ReceiveRefusal(d),
           UNCHANGED appVars
    PROVE  VisibleInv' /\ \A e \in Devices : Keeps(e)
<1> DEFINE n == Head(down[d]).node
<1>0. VisibleAt(d) /\ DataUnderWay(d) /\ ListensOK(d)
  BY DEF CurrentInv, CurrentAt, VisibleInv
<1>1. /\ down[d] # <<>> /\ Head(down[d]).kind = "refused"
      /\ down' = [down EXCEPT ![d] = Tail(@)]
      /\ listens' = [listens EXCEPT ![d] = @ \ {n}]
      /\ IF unacked[d] \ {n} = {} THEN putsToAck' = [putsToAck EXCEPT ![d] = <<>>]
                                  ELSE putsToAck' = putsToAck
      /\ UNCHANGED <<server, heard, cache, loaded, puts, lost>>
  BY DEF ReceiveRefusal, Arrives, appVars
<1>2. n \notin heard[d] /\ n \notin loaded[d]
  <2>1. n \in Unreadable
    BY <1>1, Arrival DEF GenuineResponse
  <2> QED
    BY <2>1, DeviceTypes
<1>3. /\ down[d] \in Seq(GenuineResponse)
      /\ \A k \in 1..Len(down[d]) :
            down[d][k].node \in Nodes /\ \A m \in down[d][k].data : m.node \in Nodes
      /\ \A m \in Elements(putsToAck[d]) : m.node \in Nodes
  BY NodesUnderWay
<1>4. Head(down[d]) = down[d][1]
  BY <1>1, <1>3, TailFacts
<1>5. \A x : ~IsData(down[d][1], x)
  BY <1>1, <1>4 DEF IsData
<1> HIDE DEF n
<1>6. /\ down'[d] = Tail(down[d]) /\ listens'[d] = listens[d] \ {n}
      /\ putsToAck'[d] = IF unacked[d] \ {n} = {} THEN <<>> ELSE putsToAck[d]
  BY <1>1 DEF OwnInv, Typed
<1>7. \A e \in Devices : e # d => Calm(e) /\ putsToAck'[e] = putsToAck[e]
  BY <1>1 DEF OwnInv, Typed, Calm
<1>8. Follow(Tail(down[d]), cache[d], heard[d], lost, server, putsToAck[d])
  <2>1. Taken(down[d], cache[d], cache[d], putsToAck[d])
    BY <1>3, <1>5 DEF Taken
  <2> QED
    BY <2>1, <1>0, <1>1, <1>3, FollowTail DEF VisibleAt
<1>9. VisibleAt(d)'
  <2>1. Follow(Tail(down[d]), cache[d], heard[d], lost, server, putsToAck'[d])
    BY <1>6, <1>8, ElementsEmpty DEF Follow, HeldFollow
  <2> QED
    BY <2>1, <1>0, <1>1, <1>2, <1>6 DEF VisibleAt
<1>10. Keeps(d)
  <2>1. ASSUME NEW m \in Elements(putsToAck[d]), unacked[d] \ {n} = {},
               m.node \in loaded[d], m \notin lost
        PROVE  m \in cache[d][m.node]
    <3>1. m.node \in Nodes /\ Reaches(down[d], cache[d][m.node], heard[d], m, 0)
      BY <2>1, <1>0, <1>3 DEF VisibleAt, Follow, HeldFollow
    <3>2. m.node \notin unacked[d]
      BY <2>1, <1>2
    <3>3. m.node \in heard[d]
      <4>1. m.node \in listens[d] /\ conn[d]
        BY <2>1, <1>0, <1>1, DeviceTypes DEF VisibleAt, ListensOK
      <4> QED
        BY <3>2, <4>1, <1>0 DEF ListensOK
    <3> SUFFICES ASSUME m \notin cache[d][m.node] PROVE FALSE
      OBVIOUS
    <3>4. PICK j \in 1..Len(down[d]) :
              /\ IsData(down[d][j], m.node) /\ m \in down[d][j].data
              /\ j < 0 \/ down[d][j].kind = "snap"
      BY <3>1, <3>3 DEF Reaches
    <3>5. ~(j < 0)
      BY SMTT(30)
    <3>6. down[d][j].kind = "snap" /\ down[d][j].node = m.node
      BY <3>4, <3>5 DEF IsData
    <3> QED
      BY <3>1, <3>2, <3>6, <1>0 DEF DataUnderWay, DataOK
  <2>2. ASSUME NEW x \in loaded[d], NEW m \in View(d, x), m \notin lost'
        PROVE  m \in View(d, x)'
    <3>1. m \notin lost
      BY <2>2, <1>1
    <3>2. CASE m \in cache[d][x] \cup At(x, Elements(puts[d]))
      BY <3>2, <1>1 DEF View, Pending, At
    <3>3. CASE m \in At(x, Elements(putsToAck[d]))
      <4>1. m \in Elements(putsToAck[d]) /\ m.node = x
        BY <3>3 DEF At
      <4>2. CASE unacked[d] \ {n} = {}
        BY <2>1, <3>1, <4>1, <4>2, <1>1 DEF View
      <4>3. CASE unacked[d] \ {n} # {}
        BY <4>1, <4>3, <1>6 DEF View, Pending, At
      <4> QED
        BY <4>2, <4>3
    <3> QED
      BY <2>2, <3>2, <3>3 DEF View, Pending, At
  <2> QED
    BY <2>2 DEF Keeps
<1>11. \A e \in Devices : e # d => Keeps(e)
  BY <1>1, <1>7, KeepsElsewhere
<1> QED
  BY <1>7, <1>9, <1>10, <1>11, VisibleElsewhere DEF VisibleInv

LEMMA VisibleReceiveAck ==
    ASSUME OwnInv, OrderInv, CurrentInv, VisibleInv, NEW d \in Devices, ReceiveAck(d),
           UNCHANGED appVars
    PROVE  VisibleInv' /\ \A e \in Devices : Keeps(e)
<1> DEFINE w == Written(Head(down[d]))
           held == w \in Elements(puts[d]) /\ unacked[d] # {}
<1>0. VisibleAt(d) /\ DataUnderWay(d) /\ ListensOK(d)
  BY DEF CurrentInv, CurrentAt, VisibleInv
<1>1. /\ Arrives(d, "ack") /\ down[d] # <<>> /\ Head(down[d]).kind = "ack"
      /\ down' = [down EXCEPT ![d] = Tail(@)]
      /\ puts' = [puts EXCEPT ![d] = Without(@, w)]
      /\ putsToAck' = IF held THEN [putsToAck EXCEPT ![d] = Append(@, w)] ELSE putsToAck
      /\ UNCHANGED <<server, heard, listens, cache, loaded, lost>>
  BY DEF ReceiveAck, Arrives, appVars
<1>2. w \in Genuine /\ Head(down[d]).data = {w}
  BY <1>1, WrittenGenuine
<1>3. /\ down[d] \in Seq(GenuineResponse)
      /\ \A k \in 1..Len(down[d]) :
            down[d][k].node \in Nodes /\ \A m \in down[d][k].data : m.node \in Nodes
      /\ \A m \in Elements(putsToAck[d]) : m.node \in Nodes
  BY NodesUnderWay
<1>4. 1 \in 1..Len(down[d]) /\ Head(down[d]) = down[d][1]
  BY <1>1, <1>3, TailFacts
<1>5. down[d][1].kind = "ack" /\ down[d][1].data = {w} /\ w.node \in Nodes
  BY <1>1, <1>2, <1>3, <1>4
<1>6. w \in server \cup lost
  BY <1>4, <1>5 DEF OrderInv, AcksAreResolved
<1> HIDE DEF w
<1>7. /\ puts[d] \in Seq(Genuine) /\ putsToAck[d] \in Seq(Genuine)
      /\ loaded[d] \subseteq Nodes /\ conn[d] \in BOOLEAN
  BY DeviceTypes
<1>8. /\ down'[d] = Tail(down[d]) /\ puts'[d] = Without(puts[d], w)
      /\ putsToAck'[d] = IF held THEN Append(putsToAck[d], w) ELSE putsToAck[d]
      /\ \A e \in Devices : e # d => Calm(e) /\ puts'[e] = puts[e]
  <2>1. /\ putsToAck \in [Devices -> Seq(Genuine)] /\ puts \in [Devices -> Seq(Genuine)]
        /\ down \in [Devices -> Seq(GenuineResponse)]
    BY DEF OwnInv, Typed
  <2>2. /\ down'[d] = Tail(down[d]) /\ puts'[d] = Without(puts[d], w)
        /\ \A e \in Devices : e # d => down'[e] = down[e] /\ puts'[e] = puts[e]
    BY <2>1, <1>1
  <2>3. /\ [putsToAck EXCEPT ![d] = Append(@, w)][d] = Append(putsToAck[d], w)
        /\ \A e \in Devices : e # d =>
              [putsToAck EXCEPT ![d] = Append(@, w)][e] = putsToAck[e]
    BY <2>1
  <2> HIDE DEF held
  <2>4. /\ putsToAck'[d] = IF held THEN Append(putsToAck[d], w) ELSE putsToAck[d]
        /\ \A e \in Devices : e # d => putsToAck'[e] = putsToAck[e]
    BY <2>3, <1>1
  <2> QED
    BY <2>2, <2>4, <1>1 DEF Calm
<1>9. Elements(puts[d]) \subseteq Elements(puts'[d]) \cup {w}
  BY <1>7, <1>8, WithoutProperties
<1>10. Elements(putsToAck'[d]) = IF held THEN Elements(putsToAck[d]) \cup {w}
                                 ELSE Elements(putsToAck[d])
  <2>1. Elements(Append(putsToAck[d], w)) = Elements(putsToAck[d]) \cup {w}
    BY SMTT(30), <1>2, <1>7, ElementsAppend
  <2> HIDE DEF held
  <2> QED
    BY <2>1, <1>8
<1>11. w \in lost \/ Reaches(down[d], cache[d][w.node], heard[d], w, 1)
  BY <1>0, <1>4, <1>5 DEF VisibleAt, Follow, AcksFollow
<1>12. \A x : ~IsData(down[d][1], x)
  BY <1>5 DEF IsData
<1>13. Follow(Tail(down[d]), cache[d], heard[d], lost, server, putsToAck[d])
  <2>1. Taken(down[d], cache[d], cache[d], putsToAck[d])
    BY <1>3, <1>12 DEF Taken
  <2> QED
    BY <2>1, <1>0, <1>1, <1>3, FollowTail DEF VisibleAt
<1>14. VisibleAt(d)'
  <2>1. w \in lost \/ Reaches(Tail(down[d]), cache[d][w.node], heard[d], w, 0)
    <3>1. 1 \in Int /\ 0 \in Int /\ 1 - 1 <= 0
      BY SMTT(30)
    <3> QED
      BY <3>1, <1>1, <1>3, <1>11, <1>12, ReachesTail
  <2>2. HeldFollow(Tail(down[d]), cache[d], heard[d], lost, server, putsToAck'[d])
    BY <2>1, <1>6, <1>10, <1>13 DEF Follow, HeldFollow
  <2>3. Follow(Tail(down[d]), cache[d], heard[d], lost, server, putsToAck'[d])
    BY <2>2, <1>13 DEF Follow
  <2> QED
    BY <2>3, <1>0, <1>1, <1>8 DEF VisibleAt
<1>15. Keeps(d)
  <2>1. ASSUME unacked[d] = {}, w.node \in loaded[d], w \notin lost
        PROVE  w \in cache[d][w.node]
    <3>1. w.node \in heard[d]
      BY <2>1, <1>0, <1>1 DEF VisibleAt, ListensOK
    <3>2. \A j \in 1..Len(down[d]) : ~(j < 1)
      BY SMTT(30)
    <3>3. \A j \in 1..Len(down[d]) :
              ~(IsData(down[d][j], w.node) /\ down[d][j].kind = "snap")
      BY <2>1, <1>0, <1>5 DEF DataUnderWay, DataOK, IsData
    <3> QED
      BY <2>1, <3>1, <3>2, <3>3, <1>11 DEF Reaches
  <2>2. w \notin Elements(puts[d]) => puts'[d] = puts[d]
    BY <1>8 DEF Without
  <2>3. ASSUME NEW x \in loaded[d], NEW m \in View(d, x), m \notin lost'
        PROVE  m \in View(d, x)'
    <3>1. CASE m \in cache[d][x]
      BY <3>1, <1>1 DEF View
    <3>2. CASE m \in Elements(putsToAck[d]) /\ m.node = x
      BY <3>2, <1>10 DEF View, Pending, At
    <3>3. CASE m \in Elements(puts[d]) /\ m.node = x
      <4>1. CASE m \in Elements(puts'[d])
        BY <3>3, <4>1 DEF View, Pending, At
      <4>2. CASE m \notin Elements(puts'[d])
        <5>1. m = w
          BY <3>3, <4>2, <1>9
        <5>2. CASE unacked[d] = {}
          BY <5>1, <5>2, <3>3, <2>1, <2>3, <1>1 DEF View
        <5>3. CASE unacked[d] # {}
          BY <5>1, <5>3, <3>3, <1>10 DEF View, Pending, At
        <5> QED
          BY <5>2, <5>3
      <4> QED
        BY <4>1, <4>2
    <3> QED
      BY <3>1, <3>2, <3>3 DEF View, Pending, At
  <2> QED
    BY <2>3 DEF Keeps
<1>16. \A e \in Devices : e # d => Keeps(e)
  BY <1>1, <1>8, KeepsElsewhere DEF Calm
<1> QED
  BY <1>8, <1>14, <1>15, <1>16, VisibleElsewhere DEF VisibleInv

LEMMA FollowNone ==
    ASSUME NEW C, NEW L, NEW S, NEW p, \A m \in Elements(p) : m \in L \/ m \in S
    PROVE  Follow(<<>>, C, {}, L, S, p)
<1>1. Len(<<>>) = 0 /\ 1..0 = {}
  BY SMTT(30)
<1>2. SnapsGrow(<<>>, C) /\ AcksFollow(<<>>, C, {}, L)
  BY <1>1 DEF SnapsGrow, AcksFollow
<1>3. HeldFollow(<<>>, C, {}, L, S, p)
  BY DEF HeldFollow, Reaches
<1> QED
  BY <1>2, <1>3 DEF Follow

LEMMA VisibleDrop ==
    ASSUME OwnInv, VisibleInv, NEW d \in Devices, Drop(d)
    PROVE  VisibleInv' /\ \A e \in Devices : Keeps(e)
<1>1. /\ heard' = [heard EXCEPT ![d] = {}] /\ down' = [down EXCEPT ![d] = <<>>]
      /\ UNCHANGED <<server, listens, puts, putsToAck, cache, loaded, lost>>
  BY DEF Drop, Disconnect
<1>2. /\ heard'[d] = {} /\ down'[d] = <<>> /\ \A e \in Devices : e # d => Calm(e)
  BY <1>1 DEF OwnInv, Typed, Calm
<1>3. /\ loaded[d] \subseteq listens[d]
      /\ \A m \in Elements(putsToAck[d]) : m \in lost \/ m \in server
  BY DEF VisibleInv, VisibleAt, Follow, HeldFollow
<1>4. VisibleAt(d)'
  <2>1. Follow(<<>>, cache[d], {}, lost, server, putsToAck[d])
    BY <1>3, FollowNone
  <2> QED
    BY <2>1, <1>1, <1>2, <1>3 DEF VisibleAt
<1>5. \A e \in Devices : Keeps(e)
  BY <1>1, KeepsElsewhere
<1> QED
  BY <1>2, <1>4, <1>5, VisibleElsewhere DEF VisibleInv

LEMMA VisibleKill ==
    ASSUME OwnInv, VisibleInv, NEW d \in Devices, Kill(d)
    PROVE  VisibleInv' /\ \A e \in Devices : Keeps(e)
<1>1. /\ Restart(d) /\ lost \subseteq lost'
  BY DEF Kill
<1>2. /\ heard'[d] = {} /\ down'[d] = <<>> /\ loaded'[d] = {} /\ putsToAck'[d] = <<>>
  BY <1>1 DEF Restart, OwnInv, Typed
<1>3. \A e \in Devices : e # d => Calm(e) /\ puts'[e] = puts[e]
  BY <1>1 DEF Restart, OwnInv, Typed, Calm
<1>4. VisibleAt(d)'
  BY <1>2, ElementsEmpty, FollowNone DEF VisibleAt
<1>5. Keeps(d)
  BY <1>2 DEF Keeps
<1>6. \A e \in Devices : e # d => Keeps(e)
  BY <1>3, KeepsElsewhere DEF Calm
<1> QED
  BY <1>3, <1>4, <1>5, <1>6, VisibleElsewhere DEF VisibleInv

LEMMA VisibleStep ==
    ASSUME OwnInv, OrderInv, CurrentInv, VisibleInv, [Next]_vars
    PROVE  VisibleInv' /\ \A e \in Devices : Keeps(e)
<1> DEFINE Goal == VisibleInv' /\ \A e \in Devices : Keeps(e)
<1>1. CASE UNCHANGED vars
  BY <1>1, VisibleUnchanged DEF vars, dbVars, appVars
<1>2. ASSUME NEW d \in Devices, UserStep(d) PROVE Goal
  <2>1. CASE \E r \in Users : OpenChat(d, r)
    BY <2>1, VisibleOpenChat
  <2>2. CASE tappedOnBackButton(d)
    BY <2>2, VisibleUnchanged DEF tappedOnBackButton, dbVars
  <2>3. CASE SendText(d)
    <3>1. screen[d] \in Users /\ sendMessage(d, screen[d])
      BY <2>3 DEF SendText, OwnInv, Typed
    <3> QED
      BY <3>1, VisibleSend
  <2>4. CASE SendVoice(d)
    <3>1. PICK i \in DOMAIN tables[d] : sendMessage(d, tables[d][i].partner)
      BY <2>4 DEF SendVoice
    <3>2. tables[d] \in Seq(Table)
      BY DeviceTypes
    <3>3. i \in 1..Len(tables[d])
      BY <3>2, SeqFacts
    <3>4. tables[d][i] \in Table
      BY <3>2, <3>3, SeqFacts
    <3>5. tables[d][i].partner \in Users
      BY <3>4 DEF Table
    <3> QED
      BY <3>1, <3>5, VisibleSend
  <2> HIDE DEF Goal
  <2> QED
    BY <1>2, <2>1, <2>2, <2>3, <2>4 DEF UserStep
<1>3. ASSUME NEW d \in Devices, SystemStep(d) PROVE Goal
  <2>1. CASE Receive(d)
    BY <2>1, VisibleReceiveSnap, VisibleReceiveRefusal, VisibleReceiveChild,
       VisibleReceiveAck DEF Receive
  <2>2. CASE receiveMessage(d)
    BY <2>2, VisibleUnchanged DEF receiveMessage
  <2>3. CASE skipEvent(d)
    BY <2>3, VisibleUnchanged DEF skipEvent, appVars
  <2>4. CASE Connect(d)
    BY <2>4, VisibleUnchanged DEF Connect, Reconnect, appVars
  <2>5. CASE HandlePut(d)
    BY <2>5, VisibleHandlePut
  <2>6. CASE HandleListen(d)
    BY <2>6, VisibleServerListen, VisibleServerRefuse DEF HandleListen
  <2> HIDE DEF Goal
  <2> QED
    BY <1>3, <2>1, <2>2, <2>3, <2>4, <2>5, <2>6 DEF SystemStep
<1>4. ASSUME NEW d \in Devices, Drop(d) \/ Kill(d) PROVE Goal
  BY <1>4, VisibleDrop, VisibleKill
<1> QED
  BY <1>1, <1>2, <1>3, <1>4 DEF Next

\* VisibleInv is inductive relative to OwnInv, OrderInv and CurrentInv: the data of
\* a stored message reaches a listening client before its write may leave the view.
THEOREM VisibleInvariant == Spec => []VisibleInv
<1>1. OwnInv /\ OrderInv /\ CurrentInv /\ VisibleInv /\ [Next]_vars => VisibleInv'
  BY VisibleStep
<1> QED
  BY <1>1, OwnInvariant, OrderInvariant, CurrentInvariant, VisibleInit, PTL DEF Spec

\* A message in the view of a chat stays there until the server refuses it or the
\* process ends. Losing the connection, sending the message again and having it
\* acknowledged never take it off the screen (sendPut's deferred onComplete,
\* ackPuts, restoreState).
THEOREM MessagesStayVisible == Spec => StaysVisible
<1> DEFINE Step == \A d \in Devices : Keeps(d)
<1>1. OwnInv /\ OrderInv /\ CurrentInv /\ VisibleInv /\ [Next]_vars => [Step]_vars
  BY VisibleStep
<1>2. [Step]_vars <=> [ \A d \in Devices : \A n \in loaded[d] :
            n \in loaded'[d] => View(d, n) \ lost' \subseteq View(d, n)' ]_vars
  BY DEF Keeps
<1> QED
  BY <1>1, <1>2, OwnInvariant, OrderInvariant, CurrentInvariant, VisibleInvariant, PTL
  DEF Spec, StaysVisible
=============================================================================
