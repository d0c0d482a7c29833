-------------------------- MODULE MessagingProofs --------------------------
(***************************************************************************)
(* Theorems about Messaging, for any users, devices, rules and bounds.     *)
(***************************************************************************)
EXTENDS Messaging, TLAPS

\* The backend of the leaves that name no other. Arithmetic and sequences need SMT.
USE ZenonT(30)

-----------------------------------------------------------------------------
(* The two facts about nodes that the conversations rest on.                *)

\* createNode gives both participants of a conversation the same node: the
\* order in which sender and receiver are passed does not matter.
THEOREM CreateNodeSymmetric ==
    ASSUME NEW a \in Users, NEW b \in Users
    PROVE  createNode(a, b) = createNode(b, a)
<1>1. a \in Nat /\ b \in Nat /\ a # Empty /\ b # Empty
  BY UsersAssumption DEF Empty
<1>2. CASE a > b
  BY SMTT(30), <1>1, <1>2 DEF createNode
<1>3. CASE b > a
  BY SMTT(30), <1>1, <1>3 DEF createNode
<1>4. CASE a = b
  BY <1>4
<1> QED
  BY SMTT(30), <1>1, <1>2, <1>3, <1>4

\* createNode gives different pairs of participants different nodes: a message
\* below a node belongs to the two users whose ids name it.
THEOREM CreateNodeInjective ==
    ASSUME NEW a \in Users, NEW b \in Users,
           NEW c \in Users, NEW e \in Users,
           createNode(a, b) = createNode(c, e)
    PROVE  {a, b} = {c, e}
<1>1. \A x, y \in Users :
          \/ createNode(x, y) = <<x, y>>
          \/ createNode(x, y) = <<y, x>>
  BY UsersAssumption DEF createNode, Empty
<1>2. \/ <<a, b>> = <<c, e>>
      \/ <<a, b>> = <<e, c>>
      \/ <<b, a>> = <<c, e>>
      \/ <<b, a>> = <<e, c>>
  <2>1. PICK p \in {<<a, b>>, <<b, a>>} : createNode(a, b) = p
    BY <1>1
  <2>2. PICK q \in {<<c, e>>, <<e, c>>} : createNode(c, e) = q
    BY <1>1
  <2> QED
    BY <2>1, <2>2
<1>3. (a = c /\ b = e) \/ (a = e /\ b = c)
  BY <1>2
<1> QED
  BY <1>3

-----------------------------------------------------------------------------
(* The inductive invariant.                                                *)

\* A message lies below the node of its two participants.
Genuine == { m \in Message : m.node = createNode(m.from, m.to) }

GenuineAt(n) == { m \in Genuine : m.node = n }

\* What travels to a client concerns the node it names, an acknowledgement is
\* for one message, and a listen is refused if and only if the rules say so.
GenuineResponse ==
    { r \in Response : /\ r.data \subseteq GenuineAt(r.node)
                       /\ r.kind = "ack" => \E m \in Genuine : r.data = {m}
                       /\ r.kind = "snap" => r.node \notin Unreadable
                       /\ r.kind = "refused" => r.node \in Unreadable }

GenuineEvent == { e \in Event : e.snap \subseteq GenuineAt(e.node) }

\* The types, with genuine messages everywhere, and data of readable nodes only.
Typed ==
    /\ server \subseteq Genuine
    /\ heard \in [Devices -> SUBSET (Nodes \ Unreadable)]
    /\ conn \in [Devices -> BOOLEAN]
    /\ listens \in [Devices -> SUBSET Nodes]
    /\ unacked \in [Devices -> SUBSET Nodes]
    /\ puts \in [Devices -> Seq(Genuine)]
    /\ putsToAck \in [Devices -> Seq(Genuine)]
    /\ up \in [Devices -> Seq(Genuine)]
    /\ down \in [Devices -> Seq(GenuineResponse)]
    /\ cache \in [Devices -> [Nodes -> SUBSET Genuine]]
    /\ loaded \in [Devices -> SUBSET (Nodes \ Unreadable)]
    /\ observers \in [Devices -> Seq(Nodes)]
    /\ events \in [Devices -> Seq(GenuineEvent)]
    /\ screen \in [Devices -> Users \cup {Home}]
    /\ tables \in [Devices -> Seq(Table)]
    /\ messageclass \in [Devices -> SUBSET Message]
    /\ sent \in [Devices -> 0..MaxSends]
    /\ lost \subseteq Genuine
    /\ drops \in 0..MaxDrops
    /\ kills \in 0..MaxKills

\* The cached data of a node is that node's.
CacheGenuine ==
    \A d \in Devices : \A n \in Nodes : cache[d][n] \subseteq GenuineAt(n)

\* The i-th observer is registered for the conversation of the i-th table, and
\* the table shows messages of that conversation.
TablesRegistered ==
    \A d \in Devices :
        /\ Len(tables[d]) = Len(observers[d])
        /\ \A i \in 1..Len(tables[d]) :
              /\ observers[d][i] = createNode(Account[d], tables[d][i].partner)
              /\ tables[d][i].message \subseteq GenuineAt(observers[d][i])

\* An event is only delivered to observers of its node.
EventsAddressed ==
    \A d \in Devices : \A k \in 1..Len(events[d]) :
        events[d][k].todo \subseteq Observing(d, events[d][k].node)

OwnInv == Typed /\ CacheGenuine /\ TablesRegistered /\ EventsAddressed

\* In the order of the push ids.
Ascending(s) == \A i, j \in 1..Len(s) : i < j => s[i].seq < s[j].seq

-----------------------------------------------------------------------------
(* Sequences.                                                              *)

LEMMA SeqFacts ==
    ASSUME NEW S, NEW s \in Seq(S)
    PROVE  /\ Len(s) \in Nat /\ DOMAIN s = 1..Len(s) /\ s \in [1..Len(s) -> S]
           /\ \A k \in 1..Len(s) : s[k] \in S
BY SMTT(30)

LEMMA EmptySeq == Len(<<>>) = 0 /\ \A S : <<>> \in Seq(S)
BY SMTT(30)

LEMMA ElementsOfSeq ==
    ASSUME NEW S, NEW s \in Seq(S)
    PROVE  /\ Elements(s) \subseteq S
           /\ \A x \in Elements(s) : \E i \in 1..Len(s) : x = s[i]
           /\ \A i \in 1..Len(s) : s[i] \in Elements(s)
BY SMTT(30) DEF Elements

LEMMA ElementsEmpty == Elements(<<>>) = {}
BY SMTT(30) DEF Elements

LEMMA ElementsAppend ==
    ASSUME NEW S, NEW s \in Seq(S), NEW x \in S
    PROVE  /\ Append(s, x) \in Seq(S)
           /\ Elements(Append(s, x)) = Elements(s) \cup {x}
<1>1. /\ Append(s, x) \in Seq(S)
      /\ Len(Append(s, x)) = Len(s) + 1
      /\ \A i \in 1..Len(s) : Append(s, x)[i] = s[i]
      /\ Append(s, x)[Len(s) + 1] = x
  BY SMTT(30)
<1>2. DOMAIN Append(s, x) = 1..(Len(s) + 1) /\ DOMAIN s = 1..Len(s) /\ Len(s) \in Nat
  BY <1>1, SeqFacts
<1>3. 1..(Len(s) + 1) = (1..Len(s)) \cup {Len(s) + 1}
  BY SMTT(30), <1>2
<1> QED
  BY SMTT(30), <1>1, <1>2, <1>3 DEF Elements

LEMMA ElementsTail ==
    ASSUME NEW S, NEW s \in Seq(S), s # <<>>
    PROVE  /\ Tail(s) \in Seq(S)
           /\ Head(s) \in S
           /\ Elements(s) = {Head(s)} \cup Elements(Tail(s))
           /\ Len(s) >= 1 /\ Head(s) = s[1]
           /\ Len(Tail(s)) = Len(s) - 1
           /\ \A i \in 1..(Len(s) - 1) : Tail(s)[i] = s[i + 1]
<1>1. /\ Tail(s) \in Seq(S)
      /\ Head(s) \in S /\ Head(s) = s[1]
      /\ Len(Tail(s)) = Len(s) - 1
      /\ Len(s) \in Nat /\ Len(s) >= 1
      /\ \A i \in 1..(Len(s) - 1) : Tail(s)[i] = s[i + 1]
  BY SMTT(30)
<1>2. DOMAIN Tail(s) = 1..(Len(s) - 1) /\ DOMAIN s = 1..Len(s)
  BY <1>1, SeqFacts
<1>3. \A i \in 1..Len(s) : i = 1 \/ (i - 1 \in 1..(Len(s) - 1) /\ (i - 1) + 1 = i)
  BY SMTT(30), <1>1
<1>4. \A i \in 1..(Len(s) - 1) : i + 1 \in 1..Len(s)
  BY SMTT(30), <1>1
<1>5. Elements(s) \subseteq {Head(s)} \cup Elements(Tail(s))
  <2> SUFFICES ASSUME NEW i \in 1..Len(s)
               PROVE  s[i] \in {Head(s)} \cup Elements(Tail(s))
    BY <1>2 DEF Elements
  <2>1. CASE i = 1
    BY <2>1, <1>1
  <2>2. CASE i # 1
    <3>1. i - 1 \in 1..(Len(s) - 1) /\ (i - 1) + 1 = i
      BY <2>2, <1>3
    <3>2. Tail(s)[i - 1] = s[i]
      BY <3>1, <1>1
    <3> QED
      BY <3>1, <3>2, <1>2 DEF Elements
  <2> QED
    BY <2>1, <2>2
<1>6. {Head(s)} \cup Elements(Tail(s)) \subseteq Elements(s)
  BY SMTT(30), <1>1, <1>2, <1>4 DEF Elements
<1> QED
  BY <1>1, <1>5, <1>6

LEMMA ElementsConcat ==
    ASSUME NEW S, NEW s \in Seq(S), NEW t \in Seq(S)
    PROVE  /\ s \o t \in Seq(S)
           /\ Len(s \o t) = Len(s) + Len(t)
           /\ \A i \in 1..Len(s \o t) : \/ i \in 1..Len(s) /\ (s \o t)[i] = s[i]
                                        \/ \E j \in 1..Len(t) : (s \o t)[i] = t[j]
<1>1. /\ s \o t \in Seq(S)
      /\ Len(s \o t) = Len(s) + Len(t)
      /\ \A i \in 1..(Len(s) + Len(t)) :
            (s \o t)[i] = IF i <= Len(s) THEN s[i] ELSE t[i - Len(s)]
  BY SMTT(30)
<1>2. Len(s) \in Nat /\ Len(t) \in Nat
  BY SeqFacts
<1> QED
  BY SMTT(30), <1>1, <1>2

LEMMA WithoutProperties ==
    ASSUME NEW S, NEW s \in Seq(S), NEW m
    PROVE  /\ Without(s, m) \in Seq(S)
           /\ Elements(Without(s, m)) \subseteq Elements(s)
           /\ Elements(s) \subseteq Elements(Without(s, m)) \cup {m}
           /\ Ascending(s) => Ascending(Without(s, m))
<1>0. Len(s) \in Nat /\ DOMAIN s = 1..Len(s) /\ \A i \in 1..Len(s) : s[i] \in S
  BY SeqFacts
<1>1. CASE m \notin Elements(s)
  BY <1>1 DEF Without
<1>2. CASE m \in Elements(s)
  <2> DEFINE k == CHOOSE k \in 1..Len(s) : s[k] = m
             r == [ i \in 1..(Len(s) - 1) |-> IF i < k THEN s[i] ELSE s[i + 1] ]
  <2>1. k \in 1..Len(s) /\ s[k] = m
    BY <1>0, <1>2 DEF Elements
  <2>2. Without(s, m) = r
    BY <1>2 DEF Without
  <2> HIDE DEF k
  <2>3. Len(s) - 1 \in Nat /\ \A i \in 1..(Len(s) - 1) : i \in 1..Len(s) /\ i + 1 \in 1..Len(s)
    BY SMTT(30), <1>0, <2>1
  <2>4. \A i \in 1..(Len(s) - 1) : r[i] \in S
    BY <1>0, <2>3
  <2>5. r \in Seq(S) /\ Len(r) = Len(s) - 1 /\ DOMAIN r = 1..(Len(s) - 1)
    BY SMTT(30), <2>3, <2>4
  <2>6. Elements(r) \subseteq Elements(s)
    BY <1>0, <2>3, <2>5 DEF Elements
  <2>7. Elements(s) \subseteq Elements(r) \cup {m}
    <3> SUFFICES ASSUME NEW i \in 1..Len(s) PROVE s[i] \in Elements(r) \cup {m}
      BY <1>0 DEF Elements
    <3>1. CASE i < k
      <4>1. i \in 1..(Len(s) - 1) /\ r[i] = s[i]
        BY SMTT(30), <3>1, <2>1, <1>0
      <4> QED
        BY <4>1, <2>5 DEF Elements
    <3>2. CASE i = k
      BY <3>2, <2>1
    <3>3. CASE i > k
      <4>1. i - 1 \in 1..(Len(s) - 1) /\ r[i - 1] = s[i]
        BY SMTT(30), <3>3, <2>1, <1>0
      <4> QED
        BY <4>1, <2>5 DEF Elements
    <3> QED
      BY SMTT(30), <3>1, <3>2, <3>3, <2>1, <1>0
  <2>8. ASSUME Ascending(s) PROVE Ascending(r)
    <3> SUFFICES ASSUME NEW i \in 1..(Len(s) - 1), NEW j \in 1..(Len(s) - 1), i < j
                 PROVE  r[i].seq < r[j].seq
      BY <2>5 DEF Ascending
    <3>1. PICK a \in 1..Len(s) : r[i] = s[a] /\ (a = i \/ a = i + 1)
                                 /\ (i < k => a = i) /\ (i >= k => a = i + 1)
      BY SMTT(30), <1>0, <2>1
    <3>2. PICK b \in 1..Len(s) : r[j] = s[b] /\ (b = j \/ b = j + 1)
                                 /\ (j < k => b = j) /\ (j >= k => b = j + 1)
      BY SMTT(30), <1>0, <2>1
    <3>3. a < b
      BY SMTT(30), <3>1, <3>2, <2>1, <1>0
    <3> QED
      BY <3>1, <3>2, <3>3, <2>8 DEF Ascending
  <2> QED
    BY <2>2, <2>5, <2>6, <2>7, <2>8
<1> QED
  BY <1>1, <1>2

LEMMA AscendingAppend ==
    ASSUME NEW s \in Seq(Genuine), NEW m \in Genuine, Ascending(s),
           \A x \in Elements(s) : x.seq < m.seq
    PROVE  Ascending(Append(s, m))
<1>1. /\ Len(Append(s, m)) = Len(s) + 1
      /\ \A i \in 1..Len(s) : Append(s, m)[i] = s[i]
      /\ Append(s, m)[Len(s) + 1] = m
      /\ Len(s) \in Nat
  BY SMTT(30)
<1>2. \A i \in 1..Len(s) : s[i] \in Elements(s)
  BY ElementsOfSeq
<1> QED
  BY SMTT(30), <1>1, <1>2 DEF Ascending

LEMMA AscendingTail ==
    ASSUME NEW s \in Seq(Genuine), Ascending(s), s # <<>>
    PROVE  /\ Ascending(Tail(s))
           /\ \A x \in Elements(Tail(s)) : Head(s).seq < x.seq
<1>1. /\ Len(s) \in Nat /\ Len(s) >= 1 /\ Head(s) = s[1]
      /\ Len(Tail(s)) = Len(s) - 1
      /\ \A i \in 1..(Len(s) - 1) : Tail(s)[i] = s[i + 1]
      /\ Tail(s) \in Seq(Genuine)
  BY ElementsTail, SeqFacts
<1>2. Ascending(Tail(s))
  BY SMTT(30), <1>1 DEF Ascending
<1>3. \A x \in Elements(Tail(s)) : \E i \in 1..(Len(s) - 1) : x = s[i + 1]
  <2>1. \A x \in Elements(Tail(s)) : \E i \in 1..Len(Tail(s)) : x = Tail(s)[i]
    BY <1>1, ElementsOfSeq
  <2> QED
    BY <2>1, <1>1
<1>4. \A i \in 1..(Len(s) - 1) : s[1].seq < s[i + 1].seq
  BY SMTT(30), <1>1 DEF Ascending
<1> QED
  BY <1>1, <1>2, <1>3, <1>4

-----------------------------------------------------------------------------
(* Views and events.                                                       *)

LEMMA GenuineFacts ==
    /\ Genuine \subseteq Message
    /\ \A m \in Genuine : m.node \in Nodes /\ m \in GenuineAt(m.node)
    /\ \A n : GenuineAt(n) \subseteq Genuine
    /\ \A n : \A S \in SUBSET Genuine : At(n, S) \subseteq GenuineAt(n)
BY DEF Genuine, GenuineAt, At, Message

LEMMA ViewGenuine ==
    ASSUME OwnInv, NEW d \in Devices, NEW n \in Nodes
    PROVE  /\ Pending(d) \subseteq Genuine
           /\ View(d, n) \subseteq GenuineAt(n)
<1>1. Elements(puts[d]) \subseteq Genuine /\ Elements(putsToAck[d]) \subseteq Genuine
  BY ElementsOfSeq DEF OwnInv, Typed
<1>2. cache[d][n] \subseteq GenuineAt(n)
  BY DEF OwnInv, CacheGenuine
<1> QED
  BY <1>1, <1>2, GenuineFacts DEF Pending, View

LEMMA ObservingType ==
    ASSUME OwnInv, NEW d \in Devices, NEW n
    PROVE  Observing(d, n) \in SUBSET Nat /\ Observing(d, n) \subseteq 1..Len(observers[d])
<1>1. observers[d] \in Seq(Nodes)
  BY DEF OwnInv, Typed
<1> QED
  BY SMTT(30), <1>1 DEF Observing

LEMMA EventGenuine ==
    ASSUME NEW n \in Nodes, NEW S \in SUBSET GenuineAt(n), NEW T \in SUBSET Nat
    PROVE  [node |-> n, snap |-> S, todo |-> T] \in GenuineEvent
BY GenuineFacts DEF GenuineEvent, Event

\* A main queue whose events are genuine and addressed to observers of their
\* node: what every step keeps.
GoodQueue(q, d) ==
    /\ q \in Seq(GenuineEvent)
    /\ \A k \in 1..Len(q) : q[k].todo \subseteq Observing(d, q[k].node)

LEMMA GoodQueueNow ==
    ASSUME OwnInv, NEW d \in Devices
    PROVE  GoodQueue(events[d], d)
BY DEF OwnInv, Typed, EventsAddressed, GoodQueue

LEMMA GoodQueueAppend ==
    ASSUME NEW d, NEW q, GoodQueue(q, d), NEW e \in GenuineEvent,
           e.todo \subseteq Observing(d, e.node)
    PROVE  GoodQueue(Append(q, e), d)
<1>1. /\ Append(q, e) \in Seq(GenuineEvent)
      /\ Len(Append(q, e)) = Len(q) + 1
      /\ \A i \in 1..Len(q) : Append(q, e)[i] = q[i]
      /\ Append(q, e)[Len(q) + 1] = e
      /\ Len(q) \in Nat
  BY SMTT(30) DEF GoodQueue
<1> QED
  BY SMTT(30), <1>1 DEF GoodQueue

LEMMA GoodQueueConcat ==
    ASSUME NEW d, NEW q, GoodQueue(q, d), NEW r, GoodQueue(r, d)
    PROVE  GoodQueue(q \o r, d)
<1>1. /\ q \o r \in Seq(GenuineEvent)
      /\ \A i \in 1..Len(q \o r) : \/ i \in 1..Len(q) /\ (q \o r)[i] = q[i]
                                   \/ \E j \in 1..Len(r) : (q \o r)[i] = r[j]
  BY SMTT(30), ElementsConcat DEF GoodQueue
<1> QED
  BY <1>1 DEF GoodQueue

LEMMA RaiseGood ==
    ASSUME OwnInv, NEW d \in Devices, NEW q, GoodQueue(q, d), NEW n \in Nodes,
           NEW old, NEW new \in SUBSET GenuineAt(n)
    PROVE  GoodQueue(Raise(q, d, n, old, new), d)
<1> DEFINE e == [node |-> n, snap |-> new, todo |-> Observing(d, n)]
<1>1. e \in GenuineEvent
  BY ObservingType, EventGenuine
<1>2. GoodQueue(Append(q, e), d)
  BY <1>1, GoodQueueAppend
<1> QED
  BY <1>2 DEF Raise

LEMMA AckEventsGood ==
    ASSUME OwnInv, NEW d \in Devices, NEW ws \in Seq(Genuine),
           NEW rest \in SUBSET Genuine, NEW c,
           \A n \in Nodes : c[n] \subseteq GenuineAt(n), NEW l
    PROVE  GoodQueue(AckEvents(d, ws, rest, c, l), d)
<1> DEFINE view(k) == c[ws[k].node]
                        \cup At(ws[k].node,
                                rest \cup { ws[j] : j \in (k + 1)..Len(ws) })
           changed(k) == ws[k].node \in l /\ ws[k] \notin view(k)
           e(k) == [ node |-> ws[k].node, snap |-> view(k),
                     todo |-> IF changed(k) THEN Observing(d, ws[k].node) ELSE {} ]
           q == [ k \in 1..Len(ws) |-> e(k) ]
<1>0. Len(ws) \in Nat /\ \A k \in 1..Len(ws) : ws[k] \in Genuine /\ ws[k].node \in Nodes
  BY SeqFacts, GenuineFacts
<1>1. ASSUME NEW k \in 1..Len(ws)
      PROVE  view(k) \in SUBSET GenuineAt(ws[k].node)
  <2>1. rest \cup { ws[j] : j \in (k + 1)..Len(ws) } \in SUBSET Genuine
    BY SMTT(30), <1>0
  <2>2. At(ws[k].node, rest \cup { ws[j] : j \in (k + 1)..Len(ws) })
            \subseteq GenuineAt(ws[k].node)
    BY <2>1, GenuineFacts
  <2>3. c[ws[k].node] \subseteq GenuineAt(ws[k].node)
    BY <1>0
  <2> QED
    BY <2>2, <2>3
<1> HIDE DEF view, changed
<1>2. \A k \in 1..Len(ws) : e(k) \in GenuineEvent
                            /\ e(k).todo \subseteq Observing(d, e(k).node)
  BY <1>0, <1>1, ObservingType, EventGenuine
<1> HIDE DEF e
<1>3. q \in Seq(GenuineEvent) /\ Len(q) = Len(ws)
  BY SMTT(30), <1>0, <1>2
<1>4. GoodQueue(q, d)
  BY <1>2, <1>3 DEF GoodQueue
<1>5. GoodQueue(<<>>, d)
  BY SMTT(30), EmptySeq DEF GoodQueue
<1>6. AckEvents(d, ws, rest, c, l) \in {q, <<>>}
  BY DEF AckEvents, q, e, view, changed
<1> QED
  BY <1>4, <1>5, <1>6

-----------------------------------------------------------------------------
(* Every step keeps OwnInv: one lemma per action.                          *)

LEMMA NodeOfPair ==
    ASSUME NEW a \in Users, NEW b \in Users
    PROVE  createNode(a, b) \in Nodes
BY SMTT(30) DEF Nodes

LEMMA AccountIsUser == ASSUME NEW d \in Devices PROVE Account[d] \in Users
BY DevicesAssumption

\* A step that touches the main queue of one device only, and no observer.
LEMMA QueueStep ==
    ASSUME OwnInv, NEW d \in Devices, NEW q, GoodQueue(q, d),
           events' = [events EXCEPT ![d] = q], UNCHANGED observers
    PROVE  events' \in [Devices -> Seq(GenuineEvent)] /\ EventsAddressed'
<1>1. \A e, n : Observing(e, n)' = Observing(e, n)
  BY DEF Observing
<1>2. events \in [Devices -> Seq(GenuineEvent)]
  BY DEF OwnInv, Typed
<1>3. \A e \in Devices : GoodQueue(events'[e], e)
  BY <1>2, GoodQueueNow
<1> QED
  BY <1>1, <1>2, <1>3 DEF GoodQueue, EventsAddressed

LEMMA OwnInit == Init => OwnInv
<1> SUFFICES ASSUME Init PROVE OwnInv
  OBVIOUS
<1>1. \A S : <<>> \in Seq(S) /\ Len(<<>>) = 0
  BY EmptySeq
<1>2. Typed
  BY SMTT(30), <1>1, MaxSendsAssumption, BoundsAssumption DEF Init, DbInit, Typed
<1>3. CacheGenuine /\ TablesRegistered /\ EventsAddressed
  BY SMTT(30), <1>1 DEF Init, DbInit, CacheGenuine, TablesRegistered, EventsAddressed
<1> QED
  BY <1>2, <1>3 DEF OwnInv

LEMMA OwnSend ==
    ASSUME OwnInv, NEW d \in Devices, NEW r \in Users, sendMessage(d, r)
    PROVE  OwnInv'
<1> DEFINE m == [device |-> d, seq |-> sent[d] + 1, from |-> Account[d],
                 to |-> r, node |-> createNode(Account[d], r)]
<1>1. m \in Genuine
  <2>1. sent[d] + 1 \in 1..MaxSends /\ sent[d] + 1 \in 0..MaxSends
    BY SMTT(30), MaxSendsAssumption DEF OwnInv, Typed, sendMessage
  <2> QED
    BY <2>1, NodeOfPair, AccountIsUser DEF Genuine, Message
<1>2. Put(d, m) /\ UNCHANGED <<screen, tables, messageclass, lost, drops, kills>>
  BY DEF sendMessage
<1>3. sent' \in [Devices -> 0..MaxSends]
  BY SMTT(30), MaxSendsAssumption DEF OwnInv, Typed, sendMessage
<1> HIDE DEF m
<1>4. m.node \in Nodes /\ m \in GenuineAt(m.node)
  BY <1>1, GenuineFacts
<1>5. puts' \in [Devices -> Seq(Genuine)] /\ up' \in [Devices -> Seq(Genuine)]
  BY SMTT(30), <1>1, <1>2, ElementsAppend DEF OwnInv, Typed, Put
<1>6. GoodQueue(Raise(events[d], d, m.node, View(d, m.node), View(d, m.node) \cup {m}), d)
  BY <1>4, ViewGenuine, GoodQueueNow, RaiseGood
<1>7. events' \in [Devices -> Seq(GenuineEvent)] /\ EventsAddressed'
  <2>1. events' = [events EXCEPT ![d] =
          Raise(events[d], d, m.node, View(d, m.node), View(d, m.node) \cup {m})]
    BY <1>2 DEF Put
  <2>2. UNCHANGED observers
    BY <1>2 DEF Put
  <2> QED
    BY <1>6, <2>1, <2>2, QueueStep
<1>8. Typed'
  BY <1>2, <1>3, <1>5, <1>7 DEF OwnInv, Typed, Put
<1>9. CacheGenuine' /\ TablesRegistered'
  BY <1>2 DEF OwnInv, CacheGenuine, TablesRegistered, Put
<1> QED
  BY <1>7, <1>8, <1>9 DEF OwnInv

LEMMA OwnOpenChat ==
    ASSUME OwnInv, NEW d \in Devices, NEW r \in Users, OpenChat(d, r)
    PROVE  OwnInv'
<1> DEFINE n == createNode(Account[d], r)
           t == [partner |-> r, message |-> {}]
<1>0. n \in Nodes /\ t \in Table
  BY NodeOfPair, AccountIsUser DEF Table
<1>1. Observe(d, n) /\ UNCHANGED <<messageclass, sent, lost, drops, kills>>
  BY SMTT(30) DEF OpenChat
<1>2. /\ screen' = [screen EXCEPT ![d] = r]
      /\ tables' = [tables EXCEPT ![d] = Append(@, t)]
      /\ observers' = [observers EXCEPT ![d] = Append(@, n)]
  BY SMTT(30), <1>1 DEF OpenChat, Observe
<1>3. /\ observers[d] \in Seq(Nodes) /\ tables[d] \in Seq(Table)
      /\ Len(tables[d]) = Len(observers[d])
  BY SMTT(30) DEF OwnInv, Typed, TablesRegistered
<1>4. /\ Append(observers[d], n) \in Seq(Nodes)
      /\ Len(observers[d]) \in Nat
      /\ Len(Append(observers[d], n)) = Len(observers[d]) + 1
      /\ \A i \in 1..Len(observers[d]) : Append(observers[d], n)[i] = observers[d][i]
      /\ Append(observers[d], n)[Len(observers[d]) + 1] = n
  BY SMTT(30), <1>0, <1>3
<1>5. /\ Append(tables[d], t) \in Seq(Table)
      /\ Len(Append(tables[d], t)) = Len(tables[d]) + 1
      /\ \A i \in 1..Len(tables[d]) : Append(tables[d], t)[i] = tables[d][i]
      /\ Append(tables[d], t)[Len(tables[d]) + 1] = t
  BY SMTT(30), <1>0, <1>3
<1> HIDE DEF n, t
<1>6. TablesRegistered'
  <2> SUFFICES ASSUME NEW e \in Devices
               PROVE  /\ Len(tables'[e]) = Len(observers'[e])
                      /\ \A i \in 1..Len(tables'[e]) :
                            /\ observers'[e][i] = createNode(Account[e], tables'[e][i].partner)
                            /\ tables'[e][i].message \subseteq GenuineAt(observers'[e][i])
    BY SMTT(30) DEF TablesRegistered
  <2>1. CASE e # d
    <3>1. tables'[e] = tables[e] /\ observers'[e] = observers[e]
      BY <2>1, <1>2 DEF OwnInv, Typed
    <3> QED
      BY <3>1 DEF OwnInv, TablesRegistered
  <2>2. CASE e = d
    <3>1. tables'[d] = Append(tables[d], t) /\ observers'[d] = Append(observers[d], n)
      BY <1>2 DEF OwnInv, Typed
    <3>2. \A i \in 1..Len(tables[d]) :
             /\ observers[d][i] = createNode(Account[d], tables[d][i].partner)
             /\ tables[d][i].message \subseteq GenuineAt(observers[d][i])
      BY DEF OwnInv, TablesRegistered
    <3>3. t.message = {} /\ n = createNode(Account[d], t.partner)
      BY DEF t, n
    <3>4. Len(tables'[d]) = Len(tables[d]) + 1 /\ Len(tables'[d]) = Len(observers'[d])
      BY <3>1, <1>3, <1>4, <1>5
    <3>5. ASSUME NEW i \in 1..Len(tables'[d])
          PROVE  /\ observers'[d][i] = createNode(Account[d], tables'[d][i].partner)
                 /\ tables'[d][i].message \subseteq GenuineAt(observers'[d][i])
      <4>1. CASE i \in 1..Len(tables[d])
        <5>1. tables'[d][i] = tables[d][i] /\ observers'[d][i] = observers[d][i]
          BY <4>1, <3>1, <1>3, <1>4, <1>5
        <5> QED
          BY <4>1, <5>1, <3>2
      <4>2. CASE i = Len(tables[d]) + 1
        <5>1. tables'[d][i] = t /\ observers'[d][i] = n
          BY <4>2, <3>1, <1>3, <1>4, <1>5
        <5> QED
          BY <5>1, <3>3
      <4> QED
        BY SMTT(30), <4>1, <4>2, <3>4, <1>3, <1>4
    <3> QED
      BY <2>2, <3>4, <3>5
  <2> QED
    BY <2>1, <2>2
<1>7. \A e \in Devices : \A x : Observing(e, x) \subseteq Observing(e, x)'
  <2> SUFFICES ASSUME NEW e \in Devices, NEW x
               PROVE  Observing(e, x) \subseteq Observing(e, x)'
    OBVIOUS
  <2>1. CASE e # d
    BY SMTT(30), <2>1, <1>2 DEF Observing, OwnInv, Typed
  <2>2. CASE e = d
    <3>1. observers'[d] = Append(observers[d], n)
      BY <1>2 DEF OwnInv, Typed
    <3>2. DOMAIN observers[d] = 1..Len(observers[d])
          /\ DOMAIN observers'[d] = 1..(Len(observers[d]) + 1)
      BY <3>1, <1>3, <1>4, SeqFacts
    <3> QED
      BY SMTT(30), <2>2, <3>1, <3>2, <1>4 DEF Observing
  <2> QED
    BY <2>1, <2>2
<1>8. Len(observers[d]) + 1 \in Observing(d, n)'
  <2>1. observers'[d] = Append(observers[d], n)
    BY <1>2 DEF OwnInv, Typed
  <2>2. DOMAIN observers'[d] = 1..(Len(observers[d]) + 1)
    BY <2>1, <1>4, SeqFacts
  <2> QED
    BY SMTT(30), <2>1, <2>2, <1>4 DEF Observing
<1>9. events' \in [Devices -> Seq(GenuineEvent)] /\ EventsAddressed'
  <2> DEFINE v == [node |-> n, snap |-> View(d, n), todo |-> {Len(observers[d]) + 1}]
  <2>0. v \in GenuineEvent
    <3>1. View(d, n) \in SUBSET GenuineAt(n)
      BY <1>0, ViewGenuine
    <3>2. {Len(observers[d]) + 1} \in SUBSET Nat
      BY SMTT(30), <1>4
    <3> HIDE DEF n
    <3> QED
      BY <1>0, <3>1, <3>2, EventGenuine
  <2>1. \A e \in Devices : GoodQueue(events[e], e)
    BY GoodQueueNow
  <2>3. CASE n \notin loaded[d]
    <3>1. events' = events
      BY <2>3, <1>1 DEF Observe
    <3> QED
      BY <3>1, <2>1, <1>7 DEF GoodQueue, EventsAddressed, OwnInv, Typed
  <2>4. CASE n \in loaded[d]
    <3>1. events' = [events EXCEPT ![d] = Append(events[d], v)]
      BY <2>4, <1>1 DEF Observe
    <3>2. v.node = n /\ v.todo = {Len(observers[d]) + 1}
      OBVIOUS
    <3> HIDE DEF v
    <3>3. /\ Append(events[d], v) \in Seq(GenuineEvent)
          /\ Len(events[d]) \in Nat
          /\ Len(Append(events[d], v)) = Len(events[d]) + 1
          /\ \A i \in 1..Len(events[d]) : Append(events[d], v)[i] = events[d][i]
          /\ Append(events[d], v)[Len(events[d]) + 1] = v
      BY SMTT(30), <2>0, <2>1 DEF GoodQueue
    <3>4. events' \in [Devices -> Seq(GenuineEvent)]
      BY <3>1, <3>3 DEF OwnInv, Typed
    <3>5. ASSUME NEW e \in Devices, NEW k \in 1..Len(events'[e])
          PROVE  (events[e][k].todo \subseteq Observing(e, events[e][k].node))'
      <4>1. CASE e # d
        BY <4>1, <3>1, <2>1, <1>7 DEF GoodQueue, OwnInv, Typed
      <4>2. CASE e = d
        <5>1. events'[d] = Append(events[d], v)
          BY <3>1 DEF OwnInv, Typed
        <5>2. CASE k = Len(events[d]) + 1
          BY SMTT(30), <4>2, <5>1, <5>2, <3>2, <3>3, <1>8
        <5>3. CASE k \in 1..Len(events[d])
          BY SMTT(30), <4>2, <5>1, <5>3, <3>3, <2>1, <1>7 DEF GoodQueue
        <5> QED
          BY SMTT(30), <4>2, <5>1, <5>2, <5>3, <3>3
      <4> QED
        BY <4>1, <4>2
    <3> QED
      BY <3>4, <3>5 DEF EventsAddressed
  <2> QED
    BY <2>3, <2>4
<1>10. Typed'
  <2>1. observers' \in [Devices -> Seq(Nodes)] /\ tables' \in [Devices -> Seq(Table)]
    BY <1>2, <1>4, <1>5 DEF OwnInv, Typed
  <2>2. screen' \in [Devices -> Users \cup {Home}]
    BY <1>2 DEF OwnInv, Typed
  <2>3. listens' \in [Devices -> SUBSET Nodes] /\ unacked' \in [Devices -> SUBSET Nodes]
    BY SMTT(30), <1>0, <1>1 DEF Observe, OwnInv, Typed
  <2> QED
    BY <1>1, <1>9, <2>1, <2>2, <2>3 DEF Observe, OwnInv, Typed
<1>11. CacheGenuine'
  BY <1>1 DEF Observe, OwnInv, CacheGenuine
<1> QED
  BY <1>6, <1>9, <1>10, <1>11 DEF OwnInv

\* The block that runs next belongs to an observer of the event's node.
LEMMA NextBlockObserves ==
    ASSUME OwnInv, NEW d \in Devices, events[d] # <<>>, NEW i \in NextBlock(d)
    PROVE  /\ i \in Head(events[d]).todo /\ i \in 1..Len(tables[d])
           /\ observers[d][i] = Head(events[d]).node
           /\ Head(events[d]) \in GenuineEvent
<1>1. /\ events[d] \in Seq(GenuineEvent)
      /\ Len(tables[d]) = Len(observers[d])
      /\ observers[d] \in Seq(Nodes)
  BY DEF OwnInv, Typed, TablesRegistered
<1>2. Head(events[d]) = events[d][1] /\ 1 \in 1..Len(events[d]) /\ Head(events[d]) \in GenuineEvent
  BY SMTT(30), <1>1, ElementsTail
<1>3. i \in Head(events[d]).todo
  BY DEF NextBlock
<1>4. Head(events[d]).todo \subseteq Observing(d, Head(events[d]).node)
  BY <1>2 DEF OwnInv, EventsAddressed
<1>5. DOMAIN observers[d] = 1..Len(observers[d])
  BY <1>1, SeqFacts
<1> QED
  BY <1>1, <1>2, <1>3, <1>4, <1>5 DEF Observing

LEMMA GoodQueueTail ==
    ASSUME NEW d, NEW q, GoodQueue(q, d), q # <<>>
    PROVE  GoodQueue(Tail(q), d)
<1>1. /\ Tail(q) \in Seq(GenuineEvent)
      /\ Len(q) \in Nat /\ Len(Tail(q)) = Len(q) - 1
      /\ \A i \in 1..(Len(q) - 1) : Tail(q)[i] = q[i + 1]
  BY ElementsTail, SeqFacts DEF GoodQueue
<1> QED
  BY SMTT(30), <1>1 DEF GoodQueue

LEMMA GoodQueueDone ==
    ASSUME NEW d, NEW q, GoodQueue(q, d), q # <<>>, NEW i
    PROVE  GoodQueue(Done(q, i), d)
<1>1. GoodQueue(Tail(q), d)
  BY GoodQueueTail
<1>2. Len(q) \in Nat /\ Len(q) >= 1 /\ q \in Seq(GenuineEvent) /\ DOMAIN q = 1..Len(q)
      /\ q[1] \in GenuineEvent
  BY SMTT(30) DEF GoodQueue
<1> DEFINE e == [q[1] EXCEPT !.todo = @ \ {i}]
           r == [q EXCEPT ![1] = e]
<1>3. e \in GenuineEvent /\ e.node = q[1].node /\ e.todo \subseteq q[1].todo
  BY <1>2 DEF GenuineEvent, Event
<1>4. r \in Seq(GenuineEvent)
  BY SMTT(30), <1>2, <1>3
<1>5. Len(r) = Len(q) /\ r[1] = e /\ \A k \in 1..Len(q) : k # 1 => r[k] = q[k]
  BY SMTT(30), <1>2, <1>4
<1> HIDE DEF e
<1>6. GoodQueue(r, d)
  BY <1>2, <1>3, <1>4, <1>5 DEF GoodQueue
<1>7. Done(q, i) \in {Tail(q), r}
  BY DEF Done, e
<1> QED
  BY <1>1, <1>6, <1>7

LEMMA OwnReceiveMessage ==
    ASSUME OwnInv, NEW d \in Devices, receiveMessage(d)
    PROVE  OwnInv'
<1> DEFINE ev == Head(events[d])
<1>1. PICK i \in NextBlock(d) :
         /\ events[d] # <<>>
         /\ messageclass' = [messageclass EXCEPT ![d] = ev.snap]
         /\ tables' = [tables EXCEPT ![d][i].message = messageclass'[d]]
         /\ events' = [events EXCEPT ![d] = Done(@, i)]
  BY DEF receiveMessage
<1>2. i \in 1..Len(tables[d]) /\ observers[d][i] = ev.node /\ ev \in GenuineEvent
  BY <1>1, NextBlockObserves
<1>3. ev.snap \in SUBSET Message /\ ev.snap \subseteq GenuineAt(ev.node)
  BY <1>2 DEF GenuineEvent, Event
<1>4. /\ messageclass' = [messageclass EXCEPT ![d] = ev.snap]
      /\ tables' = [tables EXCEPT ![d][i].message = messageclass'[d]]
      /\ events' = [events EXCEPT ![d] = Done(events[d], i)]
      /\ UNCHANGED <<server, heard, conn, listens, unacked, puts, putsToAck, up,
                     down, cache, loaded, observers, screen, sent, lost, drops, kills>>
  BY <1>1 DEF receiveMessage
<1> HIDE DEF ev
<1>5. messageclass' \in [Devices -> SUBSET Message] /\ messageclass'[d] = ev.snap
  BY SMTT(30), <1>3, <1>4 DEF OwnInv, Typed
<1>6. events' \in [Devices -> Seq(GenuineEvent)] /\ EventsAddressed'
  <2>1. GoodQueue(Done(events[d], i), d)
    BY <1>1, GoodQueueNow, GoodQueueDone
  <2> QED
    BY <2>1, <1>4, QueueStep
<1> DEFINE t == [tables[d][i] EXCEPT !.message = ev.snap]
           r == [tables[d] EXCEPT ![i] = t]
<1>7. tables[d] \in Seq(Table) /\ tables[d][i] \in Table /\ DOMAIN tables[d] = 1..Len(tables[d])
  BY <1>2, SeqFacts DEF OwnInv, Typed
<1>8. t \in Table /\ t.partner = tables[d][i].partner /\ t.message = ev.snap
  BY <1>3, <1>7 DEF Table
<1>9. r \in Seq(Table) /\ Len(r) = Len(tables[d]) /\ r[i] = t
      /\ \A k \in 1..Len(tables[d]) : k # i => r[k] = tables[d][k]
  BY SMTT(30), <1>2, <1>7, <1>8
<1>10. tables' = [tables EXCEPT ![d] = r]
  BY SMTT(30), <1>4, <1>5 DEF OwnInv, Typed
<1> HIDE DEF t, r
<1>11. tables' \in [Devices -> Seq(Table)] /\ tables'[d] = r
       /\ \A e \in Devices : e # d => tables'[e] = tables[e]
  BY <1>9, <1>10 DEF OwnInv, Typed
<1>12. TablesRegistered'
  <2> SUFFICES ASSUME NEW e \in Devices
               PROVE  /\ Len(tables'[e]) = Len(observers[e])
                      /\ \A k \in 1..Len(tables'[e]) :
                            /\ observers[e][k] = createNode(Account[e], tables'[e][k].partner)
                            /\ tables'[e][k].message \subseteq GenuineAt(observers[e][k])
    BY <1>4 DEF TablesRegistered
  <2>1. /\ Len(tables[e]) = Len(observers[e])
        /\ \A k \in 1..Len(tables[e]) :
              /\ observers[e][k] = createNode(Account[e], tables[e][k].partner)
              /\ tables[e][k].message \subseteq GenuineAt(observers[e][k])
    BY DEF OwnInv, TablesRegistered
  <2>2. CASE e # d
    BY <2>1, <2>2, <1>11
  <2>3. CASE e = d
    BY SMTT(30), <2>1, <2>3, <1>2, <1>3, <1>8, <1>9, <1>11
  <2> QED
    BY <2>2, <2>3
<1>13. Typed'
  BY <1>4, <1>5, <1>6, <1>11 DEF OwnInv, Typed
<1>14. CacheGenuine'
  BY <1>4 DEF OwnInv, CacheGenuine
<1> QED
  BY <1>6, <1>12, <1>13, <1>14 DEF OwnInv

LEMMA OwnSkipEvent ==
    ASSUME OwnInv, NEW d \in Devices, skipEvent(d)
    PROVE  OwnInv'
<1>1. /\ events[d] # <<>>
      /\ events' = [events EXCEPT ![d] = Tail(events[d])]
      /\ UNCHANGED <<server, heard, conn, listens, unacked, puts, putsToAck, up,
                     down, cache, loaded, observers, appVars>>
  BY DEF skipEvent
<1>2. events' \in [Devices -> Seq(GenuineEvent)] /\ EventsAddressed'
  BY <1>1, GoodQueueNow, GoodQueueTail, QueueStep
<1>3. Typed'
  BY SMTT(30), <1>1, <1>2 DEF OwnInv, Typed, appVars
<1>4. CacheGenuine' /\ TablesRegistered'
  BY <1>1 DEF OwnInv, CacheGenuine, TablesRegistered, appVars
<1> QED
  BY SMTT(30), <1>2, <1>3, <1>4 DEF OwnInv

LEMMA OwnUnqueued ==
    ASSUME OwnInv, UNCHANGED <<events, observers>>
    PROVE  events' \in [Devices -> Seq(GenuineEvent)] /\ EventsAddressed'
<1>1. \A d, n : Observing(d, n)' = Observing(d, n)
  BY DEF Observing
<1> QED
  BY <1>1 DEF OwnInv, Typed, EventsAddressed

LEMMA OwnServerListen ==
    ASSUME OwnInv, NEW d \in Devices, NEW n \in Nodes, ServerListen(d, n),
           UNCHANGED appVars
    PROVE  OwnInv'
<1>1. n \notin Unreadable
  BY DEF ServerListen
<1> DEFINE r == [kind |-> "snap", node |-> n, data |-> At(n, server)]
<1>3. r \in GenuineResponse
  <2>1. server \in SUBSET Genuine
    BY DEF OwnInv, Typed
  <2>2. At(n, server) \subseteq GenuineAt(n) /\ At(n, server) \in SUBSET Message
    BY SMTT(30), <2>1, GenuineFacts
  <2> QED
    BY <2>2, <1>1 DEF GenuineResponse, Response
<1>4. down' = [down EXCEPT ![d] = Append(@, r)]
  BY DEF ServerListen
<1> HIDE DEF r
<1>5. down' \in [Devices -> Seq(GenuineResponse)]
  BY <1>3, <1>4, ElementsAppend DEF OwnInv, Typed
<1>6. heard' \in [Devices -> SUBSET (Nodes \ Unreadable)]
  <2>1. heard' = [heard EXCEPT ![d] = @ \cup {n}]
    BY DEF ServerListen
  <2>2. heard \in [Devices -> SUBSET (Nodes \ Unreadable)]
    BY DEF OwnInv, Typed
  <2>3. heard[d] \cup {n} \in SUBSET (Nodes \ Unreadable)
    BY <2>2, <1>1
  <2> QED
    BY <2>1, <2>2, <2>3
<1>7. Typed' /\ CacheGenuine' /\ TablesRegistered' /\ EventsAddressed'
  <2>1. UNCHANGED <<server, conn, listens, unacked, puts, putsToAck, up, cache,
                    loaded, observers, events, appVars>>
    BY DEF ServerListen
  <2> QED
    BY <1>5, <1>6, <2>1, OwnUnqueued
       DEF OwnInv, Typed, CacheGenuine, TablesRegistered, appVars
<1> QED
  BY <1>7 DEF OwnInv

LEMMA RefusalGenuine ==
    ASSUME NEW n \in Unreadable
    PROVE  /\ Refusal(n) \in GenuineResponse
           /\ Refusal(n).kind = "refused" /\ Refusal(n).node = n
BY UnreadableAssumption DEF Refusal, GenuineResponse, Response

LEMMA OwnServerRefuse ==
    ASSUME OwnInv, NEW d \in Devices, NEW n \in Nodes, ServerRefuse(d, n),
           UNCHANGED appVars
    PROVE  OwnInv'
<1>1. n \in Unreadable /\ down' = [down EXCEPT ![d] = Append(@, Refusal(n))]
  BY DEF ServerRefuse
<1>2. down' \in [Devices -> Seq(GenuineResponse)]
  BY <1>1, RefusalGenuine, ElementsAppend DEF OwnInv, Typed
<1>3. UNCHANGED <<server, heard, conn, listens, unacked, puts, putsToAck, up, cache,
                  loaded, observers, events, appVars>>
  BY DEF ServerRefuse
<1>4. Typed' /\ CacheGenuine' /\ TablesRegistered' /\ EventsAddressed'
  BY <1>2, <1>3, OwnUnqueued
     DEF OwnInv, Typed, CacheGenuine, TablesRegistered, appVars
<1> QED
  BY <1>4 DEF OwnInv

LEMMA OwnHandleListen ==
    ASSUME OwnInv, NEW d \in Devices, HandleListen(d)
    PROVE  OwnInv'
BY OwnServerListen, OwnServerRefuse DEF HandleListen

LEMMA ResponseGenuine ==
    ASSUME NEW m \in Genuine
    PROVE  /\ Ack(m) \in GenuineResponse
           /\ [kind |-> "child", node |-> m.node, data |-> {m}] \in GenuineResponse
<1>1. m \in Message /\ m.node \in Nodes /\ {m} \subseteq GenuineAt(m.node)
  BY GenuineFacts
<1> QED
  BY <1>1 DEF Ack, GenuineResponse, Response

LEMMA OwnHandlePut ==
    ASSUME OwnInv, NEW d \in Devices, HandlePut(d)
    PROVE  OwnInv'
<1> DEFINE m == Head(up[d])
<1>1. /\ up[d] # <<>>
      /\ up' = [up EXCEPT ![d] = Tail(@)]
      /\ UNCHANGED <<heard, conn, listens, unacked, puts, putsToAck, cache, loaded,
                     observers, events, screen, tables, messageclass, sent, drops, kills>>
      /\ lost' \in {lost, lost \cup {m}}
  BY DEF HandlePut, ServerPut
<1>2. m \in Genuine /\ up' \in [Devices -> Seq(Genuine)]
  BY SMTT(30), <1>1, ElementsTail DEF OwnInv, Typed
<1>3. server' \subseteq Genuine /\ lost' \subseteq Genuine
  BY SMTT(30), <1>1, <1>2 DEF HandlePut, ServerPut, OwnInv, Typed
<1>4. down \in [Devices -> Seq(GenuineResponse)]
  BY DEF OwnInv, Typed
<1>5. ServerPut(d)
  BY SMTT(30) DEF HandlePut
<1> HIDE DEF m
<1>6. \A e \in Devices : Push(e, m) \in Seq(GenuineResponse)
  BY <1>2, <1>4, ResponseGenuine, ElementsAppend DEF Push
<1>7. Ack(m) \in GenuineResponse
  BY <1>2, ResponseGenuine
<1>8. down' \in [Devices -> Seq(GenuineResponse)]
  <2>1. CASE m \in Denied \cup server
    <3>1. down' = [down EXCEPT ![d] = Append(@, Ack(m))]
      BY <1>5, <2>1 DEF ServerPut, m
    <3> QED
      BY <3>1, <1>4, <1>7, ElementsAppend
  <2>2. CASE m \notin Denied \cup server
    <3>1. down' = [ e \in Devices |-> IF e = d THEN Append(Push(e, m), Ack(m))
                                               ELSE Push(e, m) ]
      BY <1>5, <2>2 DEF ServerPut, m
    <3>2. Append(Push(d, m), Ack(m)) \in Seq(GenuineResponse)
      BY SMTT(30), <1>6, <1>7, ElementsAppend
    <3> QED
      BY <3>1, <3>2, <1>6
  <2> QED
    BY <2>1, <2>2
<1>9. Typed'
  BY SMTT(30), <1>1, <1>2, <1>3, <1>8 DEF OwnInv, Typed
<1>10. CacheGenuine' /\ TablesRegistered' /\ EventsAddressed'
  BY <1>1, OwnUnqueued DEF OwnInv, CacheGenuine, TablesRegistered
<1> QED
  BY <1>9, <1>10 DEF OwnInv

\* The response at the head of a device's queue, and the queue behind it.
LEMMA Arrival ==
    ASSUME OwnInv, NEW d \in Devices, down[d] # <<>>
    PROVE  /\ Head(down[d]) \in GenuineResponse
           /\ Head(down[d]).node \in Nodes
           /\ Head(down[d]).data \subseteq GenuineAt(Head(down[d]).node)
           /\ [down EXCEPT ![d] = Tail(@)] \in [Devices -> Seq(GenuineResponse)]
<1>1. down \in [Devices -> Seq(GenuineResponse)]
  BY DEF OwnInv, Typed
<1>2. Head(down[d]) \in GenuineResponse /\ Tail(down[d]) \in Seq(GenuineResponse)
  BY <1>1, ElementsTail
<1> QED
  BY <1>1, <1>2 DEF GenuineResponse, Response

LEMMA OwnReceiveChild ==
    ASSUME OwnInv, NEW d \in Devices, ReceiveChild(d), UNCHANGED appVars
    PROVE  OwnInv'
<1> DEFINE n == Head(down[d]).node
           data == Head(down[d]).data
<1>1. down[d] # <<>>
  BY DEF ReceiveChild, Arrives
<1>2. n \in Nodes /\ data \subseteq GenuineAt(n)
      /\ [down EXCEPT ![d] = Tail(@)] \in [Devices -> Seq(GenuineResponse)]
  BY <1>1, Arrival
<1>3. /\ down' = [down EXCEPT ![d] = Tail(@)]
      /\ cache' = [cache EXCEPT ![d][n] = @ \cup data]
      /\ events' = [events EXCEPT ![d] =
                      Raise(events[d], d, n, View(d, n), View(d, n) \cup data)]
      /\ UNCHANGED <<server, heard, conn, listens, unacked, puts, putsToAck, up,
                     loaded, observers>>
  BY DEF ReceiveChild
<1> HIDE DEF n, data
<1>4. GoodQueue(Raise(events[d], d, n, View(d, n), View(d, n) \cup data), d)
  BY <1>2, ViewGenuine, GoodQueueNow, RaiseGood
<1>5. events' \in [Devices -> Seq(GenuineEvent)] /\ EventsAddressed'
  BY <1>3, <1>4, QueueStep
<1>6. cache' \in [Devices -> [Nodes -> SUBSET Genuine]] /\ CacheGenuine'
  BY <1>2, <1>3, GenuineFacts DEF OwnInv, Typed, CacheGenuine
<1>7. Typed'
  BY <1>2, <1>3, <1>5, <1>6 DEF OwnInv, Typed, appVars
<1>8. TablesRegistered'
  BY <1>3 DEF OwnInv, TablesRegistered, appVars
<1> QED
  BY <1>5, <1>6, <1>7, <1>8 DEF OwnInv

LEMMA OwnReceiveSnap ==
    ASSUME OwnInv, NEW d \in Devices, ReceiveSnap(d), UNCHANGED appVars
    PROVE  OwnInv'
<1> DEFINE n == Head(down[d]).node
           data == Head(down[d]).data
           new == data \cup At(n, Pending(d))
           event == [node |-> n, snap |-> new, todo |-> Observing(d, n)]
           q == IF n \notin loaded[d] THEN Append(events[d], event)
                ELSE Raise(events[d], d, n, View(d, n), new)
           acks == AckEvents(d, putsToAck[d], Elements(puts[d]), cache'[d], loaded'[d])
<1>1. down[d] # <<>>
  BY DEF ReceiveSnap, Arrives
<1>2. n \in Nodes /\ data \subseteq GenuineAt(n)
      /\ [down EXCEPT ![d] = Tail(@)] \in [Devices -> Seq(GenuineResponse)]
  BY <1>1, Arrival
<1>3. /\ down' = [down EXCEPT ![d] = Tail(@)]
      /\ cache' = [cache EXCEPT ![d][n] = data]
      /\ loaded' = [loaded EXCEPT ![d] = @ \cup {n}]
      /\ unacked' = [unacked EXCEPT ![d] = @ \ {n}]
      /\ UNCHANGED <<server, heard, conn, listens, puts, up, observers>>
  BY DEF ReceiveSnap
<1>4. \/ /\ putsToAck' = [putsToAck EXCEPT ![d] = <<>>]
         /\ events' = [events EXCEPT ![d] = q \o acks]
      \/ /\ putsToAck' = putsToAck
         /\ events' = [events EXCEPT ![d] = q]
  BY DEF ReceiveSnap
<1> HIDE DEF n, data
<1>5. new \in SUBSET GenuineAt(n)
  BY <1>2, ViewGenuine, GenuineFacts
<1> HIDE DEF new
<1>6. event \in GenuineEvent
  BY <1>2, <1>5, ObservingType, EventGenuine
<1>7. GoodQueue(q, d)
  BY <1>2, <1>5, <1>6, GoodQueueNow, GoodQueueAppend, RaiseGood
<1>8. cache' \in [Devices -> [Nodes -> SUBSET Genuine]] /\ CacheGenuine'
  BY SMTT(30), <1>2, <1>3, GenuineFacts DEF OwnInv, Typed, CacheGenuine
<1>9. GoodQueue(acks, d)
  <2>1. putsToAck[d] \in Seq(Genuine) /\ Elements(puts[d]) \in SUBSET Genuine
    BY SMTT(30), ElementsOfSeq DEF OwnInv, Typed
  <2>2. \A x \in Nodes : cache'[d][x] \subseteq GenuineAt(x)
    BY <1>8 DEF CacheGenuine
  <2> QED
    BY <2>1, <2>2, AckEventsGood
<1> HIDE DEF q, acks
<1>10. events' \in [Devices -> Seq(GenuineEvent)] /\ EventsAddressed'
  BY <1>3, <1>4, <1>7, <1>9, GoodQueueConcat, QueueStep
<1>11. putsToAck' \in [Devices -> Seq(Genuine)]
  <2>1. <<>> \in Seq(Genuine)
    BY EmptySeq
  <2>2. putsToAck \in [Devices -> Seq(Genuine)]
    BY DEF OwnInv, Typed
  <2>3. putsToAck' = putsToAck \/ putsToAck' = [putsToAck EXCEPT ![d] = <<>>]
    BY <1>4
  <2> QED
    BY <2>1, <2>2, <2>3
<1>12. Typed'
  <2>1. n \notin Unreadable
    BY <1>1, Arrival DEF ReceiveSnap, Arrives, GenuineResponse, n
  <2> QED
    BY SMTT(30), <2>1, <1>2, <1>3, <1>8, <1>10, <1>11 DEF OwnInv, Typed, appVars
<1>13. TablesRegistered'
  BY <1>3 DEF OwnInv, TablesRegistered, appVars
<1> QED
  BY <1>8, <1>10, <1>12, <1>13 DEF OwnInv

LEMMA OwnReceiveRefusal ==
    ASSUME OwnInv, NEW d \in Devices, ReceiveRefusal(d), UNCHANGED appVars
    PROVE  OwnInv'
<1> DEFINE n == Head(down[d]).node
           acks == AckEvents(d, putsToAck[d], Elements(puts[d]), cache[d], loaded[d])
<1>1. /\ down[d] # <<>> /\ down' = [down EXCEPT ![d] = Tail(@)]
      /\ listens' = [listens EXCEPT ![d] = @ \ {n}]
      /\ unacked' = [unacked EXCEPT ![d] = @ \ {n}]
      /\ UNCHANGED <<server, heard, conn, puts, up, cache, loaded, observers>>
  BY DEF ReceiveRefusal, Arrives
<1>2. \/ /\ putsToAck' = [putsToAck EXCEPT ![d] = <<>>]
         /\ events' = [events EXCEPT ![d] = events[d] \o acks]
      \/ UNCHANGED <<putsToAck, events>>
  BY DEF ReceiveRefusal
<1>3. [down EXCEPT ![d] = Tail(@)] \in [Devices -> Seq(GenuineResponse)]
  BY <1>1, Arrival
<1>4. GoodQueue(events[d], d) /\ GoodQueue(acks, d)
  <2>1. putsToAck[d] \in Seq(Genuine) /\ Elements(puts[d]) \in SUBSET Genuine
    BY SMTT(30), ElementsOfSeq DEF OwnInv, Typed
  <2>2. \A x \in Nodes : cache[d][x] \subseteq GenuineAt(x)
    BY DEF OwnInv, CacheGenuine
  <2> QED
    BY <2>1, <2>2, GoodQueueNow, AckEventsGood
<1> HIDE DEF n, acks
<1>5. events' \in [Devices -> Seq(GenuineEvent)] /\ EventsAddressed'
  BY <1>1, <1>2, <1>4, GoodQueueConcat, QueueStep, OwnUnqueued
<1>6. putsToAck' \in [Devices -> Seq(Genuine)]
  <2>1. <<>> \in Seq(Genuine) /\ putsToAck \in [Devices -> Seq(Genuine)]
    BY EmptySeq DEF OwnInv, Typed
  <2> QED
    BY <2>1, <1>2
<1>7. /\ listens' \in [Devices -> SUBSET Nodes]
      /\ unacked' \in [Devices -> SUBSET Nodes]
  BY <1>1 DEF OwnInv, Typed
<1>8. Typed'
  BY <1>1, <1>3, <1>5, <1>6, <1>7 DEF OwnInv, Typed, appVars
<1>9. CacheGenuine' /\ TablesRegistered'
  BY <1>1 DEF OwnInv, CacheGenuine, TablesRegistered, appVars
<1> QED
  BY <1>5, <1>8, <1>9 DEF OwnInv

\* The message an acknowledgement is for.
LEMMA WrittenGenuine ==
    ASSUME OwnInv, NEW d \in Devices, Arrives(d, "ack")
    PROVE  /\ Written(Head(down[d])) \in Genuine
           /\ Head(down[d]).data = {Written(Head(down[d]))}
<1>1. Head(down[d]) \in GenuineResponse /\ Head(down[d]).kind = "ack"
  BY Arrival DEF Arrives
<1>2. PICK m \in Genuine : Head(down[d]).data = {m}
  BY <1>1 DEF GenuineResponse
<1>3. Written(Head(down[d])) = m
  BY <1>2 DEF Written
<1> QED
  BY <1>2, <1>3

LEMMA OwnReceiveAck ==
    ASSUME OwnInv, NEW d \in Devices, ReceiveAck(d), UNCHANGED appVars
    PROVE  OwnInv'
<1> DEFINE m == Written(Head(down[d]))
           rest == Without(puts[d], m)
           acks == AckEvents(d, <<m>>, Elements(rest) \cup Elements(putsToAck[d]),
                             cache[d], loaded[d])
<1>1. Arrives(d, "ack") /\ down[d] # <<>>
  BY DEF ReceiveAck, Arrives
<1>2. m \in Genuine
  BY <1>1, WrittenGenuine
<1>3. [down EXCEPT ![d] = Tail(@)] \in [Devices -> Seq(GenuineResponse)]
  BY SMTT(30), <1>1, Arrival
<1>4. /\ down' = [down EXCEPT ![d] = Tail(@)]
      /\ puts' = [puts EXCEPT ![d] = rest]
      /\ UNCHANGED <<server, heard, conn, listens, unacked, up, cache, loaded,
                     observers>>
      /\ putsToAck' \in {putsToAck, [putsToAck EXCEPT ![d] = Append(@, m)]}
      /\ \/ events' = events
         \/ events' = [events EXCEPT ![d] = events[d] \o acks]
  BY DEF ReceiveAck
<1>5. puts[d] \in Seq(Genuine) /\ putsToAck[d] \in Seq(Genuine)
  BY SMTT(30) DEF OwnInv, Typed
<1> HIDE DEF m
<1>6. rest \in Seq(Genuine) /\ Elements(rest) \in SUBSET Genuine
  BY <1>5, WithoutProperties, ElementsOfSeq
<1> HIDE DEF rest
<1>7. GoodQueue(acks, d)
  <2>1. <<m>> \in Seq(Genuine)
    BY SMTT(30), <1>2
  <2>2. Elements(rest) \cup Elements(putsToAck[d]) \in SUBSET Genuine
    BY <1>5, <1>6, ElementsOfSeq
  <2>3. \A x \in Nodes : cache[d][x] \subseteq GenuineAt(x)
    BY DEF OwnInv, CacheGenuine
  <2> QED
    BY <2>1, <2>2, <2>3, AckEventsGood
<1> HIDE DEF acks
<1>8. events' \in [Devices -> Seq(GenuineEvent)] /\ EventsAddressed'
  <2>1. CASE events' = events
    BY <2>1, <1>4, OwnUnqueued
  <2>2. CASE events' = [events EXCEPT ![d] = events[d] \o acks]
    BY <2>2, <1>4, <1>7, GoodQueueNow, GoodQueueConcat, QueueStep
  <2> QED
    BY <2>1, <2>2, <1>4
<1>9. puts' \in [Devices -> Seq(Genuine)] /\ putsToAck' \in [Devices -> Seq(Genuine)]
  <2>1. Append(putsToAck[d], m) \in Seq(Genuine)
    BY <1>2, <1>5, ElementsAppend
  <2>2. puts \in [Devices -> Seq(Genuine)] /\ putsToAck \in [Devices -> Seq(Genuine)]
    BY DEF OwnInv, Typed
  <2>3. [putsToAck EXCEPT ![d] = Append(@, m)] \in [Devices -> Seq(Genuine)]
    BY <2>1, <2>2
  <2>4. [puts EXCEPT ![d] = rest] \in [Devices -> Seq(Genuine)]
    BY SMTT(30), <2>2, <1>6
  <2> QED
    BY <2>2, <2>3, <2>4, <1>4
<1>10. Typed'
  BY SMTT(30), <1>3, <1>4, <1>8, <1>9 DEF OwnInv, Typed, appVars
<1>11. CacheGenuine' /\ TablesRegistered'
  BY <1>4 DEF OwnInv, CacheGenuine, TablesRegistered, appVars
<1> QED
  BY SMTT(30), <1>8, <1>10, <1>11 DEF OwnInv

LEMMA OwnConnection ==
    ASSUME OwnInv, NEW d \in Devices, Connect(d) \/ Drop(d) \/ tappedOnBackButton(d)
    PROVE  OwnInv'
<1>1. \A S : <<>> \in Seq(S)
  BY EmptySeq
<1>2. CASE Connect(d)
  <2>1. Typed'
    BY SMTT(30), <1>2 DEF Connect, Reconnect, OwnInv, Typed, appVars
  <2>2. CacheGenuine' /\ TablesRegistered' /\ EventsAddressed'
    BY <1>2, OwnUnqueued DEF Connect, Reconnect, OwnInv, CacheGenuine,
                             TablesRegistered, appVars
  <2> QED
    BY SMTT(30), <2>1, <2>2 DEF OwnInv
<1>3. CASE Drop(d)
  <2>1. Typed'
    BY SMTT(30), <1>1, <1>3, BoundsAssumption DEF Drop, Disconnect, OwnInv, Typed
  <2>2. CacheGenuine' /\ TablesRegistered' /\ EventsAddressed'
    BY <1>3, OwnUnqueued DEF Drop, Disconnect, OwnInv, CacheGenuine, TablesRegistered
  <2> QED
    BY <2>1, <2>2 DEF OwnInv
<1>4. CASE tappedOnBackButton(d)
  <2>1. Typed'
    BY SMTT(30), <1>4 DEF tappedOnBackButton, OwnInv, Typed, dbVars
  <2>2. CacheGenuine' /\ TablesRegistered' /\ EventsAddressed'
    BY <1>4, OwnUnqueued DEF tappedOnBackButton, OwnInv, CacheGenuine,
                             TablesRegistered, dbVars
  <2> QED
    BY <2>1, <2>2 DEF OwnInv
<1> QED
  BY <1>2, <1>3, <1>4

LEMMA OwnKill ==
    ASSUME OwnInv, NEW d \in Devices, Kill(d)
    PROVE  OwnInv'
<1>1. \A S : <<>> \in Seq(S) /\ Len(<<>>) = 0
  BY EmptySeq
<1>2. Restart(d)
  BY DEF Kill
<1>3. /\ events' = [events EXCEPT ![d] = <<>>]
      /\ observers' = [observers EXCEPT ![d] = <<>>]
      /\ tables' = [tables EXCEPT ![d] = <<>>]
      /\ cache' = [cache EXCEPT ![d] = [n \in Nodes |-> {}]]
  BY SMTT(30), <1>2 DEF Kill, Restart
<1>4. /\ heard' \in [Devices -> SUBSET (Nodes \ Unreadable)]
      /\ conn' \in [Devices -> BOOLEAN]
      /\ listens' \in [Devices -> SUBSET Nodes]
      /\ unacked' \in [Devices -> SUBSET Nodes]
      /\ puts' \in [Devices -> Seq(Genuine)]
      /\ putsToAck' \in [Devices -> Seq(Genuine)]
      /\ up' \in [Devices -> Seq(Genuine)]
      /\ down' \in [Devices -> Seq(GenuineResponse)]
      /\ cache' \in [Devices -> [Nodes -> SUBSET Genuine]]
      /\ loaded' \in [Devices -> SUBSET (Nodes \ Unreadable)]
      /\ observers' \in [Devices -> Seq(Nodes)]
      /\ events' \in [Devices -> Seq(GenuineEvent)]
      /\ server' \subseteq Genuine
  BY <1>1, <1>2 DEF Restart, OwnInv, Typed
<1>5. Elements(puts[d]) \subseteq Genuine
  BY ElementsOfSeq DEF OwnInv, Typed
<1>6. Typed'
  <2>1. /\ screen' \in [Devices -> Users \cup {Home}]
        /\ tables' \in [Devices -> Seq(Table)]
        /\ messageclass' \in [Devices -> SUBSET Message]
        /\ sent' \in [Devices -> 0..MaxSends]
        /\ lost' \subseteq Genuine
        /\ drops' \in 0..MaxDrops
        /\ kills' \in 0..MaxKills
    BY SMTT(30), <1>1, <1>5, BoundsAssumption DEF Kill, OwnInv, Typed
  <2> QED
    BY <2>1, <1>4 DEF Typed
<1>7. CacheGenuine'
  BY SMTT(30), <1>3 DEF OwnInv, Typed, CacheGenuine
<1>8. TablesRegistered'
  <2> SUFFICES ASSUME NEW e \in Devices
               PROVE  /\ Len(tables'[e]) = Len(observers'[e])
                      /\ \A i \in 1..Len(tables'[e]) :
                            /\ observers'[e][i]
                                  = createNode(Account[e], tables'[e][i].partner)
                            /\ tables'[e][i].message \subseteq GenuineAt(observers'[e][i])
    BY SMTT(30) DEF TablesRegistered
  <2>1. CASE e = d
    <3>1. tables'[e] = <<>> /\ observers'[e] = <<>>
      BY SMTT(30), <2>1, <1>3 DEF OwnInv, Typed
    <3> QED
      BY SMTT(30), <3>1
  <2>2. CASE e # d
    <3>1. tables'[e] = tables[e] /\ observers'[e] = observers[e]
      BY SMTT(30), <2>2, <1>3 DEF OwnInv, Typed
    <3> QED
      BY <3>1 DEF OwnInv, TablesRegistered
  <2> QED
    BY SMTT(30), <2>1, <2>2
<1>9. EventsAddressed'
  <2> SUFFICES ASSUME NEW e \in Devices, NEW k \in 1..Len(events'[e])
               PROVE  (events[e][k].todo \subseteq Observing(e, events[e][k].node))'
    BY DEF EventsAddressed
  <2>1. e # d
    BY SMTT(30), <1>1, <1>3 DEF OwnInv, Typed
  <2>2. events'[e] = events[e] /\ observers'[e] = observers[e]
    BY <2>1, <1>3 DEF OwnInv, Typed
  <2> QED
    BY SMTT(30), <2>2 DEF OwnInv, EventsAddressed, Observing
<1> QED
  BY <1>6, <1>7, <1>8, <1>9 DEF OwnInv

\* OwnInv holds in every reachable state.
LEMMA OwnStep == OwnInv /\ [Next]_vars => OwnInv'
<1> SUFFICES ASSUME OwnInv, [Next]_vars PROVE OwnInv'
  OBVIOUS
<1>1. CASE UNCHANGED vars
  <2>1. Typed' /\ CacheGenuine' /\ TablesRegistered' /\ EventsAddressed'
    BY <1>1, OwnUnqueued DEF vars, dbVars, appVars, OwnInv, Typed, CacheGenuine,
                             TablesRegistered
  <2> QED
    BY SMTT(30), <2>1 DEF OwnInv
<1>2. CASE Next
  <2>1. PICK d \in Devices : UserStep(d) \/ SystemStep(d) \/ Drop(d) \/ Kill(d)
    BY <1>2 DEF Next
  <2>2. CASE UserStep(d)
    <3>1. CASE \E r \in Users : OpenChat(d, r)
      BY <3>1, OwnOpenChat
    <3>2. CASE tappedOnBackButton(d)
      BY <3>2, OwnConnection
    <3>3. CASE SendText(d)
      <4>1. screen[d] \in Users /\ sendMessage(d, screen[d])
        BY <3>3 DEF SendText, OwnInv, Typed
      <4> QED
        BY <4>1, OwnSend
    <3>4. CASE SendVoice(d)
      <4>1. PICK i \in DOMAIN tables[d] : sendMessage(d, tables[d][i].partner)
        BY <3>4 DEF SendVoice
      <4>2. tables[d][i].partner \in Users
        <5>1. tables[d] \in Seq(Table)
          BY DEF OwnInv, Typed
        <5>2. i \in 1..Len(tables[d])
          BY SMTT(30), <5>1
        <5>3. tables[d][i] \in Table
          BY <5>1, <5>2, SeqFacts
        <5> QED
          BY <5>3 DEF Table
      <4> QED
        BY <4>1, <4>2, OwnSend
    <3> QED
      BY <2>2, <3>1, <3>2, <3>3, <3>4 DEF UserStep
  <2>3. CASE SystemStep(d)
    <3>1. CASE Receive(d)
      BY <3>1, OwnReceiveSnap, OwnReceiveRefusal, OwnReceiveChild, OwnReceiveAck
      DEF Receive
    <3> QED
      BY <2>3, <3>1, OwnReceiveMessage, OwnSkipEvent, OwnHandlePut, OwnHandleListen,
         OwnConnection DEF SystemStep
  <2> QED
    BY <2>1, <2>2, <2>3, OwnConnection, OwnKill
<1> QED
  BY <1>1, <1>2

THEOREM OwnInvariant == Spec => []OwnInv
BY OwnInit, OwnStep, PTL DEF Spec

\* Every variable keeps its type in every behaviour, whatever the users, the
\* devices, the database rules and the bounds.
THEOREM TypeCorrect == Spec => []TypeOK
<1>1. OwnInv => TypeOK
  <2> SUFFICES ASSUME OwnInv PROVE TypeOK
    OBVIOUS
  <2>1. /\ Genuine \subseteq Message
        /\ GenuineResponse \subseteq Response
        /\ GenuineEvent \subseteq Event
    BY DEF Genuine, GenuineResponse, GenuineEvent
  <2>2. /\ Seq(Genuine) \subseteq Seq(Message)
        /\ Seq(GenuineResponse) \subseteq Seq(Response)
        /\ Seq(GenuineEvent) \subseteq Seq(Event)
    BY SMTT(30), <2>1
  <2>3. DbTypeOK
    BY SMTT(30), <2>1, <2>2 DEF OwnInv, Typed, DbTypeOK
  <2> QED
    BY <2>1, <2>3 DEF OwnInv, Typed, TablesRegistered, TypeOK
<1> QED
  BY <1>1, OwnInvariant, PTL

\* A chat table never shows a message of another conversation, although all
\* observers of a device share one array and none is removed (receiveMessage):
\* OwnInv keeps every snapshot below the node its observers were registered
\* for, and createNode is injective on pairs of users.
THEOREM ConversationsSeparate == Spec => []OwnConversation
<1>1. OwnInv => OwnConversation
  <2> SUFFICES ASSUME OwnInv, NEW d \in Devices, NEW i \in DOMAIN tables[d],
                      NEW m \in tables[d][i].message
               PROVE  {m.from, m.to} = {Account[d], tables[d][i].partner}
    BY SMTT(30) DEF OwnConversation
  <2>1. tables[d] \in Seq(Table)
    BY DEF OwnInv, Typed
  <2>2. i \in 1..Len(tables[d])
    BY <2>1, SeqFacts
  <2>3. tables[d][i].partner \in Users
    <3>1. tables[d][i] \in Table
      BY SMTT(30), <2>1, <2>2
    <3> QED
      BY <3>1 DEF Table
  <2>4. m \in Genuine /\ m.node = createNode(Account[d], tables[d][i].partner)
    BY <2>2 DEF OwnInv, TablesRegistered, GenuineAt
  <2>5. m.from \in Users /\ m.to \in Users /\ m.node = createNode(m.from, m.to)
    BY <2>4 DEF Genuine, Message
  <2>6. Account[d] \in Users
    BY AccountIsUser
  <2>7. createNode(m.from, m.to) = createNode(Account[d], tables[d][i].partner)
    BY <2>4, <2>5
  <2>8. \A a, b, c, e \in Users :
           createNode(a, b) = createNode(c, e) => {a, b} = {c, e}
    BY CreateNodeInjective
  <2> DEFINE from == m.from
             to == m.to
             user == Account[d]
             partner == tables[d][i].partner
  <2>9. from \in Users /\ to \in Users /\ user \in Users /\ partner \in Users
        /\ createNode(from, to) = createNode(user, partner)
    BY SMTT(30), <2>3, <2>5, <2>6, <2>7
  <2> HIDE DEF from, to, user, partner
  <2>10. {from, to} = {user, partner}
    BY SMTT(30), <2>8, <2>9
  <2> QED
    BY <2>10 DEF from, to, user, partner
<1> QED
  BY <1>1, OwnInvariant, PTL

-----------------------------------------------------------------------------
(* Messages are delivered in the order of their device and none vanishes,  *)
(* however often connections are lost and processes end.                   *)

\* The outstanding puts and the requests in flight are the device's own
\* messages in the order in which it sent them.
PutsInOrder ==
    \A d \in Devices :
        /\ Ascending(puts[d]) /\ Ascending(up[d])
        /\ \A m \in Elements(puts[d]) \cup Elements(up[d]) :
              m.device = d /\ m.seq <= sent[d]

\* Nothing is stored, refused or lost that was not sent.
ResolvedWereSent == \A m \in server \cup lost : m.seq <= sent[m.device]

\* A connected client has every unresolved put on its way; a disconnected one
\* has nothing on its way. What is on its way is still held or is resolved.
PutsOnTheWay ==
    \A d \in Devices :
        /\ conn[d] => Elements(puts[d]) \subseteq server \cup lost \cup Elements(up[d])
        /\ ~conn[d] => up[d] = <<>>
        /\ Elements(up[d]) \subseteq server \cup lost \cup Elements(puts[d])

\* The server answers a put when it has stored or refused it.
AcksAreResolved ==
    \A d \in Devices : \A k \in 1..Len(down[d]) :
        down[d][k].kind = "ack" => down[d][k].data \subseteq server \cup lost

\* What the rules refuse is never stored, and of the messages a client still
\* holds only refused ones count as lost.
RefusedOnly ==
    /\ server \cap Denied = {}
    /\ \A d \in Devices :
          (Elements(puts[d]) \cup Elements(up[d])) \cap lost \subseteq Denied

OrderInv == /\ PutsInOrder /\ ResolvedWereSent /\ PutsOnTheWay
            /\ AcksAreResolved /\ RefusedOnly
            /\ NoOvertaking /\ NothingVanishes

-----------------------------------------------------------------------------
LEMMA OrderInit == Init => OrderInv
<1> SUFFICES ASSUME Init PROVE OrderInv
  OBVIOUS
<1>1. Elements(<<>>) = {} /\ Len(<<>>) = 0
  BY ElementsEmpty
<1>2. PutsInOrder /\ ResolvedWereSent /\ PutsOnTheWay
  BY SMTT(30), <1>1 DEF Init, DbInit, PutsInOrder, ResolvedWereSent, PutsOnTheWay, Ascending
<1>3. AcksAreResolved /\ RefusedOnly
  BY SMTT(30), <1>1 DEF Init, DbInit, AcksAreResolved, RefusedOnly
<1>4. NoOvertaking /\ NothingVanishes
  BY SMTT(30), <1>1 DEF Init, DbInit, NoOvertaking, NothingVanishes, Unresolved
<1> QED
  BY <1>2, <1>3, <1>4 DEF OrderInv

\* A step that changes none of the variables OrderInv is about.
LEMMA OrderUnchanged ==
    ASSUME OrderInv, UNCHANGED <<server, lost, sent, puts, up, down, conn>>
    PROVE  OrderInv'
BY DEF OrderInv, PutsInOrder, ResolvedWereSent, PutsOnTheWay, AcksAreResolved,
       RefusedOnly, NoOvertaking, NothingVanishes, Unresolved

\* A step that changes only what is on its way to the devices.
LEMMA OrderOnlyAcks ==
    ASSUME OrderInv, UNCHANGED <<server, lost, sent, puts, up, conn>>, AcksAreResolved'
    PROVE  OrderInv'
<1>1. PutsInOrder' /\ ResolvedWereSent'
  BY DEF OrderInv, PutsInOrder, ResolvedWereSent
<1>2. PutsOnTheWay' /\ RefusedOnly'
  BY DEF OrderInv, PutsOnTheWay, RefusedOnly
<1>3. NoOvertaking' /\ NothingVanishes'
  BY DEF OrderInv, NoOvertaking, NothingVanishes, Unresolved
<1> QED
  BY <1>1, <1>2, <1>3 DEF OrderInv

LEMMA OrderTypes ==
    ASSUME OwnInv
    PROVE  /\ puts \in [Devices -> Seq(Genuine)] /\ up \in [Devices -> Seq(Genuine)]
           /\ sent \in [Devices -> 0..MaxSends]
           /\ server \subseteq Genuine /\ lost \subseteq Genuine
           /\ \A x \in Genuine : x.device \in Devices /\ x.seq \in Nat
<1>1. \A x \in Genuine : x.device \in Devices /\ x.seq \in 1..MaxSends
  BY DEF Genuine, Message
<1>2. 1..MaxSends \subseteq Nat
  BY SMTT(30), MaxSendsAssumption
<1> QED
  BY <1>1, <1>2 DEF OwnInv, Typed

\* What sendMessage does to the variables OrderInv is about.
LEMMA SentMessage ==
    ASSUME OwnInv, NEW d \in Devices, NEW r \in Users, sendMessage(d, r)
    PROVE  \E m \in Genuine :
             /\ m.device = d /\ m.seq = sent[d] + 1
             /\ sent' = [sent EXCEPT ![d] = @ + 1]
             /\ puts' = [puts EXCEPT ![d] = Append(@, m)]
             /\ up' = IF conn[d] THEN [up EXCEPT ![d] = Append(@, m)] ELSE up
             /\ UNCHANGED <<server, lost, down, conn>>
<1> DEFINE m == [device |-> d, seq |-> sent[d] + 1, from |-> Account[d],
                 to |-> r, node |-> createNode(Account[d], r)]
<1>1. m \in Genuine
  <2>1. sent[d] + 1 \in 1..MaxSends
    BY SMTT(30), MaxSendsAssumption DEF OwnInv, Typed, sendMessage
  <2> QED
    BY <2>1, NodeOfPair, AccountIsUser DEF Genuine, Message
<1>2. m.device = d /\ m.seq = sent[d] + 1
  OBVIOUS
<1>3. Put(d, m) /\ sent' = [sent EXCEPT ![d] = @ + 1] /\ UNCHANGED lost
  BY DEF sendMessage
<1> HIDE DEF m
<1> QED
  BY <1>1, <1>2, <1>3 DEF Put

LEMMA OrderSend ==
    ASSUME OwnInv, OrderInv, NEW d \in Devices, NEW r \in Users, sendMessage(d, r)
    PROVE  OrderInv'
<1>1. PICK m \in Genuine :
             /\ m.device = d /\ m.seq = sent[d] + 1
             /\ sent' = [sent EXCEPT ![d] = @ + 1]
             /\ puts' = [puts EXCEPT ![d] = Append(@, m)]
             /\ up' = IF conn[d] THEN [up EXCEPT ![d] = Append(@, m)] ELSE up
             /\ UNCHANGED <<server, lost, down, conn>>
  BY SentMessage
<1>2. /\ puts \in [Devices -> Seq(Genuine)] /\ up \in [Devices -> Seq(Genuine)]
      /\ sent \in [Devices -> 0..MaxSends] /\ server \subseteq Genuine /\ lost \subseteq Genuine
      /\ \A x \in Genuine : x.device \in Devices /\ x.seq \in Nat
  BY OrderTypes
<1>3. /\ sent[d] \in Nat /\ sent'[d] = sent[d] + 1
      /\ \A e \in Devices : e # d => sent'[e] = sent[e]
      /\ \A e \in Devices : sent[e] \in Nat /\ sent[e] <= sent'[e]
  BY SMTT(30), <1>1, <1>2
<1>4. /\ puts'[d] = Append(puts[d], m)
      /\ up'[d] = IF conn[d] THEN Append(up[d], m) ELSE up[d]
      /\ \A e \in Devices : e # d => puts'[e] = puts[e] /\ up'[e] = up[e]
  BY <1>1, <1>2
<1>5. /\ Elements(puts'[d]) = Elements(puts[d]) \cup {m}
      /\ Elements(up'[d]) = IF conn[d] THEN Elements(up[d]) \cup {m} ELSE Elements(up[d])
  <2>1. puts[d] \in Seq(Genuine) /\ up[d] \in Seq(Genuine)
    BY <1>2
  <2>2. /\ Elements(Append(puts[d], m)) = Elements(puts[d]) \cup {m}
        /\ Elements(Append(up[d], m)) = Elements(up[d]) \cup {m}
    BY SMTT(30), <2>1, ElementsAppend
  <2> QED
    BY <2>2, <1>4
<1>6. m \notin server /\ m \notin lost
  BY SMTT(30), <1>1, <1>2, <1>3 DEF OrderInv, ResolvedWereSent
<1>7. PutsInOrder'
  <2>1. \A x \in Elements(puts[d]) \cup Elements(up[d]) :
           x \in Genuine /\ x.device = d /\ x.seq < m.seq
    BY SMTT(30), <1>1, <1>2, <1>3, ElementsOfSeq DEF OrderInv, PutsInOrder
  <2>2. Ascending(puts'[d]) /\ Ascending(up'[d])
    BY <2>1, <1>1, <1>2, <1>4, AscendingAppend DEF OrderInv, PutsInOrder
  <2>3. \A x \in Elements(puts'[d]) \cup Elements(up'[d]) : x.device = d /\ x.seq <= sent'[d]
    BY SMTT(30), <2>1, <1>1, <1>2, <1>3, <1>5
  <2>4. \A e \in Devices : e # d =>
           /\ Ascending(puts'[e]) /\ Ascending(up'[e])
           /\ \A x \in Elements(puts'[e]) \cup Elements(up'[e]) :
                 x.device = e /\ x.seq <= sent'[e]
    BY <1>3, <1>4 DEF OrderInv, PutsInOrder
  <2> QED
    BY <2>2, <2>3, <2>4 DEF PutsInOrder
<1>8. ResolvedWereSent'
  <2>1. \A x \in server \cup lost : x.device \in Devices /\ x.seq \in Nat /\ x.seq <= sent[x.device]
    BY <1>2 DEF OrderInv, ResolvedWereSent
  <2> QED
    BY SMTT(30), <2>1, <1>1, <1>3 DEF ResolvedWereSent
<1>9. PutsOnTheWay'
  <2>1. \A e \in Devices :
        /\ conn[e] => Elements(puts[e]) \subseteq server \cup lost \cup Elements(up[e])
        /\ ~conn[e] => up[e] = <<>>
        /\ Elements(up[e]) \subseteq server \cup lost \cup Elements(puts[e])
    BY DEF OrderInv, PutsOnTheWay
  <2>2. conn' = conn /\ server' = server /\ lost' = lost
    BY <1>1
  <2> QED
    BY <2>1, <2>2, <1>4, <1>5 DEF PutsOnTheWay
<1>10. AcksAreResolved'
  BY <1>1 DEF OrderInv, AcksAreResolved
<1>11. RefusedOnly'
  BY SMTT(30), <1>1, <1>4, <1>5, <1>6 DEF OrderInv, RefusedOnly
<1>12. NoOvertaking'
  <2>1. ASSUME NEW e \in Devices, NEW w \in Unresolved(e)', NEW x \in server, x.device = e
        PROVE  x.seq < w.seq
    <3>1. CASE w \in Unresolved(e)
      BY <3>1, <2>1 DEF OrderInv, NoOvertaking
    <3>2. CASE w \notin Unresolved(e)
      <4>1. w = m /\ e = d
        BY <3>2, <1>1, <1>4, <1>5 DEF Unresolved
      <4>2. x.seq <= sent[d] /\ x.seq \in Nat
        BY <2>1, <4>1, <1>2 DEF OrderInv, ResolvedWereSent
      <4> QED
        BY SMTT(30), <4>1, <4>2, <1>1, <1>3
    <3> QED
      BY <3>1, <3>2
  <2> QED
    BY <2>1, <1>1 DEF NoOvertaking
<1>13. NothingVanishes'
  <2> SUFFICES ASSUME NEW e \in Devices, NEW k \in 1..sent'[e]
               PROVE  \E x \in server \cup lost \cup Elements(puts'[e]) :
                         x.device = e /\ x.seq = k
    BY <1>1 DEF NothingVanishes
  <2>1. CASE k \in 1..sent[e]
    <3>1. PICK x \in server \cup lost \cup Elements(puts[e]) : x.device = e /\ x.seq = k
      BY <2>1 DEF OrderInv, NothingVanishes
    <3> QED
      BY <3>1, <1>4, <1>5
  <2>2. CASE k \notin 1..sent[e]
    <3>1. e = d /\ k = sent[d] + 1
      BY SMTT(30), <2>2, <1>3
    <3> QED
      BY <3>1, <1>1, <1>5
  <2> QED
    BY <2>1, <2>2
<1> QED
  BY SMTT(30), <1>7, <1>8, <1>9, <1>10, <1>11, <1>12, <1>13 DEF OrderInv

\* The head of the requests in flight: every other unresolved message of the
\* device is behind it.
LEMMA HeadIsFirst ==
    ASSUME OwnInv, OrderInv, NEW d \in Devices, up[d] # <<>>
    PROVE  /\ Head(up[d]) \in Genuine
           /\ Head(up[d]).device = d /\ Head(up[d]).seq <= sent[d]
           /\ Tail(up[d]) \in Seq(Genuine) /\ Ascending(Tail(up[d]))
           /\ Elements(up[d]) = {Head(up[d])} \cup Elements(Tail(up[d]))
           /\ conn[d]
           /\ \A w \in Unresolved(d) : w = Head(up[d]) \/ Head(up[d]).seq < w.seq
<1>1. up[d] \in Seq(Genuine)
  BY OrderTypes
<1>2. /\ Head(up[d]) \in Genuine /\ Tail(up[d]) \in Seq(Genuine)
      /\ Elements(up[d]) = {Head(up[d])} \cup Elements(Tail(up[d]))
  BY <1>1, ElementsTail
<1>3. Ascending(up[d])
  BY DEF OrderInv, PutsInOrder
<1>4. /\ Ascending(Tail(up[d]))
      /\ \A x \in Elements(Tail(up[d])) : Head(up[d]).seq < x.seq
  BY <1>1, <1>3, AscendingTail
<1>5. Head(up[d]).device = d /\ Head(up[d]).seq <= sent[d]
  BY <1>2 DEF OrderInv, PutsInOrder
<1>6. conn[d]
  BY DEF OrderInv, PutsOnTheWay
<1>7. Unresolved(d) \subseteq Elements(up[d])
  BY <1>6 DEF OrderInv, PutsOnTheWay, Unresolved
<1> QED
  BY <1>2, <1>4, <1>5, <1>6, <1>7

\* What the answer to a put adds to the messages on their way to a client.
LEMMA PushedResponses ==
    ASSUME OwnInv, OrderInv, NEW d \in Devices, HandlePut(d)
    PROVE  /\ server' \in {server, server \cup {Head(up[d])}}
           /\ lost' \in {lost, lost \cup {Head(up[d])}}
           /\ Head(up[d]) \in server' \cup lost'
           /\ Head(up[d]) \in Denied => server' = server
           /\ Head(up[d]) \notin Denied => lost' = lost
           /\ AcksAreResolved'
<1> DEFINE m == Head(up[d])
<1>1. ServerPut(d) /\ lost' = IF m \in Denied THEN lost \cup {m} ELSE lost
  BY DEF HandlePut
<1>2. server' = IF m \in Denied \cup server THEN server ELSE server \cup {m}
  BY <1>1 DEF ServerPut
<1>3. up[d] # <<>>
  BY <1>1 DEF ServerPut
<1>4. m \in Genuine
  BY <1>3, HeadIsFirst
<1>5. server \subseteq server' /\ lost \subseteq lost' /\ m \in server' \cup lost'
  BY <1>1, <1>2
<1>6. AcksAreResolved'
  <2>0. down \in [Devices -> Seq(GenuineResponse)]
    BY DEF OwnInv, Typed
  <2> DEFINE Fine(q) == /\ q \in Seq(GenuineResponse)
                        /\ \A k \in 1..Len(q) :
                              q[k].kind = "ack" => q[k].data \subseteq server' \cup lost'
  <2>1. \A e \in Devices : Fine(down[e])
    BY <2>0, <1>5 DEF OrderInv, AcksAreResolved
  <2>2. ASSUME NEW q, Fine(q), NEW x \in GenuineResponse,
               x.kind = "ack" => x.data \subseteq server' \cup lost'
        PROVE  Fine(Append(q, x))
    <3>1. /\ Append(q, x) \in Seq(GenuineResponse) /\ Len(q) \in Nat
          /\ Len(Append(q, x)) = Len(q) + 1
          /\ \A i \in 1..Len(q) : Append(q, x)[i] = q[i]
          /\ Append(q, x)[Len(q) + 1] = x
      BY SMTT(30), <2>2
    <3>2. \A k \in 1..(Len(q) + 1) : k \in 1..Len(q) \/ k = Len(q) + 1
      BY SMTT(30), <3>1
    <3> QED
      BY <2>2, <3>1, <3>2
  <2> DEFINE child == [kind |-> "child", node |-> m.node, data |-> {m}]
  <2>3. child \in GenuineResponse /\ child.kind # "ack"
    BY <1>4, ResponseGenuine
  <2>4. Ack(m) \in GenuineResponse /\ Ack(m).data = {m}
    BY <1>4, ResponseGenuine DEF Ack
  <2> HIDE DEF child, Fine
  <2>5. \A e \in Devices : Push(e, m) \in {down[e], Append(down[e], child)}
    BY DEF Push, child
  <2> HIDE DEF m
  <2>6. \A e \in Devices : Fine(Push(e, m))
    BY <2>1, <2>2, <2>3, <2>5
  <2>7. Fine(Append(down[d], Ack(m))) /\ Fine(Append(Push(d, m), Ack(m)))
    BY <2>1, <2>2, <2>4, <2>6, <1>5
  <2>8. \A e \in Devices : Fine(down'[e])
    <3>1. CASE m \in Denied \cup server
      <4>1. down' = [down EXCEPT ![d] = Append(down[d], Ack(m))]
        BY <1>1, <3>1 DEF ServerPut, m
      <4> QED
        BY <4>1, <2>0, <2>1, <2>7
    <3>2. CASE m \notin Denied \cup server
      <4>1. down' = [ e \in Devices |-> IF e = d THEN Append(Push(e, m), Ack(m))
                                                 ELSE Push(e, m) ]
        BY <1>1, <3>2 DEF ServerPut, m
      <4> QED
        BY <4>1, <2>6, <2>7
    <3> QED
      BY <3>1, <3>2
  <2> QED
    BY <2>8 DEF Fine, AcksAreResolved
<1> QED
  BY <1>1, <1>2, <1>5, <1>6

LEMMA OrderHandlePut ==
    ASSUME OwnInv, OrderInv, NEW d \in Devices, HandlePut(d)
    PROVE  OrderInv'
<1> DEFINE m == Head(up[d])
<1>1. /\ up[d] # <<>>
      /\ up' = [up EXCEPT ![d] = Tail(@)]
      /\ UNCHANGED <<puts, conn, sent>>
  BY DEF HandlePut, ServerPut
<1>2. /\ m \in Genuine /\ m.device = d /\ m.seq <= sent[d]
      /\ Tail(up[d]) \in Seq(Genuine) /\ Ascending(Tail(up[d]))
      /\ Elements(up[d]) = {m} \cup Elements(Tail(up[d]))
      /\ conn[d]
      /\ \A w \in Unresolved(d) : w = m \/ m.seq < w.seq
  BY <1>1, HeadIsFirst
<1>3. /\ server' \in {server, server \cup {m}}
      /\ lost' \in {lost, lost \cup {m}}
      /\ m \in server' \cup lost'
      /\ m \in Denied => server' = server
      /\ m \notin Denied => lost' = lost
      /\ AcksAreResolved'
  BY PushedResponses
<1>4. /\ puts \in [Devices -> Seq(Genuine)] /\ up \in [Devices -> Seq(Genuine)]
      /\ server \subseteq Genuine /\ lost \subseteq Genuine
      /\ \A x \in Genuine : x.device \in Devices /\ x.seq \in Nat
  BY OrderTypes
<1>5. up'[d] = Tail(up[d]) /\ \A e \in Devices : e # d => up'[e] = up[e]
  BY <1>1, <1>4
<1> HIDE DEF m
<1>6. PutsInOrder'
  <2>1. \A e \in Devices :
           /\ Ascending(puts[e]) /\ Ascending(up[e])
           /\ \A x \in Elements(puts[e]) \cup Elements(up[e]) :
                 x.device = e /\ x.seq <= sent[e]
    BY DEF OrderInv, PutsInOrder
  <2> QED
    BY SMTT(30), <2>1, <1>1, <1>2, <1>5 DEF PutsInOrder
<1>7. ResolvedWereSent'
  BY SMTT(30), <1>1, <1>2, <1>3 DEF OrderInv, ResolvedWereSent
<1>8. PutsOnTheWay'
  <2>1. \A e \in Devices :
        /\ conn[e] => Elements(puts[e]) \subseteq server \cup lost \cup Elements(up[e])
        /\ ~conn[e] => up[e] = <<>>
        /\ Elements(up[e]) \subseteq server \cup lost \cup Elements(puts[e])
    BY DEF OrderInv, PutsOnTheWay
  <2>2. server \cup lost \cup {m} = server' \cup lost'
    BY <1>3
  <2> QED
    BY SMTT(30), <2>1, <2>2, <1>1, <1>2, <1>5 DEF PutsOnTheWay
<1>9. RefusedOnly'
  <2>1. \A e \in Devices : Elements(up'[e]) \subseteq Elements(up[e])
    BY <1>2, <1>5
  <2> QED
    BY <2>1, <1>1, <1>3 DEF OrderInv, RefusedOnly
<1>10. NoOvertaking'
  <2> SUFFICES ASSUME NEW e \in Devices, NEW w \in Unresolved(e)', NEW x \in server',
                      x.device = e
               PROVE  x.seq < w.seq
    BY DEF NoOvertaking
  <2>1. w \in Unresolved(e) /\ w # m
    BY <1>1, <1>3 DEF Unresolved
  <2>2. CASE x \in server
    BY SMTT(30), <2>1, <2>2 DEF OrderInv, NoOvertaking
  <2>3. CASE x = m
    BY <2>1, <2>3, <1>2
  <2> QED
    BY <2>2, <2>3, <1>3
<1>11. NothingVanishes'
  <2>1. server \cup lost \subseteq server' \cup lost'
    BY <1>3
  <2> QED
    BY SMTT(30), <2>1, <1>1 DEF OrderInv, NothingVanishes
<1> QED
  BY SMTT(30), <1>3, <1>6, <1>7, <1>8, <1>9, <1>10, <1>11 DEF OrderInv

\* Taking a response off the queue leaves acknowledgements of resolved messages.
LEMMA AcksTail ==
    ASSUME OwnInv, OrderInv, NEW d \in Devices, down[d] # <<>>,
           down' = [down EXCEPT ![d] = Tail(@)], UNCHANGED <<server, lost>>
    PROVE  AcksAreResolved'
<1>1. down \in [Devices -> Seq(GenuineResponse)]
  BY DEF OwnInv, Typed
<1>2. /\ Len(down[d]) \in Nat
      /\ Len(Tail(down[d])) = Len(down[d]) - 1
      /\ \A i \in 1..(Len(down[d]) - 1) : Tail(down[d])[i] = down[d][i + 1]
  BY <1>1, ElementsTail, SeqFacts
<1>3. down'[d] = Tail(down[d]) /\ \A e \in Devices : e # d => down'[e] = down[e]
  BY <1>1
<1>4. \A i \in 1..(Len(down[d]) - 1) : i + 1 \in 1..Len(down[d])
  BY SMTT(30), <1>2
<1> QED
  BY SMTT(30), <1>2, <1>3, <1>4 DEF OrderInv, AcksAreResolved

LEMMA OrderReceiveData ==
    ASSUME OwnInv, OrderInv, NEW d \in Devices,
           ReceiveSnap(d) \/ ReceiveRefusal(d) \/ ReceiveChild(d), UNCHANGED appVars
    PROVE  OrderInv'
<1>1. /\ down[d] # <<>>
      /\ down' = [down EXCEPT ![d] = Tail(@)]
      /\ UNCHANGED <<server, lost, sent, puts, up, conn>>
  BY DEF ReceiveSnap, ReceiveRefusal, ReceiveChild, Arrives, appVars
<1>2. AcksAreResolved'
  BY <1>1, AcksTail
<1> QED
  BY <1>1, <1>2, OrderOnlyAcks

LEMMA OrderHandleListen ==
    ASSUME OwnInv, OrderInv, NEW d \in Devices, HandleListen(d)
    PROVE  OrderInv'
<1>1. PICK n \in Nodes : ServerListen(d, n) \/ ServerRefuse(d, n)
  BY DEF HandleListen
<1>2. UNCHANGED <<server, lost, sent, puts, up, conn>>
  BY <1>1 DEF ServerListen, ServerRefuse, HandleListen, appVars
<1>3. PICK x : x.kind # "ack" /\ down' = [down EXCEPT ![d] = Append(@, x)]
  BY <1>1 DEF ServerListen, ServerRefuse, Refusal
<1>4. down \in [Devices -> Seq(GenuineResponse)]
  BY DEF OwnInv, Typed
<1>5. /\ Len(down[d]) \in Nat
      /\ Len(Append(down[d], x)) = Len(down[d]) + 1
      /\ \A i \in 1..Len(down[d]) : Append(down[d], x)[i] = down[d][i]
      /\ Append(down[d], x)[Len(down[d]) + 1] = x
  BY SMTT(30), <1>4
<1>6. down'[d] = Append(down[d], x) /\ \A e \in Devices : e # d => down'[e] = down[e]
  BY <1>3, <1>4
<1>7. AcksAreResolved'
  <2> SUFFICES ASSUME NEW e \in Devices, NEW k \in 1..Len(down'[e]),
                      down'[e][k].kind = "ack"
               PROVE  down'[e][k].data \subseteq server \cup lost
    BY <1>2 DEF AcksAreResolved
  <2>1. k \in 1..Len(down[e]) /\ down'[e][k] = down[e][k]
    <3>1. CASE e # d
      BY <3>1, <1>6
    <3>2. CASE e = d
      BY SMTT(30), <3>2, <1>3, <1>5, <1>6
    <3> QED
      BY <3>1, <3>2
  <2> QED
    BY <2>1 DEF OrderInv, AcksAreResolved
<1> QED
  BY <1>2, <1>7, OrderOnlyAcks

\* An acknowledgement takes one resolved message off the outstanding puts.
LEMMA AckedMessage ==
    ASSUME OwnInv, OrderInv, NEW d \in Devices, ReceiveAck(d), UNCHANGED appVars
    PROVE  \E m \in server \cup lost :
             /\ puts' = [puts EXCEPT ![d] = Without(@, m)]
             /\ down[d] # <<>> /\ down' = [down EXCEPT ![d] = Tail(@)]
             /\ UNCHANGED <<server, lost, sent, up, conn>>
<1> DEFINE m == Written(Head(down[d]))
<1>1. /\ Arrives(d, "ack") /\ down[d] # <<>>
      /\ puts' = [puts EXCEPT ![d] = Without(@, m)]
      /\ down' = [down EXCEPT ![d] = Tail(@)]
      /\ UNCHANGED <<server, lost, sent, up, conn>>
  BY DEF ReceiveAck, Arrives, appVars
<1>2. Head(down[d]).data = {m}
  BY <1>1, WrittenGenuine
<1>3. down[d] \in Seq(GenuineResponse)
  BY DEF OwnInv, Typed
<1>4. Head(down[d]) = down[d][1] /\ 1 \in 1..Len(down[d])
  BY SMTT(30), <1>1, <1>3, ElementsTail
<1>5. m \in server \cup lost
  BY <1>1, <1>2, <1>4 DEF OrderInv, AcksAreResolved, Arrives
<1> HIDE DEF m
<1> QED
  BY <1>1, <1>5

LEMMA OrderReceiveAck ==
    ASSUME OwnInv, OrderInv, NEW d \in Devices, ReceiveAck(d), UNCHANGED appVars
    PROVE  OrderInv'
<1>1. PICK m \in server \cup lost :
             /\ puts' = [puts EXCEPT ![d] = Without(@, m)]
             /\ down[d] # <<>> /\ down' = [down EXCEPT ![d] = Tail(@)]
             /\ UNCHANGED <<server, lost, sent, up, conn>>
  BY AckedMessage
<1>2. puts \in [Devices -> Seq(Genuine)]
  BY OrderTypes
<1>3. puts'[d] = Without(puts[d], m) /\ \A e \in Devices : e # d => puts'[e] = puts[e]
  BY <1>1, <1>2
<1>4. /\ Elements(puts'[d]) \subseteq Elements(puts[d])
      /\ Elements(puts[d]) \subseteq Elements(puts'[d]) \cup {m}
      /\ Ascending(puts[d]) => Ascending(puts'[d])
  <2>1. puts[d] \in Seq(Genuine)
    BY <1>2
  <2> QED
    BY SMTT(30), <2>1, <1>3, WithoutProperties
<1>5. \A e \in Devices : /\ Elements(puts'[e]) \subseteq Elements(puts[e])
                         /\ Elements(puts[e]) \subseteq Elements(puts'[e]) \cup {m}
                         /\ Ascending(puts[e]) => Ascending(puts'[e])
  BY SMTT(30), <1>3, <1>4
<1>6. PutsInOrder'
  BY SMTT(30), <1>1, <1>5 DEF OrderInv, PutsInOrder
<1>7. PutsOnTheWay' /\ RefusedOnly'
  <2>1. PutsOnTheWay'
    BY SMTT(30), <1>1, <1>5 DEF OrderInv, PutsOnTheWay
  <2>2. RefusedOnly'
    BY <1>1, <1>5 DEF OrderInv, RefusedOnly
  <2> QED
    BY <2>1, <2>2
<1>8. AcksAreResolved' /\ ResolvedWereSent'
  BY <1>1, AcksTail DEF OrderInv, ResolvedWereSent
<1>9. NoOvertaking'
  <2>1. \A e \in Devices : Unresolved(e)' \subseteq Unresolved(e)
    BY <1>1, <1>5 DEF Unresolved
  <2> QED
    BY <2>1, <1>1 DEF OrderInv, NoOvertaking
<1>10. NothingVanishes'
  <2>1. \A e \in Devices : server \cup lost \cup Elements(puts[e])
                               \subseteq server' \cup lost' \cup Elements(puts'[e])
    BY <1>1, <1>5
  <2> QED
    BY SMTT(30), <2>1, <1>1 DEF OrderInv, NothingVanishes
<1> QED
  BY <1>6, <1>7, <1>8, <1>9, <1>10 DEF OrderInv

LEMMA OrderConnect ==
    ASSUME OwnInv, OrderInv, NEW d \in Devices, Connect(d)
    PROVE  OrderInv'
<1>1. /\ up' = [up EXCEPT ![d] = puts[d]]
      /\ conn' = [conn EXCEPT ![d] = TRUE]
      /\ UNCHANGED <<server, lost, sent, puts, down>>
  BY DEF Connect, Reconnect, appVars
<1>2. up \in [Devices -> Seq(Genuine)] /\ conn \in [Devices -> BOOLEAN]
  BY DEF OwnInv, Typed
<1>3. /\ up'[d] = puts[d] /\ conn'[d]
      /\ \A e \in Devices : e # d => up'[e] = up[e] /\ conn'[e] = conn[e]
  BY SMTT(30), <1>1, <1>2
<1>4. PutsInOrder' /\ PutsOnTheWay'
  BY SMTT(30), <1>1, <1>3 DEF OrderInv, PutsInOrder, PutsOnTheWay
<1>5. RefusedOnly' /\ ResolvedWereSent' /\ AcksAreResolved'
  BY <1>1, <1>3 DEF OrderInv, RefusedOnly, ResolvedWereSent, AcksAreResolved
<1>6. NoOvertaking' /\ NothingVanishes'
  BY SMTT(30), <1>1 DEF OrderInv, NoOvertaking, NothingVanishes, Unresolved
<1> QED
  BY <1>4, <1>5, <1>6 DEF OrderInv

LEMMA OrderDrop ==
    ASSUME OwnInv, OrderInv, NEW d \in Devices, Drop(d)
    PROVE  OrderInv'
<1>0. Elements(<<>>) = {} /\ Len(<<>>) = 0
  BY ElementsEmpty
<1>1. /\ up' = [up EXCEPT ![d] = <<>>] /\ down' = [down EXCEPT ![d] = <<>>]
      /\ conn' = [conn EXCEPT ![d] = FALSE]
      /\ UNCHANGED <<server, lost, sent, puts>>
  BY DEF Drop, Disconnect
<1>2. /\ up \in [Devices -> Seq(Genuine)] /\ conn \in [Devices -> BOOLEAN]
      /\ down \in [Devices -> Seq(GenuineResponse)]
  BY DEF OwnInv, Typed
<1>3. /\ up'[d] = <<>> /\ down'[d] = <<>> /\ ~conn'[d]
      /\ \A e \in Devices : e # d => /\ up'[e] = up[e] /\ conn'[e] = conn[e]
                                     /\ down'[e] = down[e]
  BY SMTT(30), <1>1, <1>2
<1>4. PutsInOrder' /\ PutsOnTheWay'
  BY SMTT(30), <1>0, <1>1, <1>3 DEF OrderInv, PutsInOrder, PutsOnTheWay, Ascending
<1>5. RefusedOnly' /\ ResolvedWereSent' /\ AcksAreResolved'
  BY SMTT(30), <1>0, <1>1, <1>3 DEF OrderInv, RefusedOnly, ResolvedWereSent, AcksAreResolved
<1>6. NoOvertaking' /\ NothingVanishes'
  BY SMTT(30), <1>1 DEF OrderInv, NoOvertaking, NothingVanishes, Unresolved
<1> QED
  BY <1>4, <1>5, <1>6 DEF OrderInv

\* What the end of a process does to the variables OrderInv is about.
LEMMA KilledState ==
    ASSUME OwnInv, OrderInv, NEW d \in Devices, Kill(d)
    PROVE  /\ puts'[d] = <<>> /\ up'[d] = <<>> /\ down'[d] = <<>> /\ ~conn'[d]
           /\ \A e \in Devices : e # d =>
                 /\ puts'[e] = puts[e] /\ up'[e] = up[e]
                 /\ down'[e] = down[e] /\ conn'[e] = conn[e]
           /\ lost' = lost \cup (Elements(puts[d]) \ server)
           /\ UNCHANGED <<server, sent>>
<1>1. /\ up' = [up EXCEPT ![d] = <<>>] /\ down' = [down EXCEPT ![d] = <<>>]
      /\ conn' = [conn EXCEPT ![d] = FALSE] /\ puts' = [puts EXCEPT ![d] = <<>>]
      /\ lost' = lost \cup (Elements(puts[d]) \ server)
      /\ UNCHANGED <<server, sent>>
  BY DEF Kill, Restart
<1>2. /\ up \in [Devices -> Seq(Genuine)] /\ conn \in [Devices -> BOOLEAN]
      /\ down \in [Devices -> Seq(GenuineResponse)]
      /\ puts \in [Devices -> Seq(Genuine)]
  BY DEF OwnInv, Typed
<1> QED
  BY <1>1, <1>2

LEMMA OrderKill ==
    ASSUME OwnInv, OrderInv, NEW d \in Devices, Kill(d)
    PROVE  OrderInv'
<1>0. Elements(<<>>) = {} /\ Len(<<>>) = 0
  BY ElementsEmpty
<1>1. /\ puts'[d] = <<>> /\ up'[d] = <<>> /\ down'[d] = <<>> /\ ~conn'[d]
      /\ \A e \in Devices : e # d =>
            /\ puts'[e] = puts[e] /\ up'[e] = up[e]
            /\ down'[e] = down[e] /\ conn'[e] = conn[e]
      /\ lost' = lost \cup (Elements(puts[d]) \ server)
      /\ server' = server /\ sent' = sent
  BY KilledState
<1>2. \A e \in Devices : \A x \in Elements(puts[e]) \cup Elements(up[e]) :
          x.device = e /\ x.seq <= sent[e]
  BY DEF OrderInv, PutsInOrder
<1>3. PutsInOrder'
  BY SMTT(30), <1>0, <1>1 DEF OrderInv, PutsInOrder, Ascending
<1>4. ResolvedWereSent'
  BY <1>1, <1>2 DEF OrderInv, ResolvedWereSent
<1>5. PutsOnTheWay'
  BY <1>0, <1>1 DEF OrderInv, PutsOnTheWay
<1>6. AcksAreResolved'
  BY SMTT(30), <1>0, <1>1 DEF OrderInv, AcksAreResolved
<1>7. RefusedOnly'
  <2>1. server' \cap Denied = {}
    BY <1>1 DEF OrderInv, RefusedOnly
  <2>2. ASSUME NEW e \in Devices
        PROVE  (Elements(puts'[e]) \cup Elements(up'[e])) \cap lost' \subseteq Denied
    <3>1. CASE e = d
      BY SMTT(30), <3>1, <1>0, <1>1
    <3>2. CASE e # d
      <4>1. \A x \in Elements(puts[e]) \cup Elements(up[e]) : x \notin Elements(puts[d])
        BY <3>2, <1>2
      <4>2. (Elements(puts[e]) \cup Elements(up[e])) \cap lost \subseteq Denied
        BY DEF OrderInv, RefusedOnly
      <4> QED
        BY <3>2, <4>1, <4>2, <1>1
    <3> QED
      BY <3>1, <3>2
  <2> QED
    BY <2>1, <2>2 DEF RefusedOnly
<1>8. NoOvertaking'
  <2>1. \A e \in Devices : Unresolved(e)' \subseteq Unresolved(e)
    BY <1>0, <1>1 DEF Unresolved
  <2> QED
    BY <2>1, <1>1 DEF OrderInv, NoOvertaking
<1>9. NothingVanishes'
  <2>1. \A e \in Devices : server \cup lost \cup Elements(puts[e])
                               \subseteq server' \cup lost' \cup Elements(puts'[e])
    BY <1>0, <1>1
  <2> QED
    BY <2>1, <1>1 DEF OrderInv, NothingVanishes
<1> QED
  BY SMTT(30), <1>3, <1>4, <1>5, <1>6, <1>7, <1>8, <1>9 DEF OrderInv

\* The actions, as far as the order of delivery is concerned.
LEMMA StepCases ==
    ASSUME OwnInv, [Next]_vars
    PROVE  \/ UNCHANGED <<server, lost, sent, puts, up, down, conn>>
           \/ \E d \in Devices :
                \/ \E r \in Users : sendMessage(d, r)
                \/ HandlePut(d)
                \/ HandleListen(d)
                \/ (ReceiveSnap(d) \/ ReceiveRefusal(d) \/ ReceiveChild(d)) /\ UNCHANGED appVars
                \/ ReceiveAck(d) /\ UNCHANGED appVars
                \/ Connect(d)
                \/ Drop(d)
                \/ Kill(d)
<1>1. CASE UNCHANGED vars
  BY <1>1 DEF vars, dbVars, appVars
<1>2. CASE Next
  <2>1. PICK d \in Devices : UserStep(d) \/ SystemStep(d) \/ Drop(d) \/ Kill(d)
    BY SMTT(30), <1>2 DEF Next
  <2>2. CASE UserStep(d)
    <3>1. CASE \E r \in Users : OpenChat(d, r)
      BY <3>1 DEF OpenChat, Observe
    <3>2. CASE tappedOnBackButton(d)
      BY <3>2 DEF tappedOnBackButton, dbVars
    <3>3. CASE SendText(d)
      <4>1. screen[d] \in Users /\ sendMessage(d, screen[d])
        BY <3>3 DEF SendText, OwnInv, Typed
      <4> QED
        BY <4>1
    <3>4. CASE SendVoice(d)
      <4>1. PICK i \in DOMAIN tables[d] : sendMessage(d, tables[d][i].partner)
        BY <3>4 DEF SendVoice
      <4>2. tables[d] \in Seq(Table)
        BY DEF OwnInv, Typed
      <4>3. i \in 1..Len(tables[d])
        BY SMTT(30), <4>2
      <4>4. tables[d][i] \in Table
        BY SMTT(30), <4>2, <4>3
      <4>5. tables[d][i].partner \in Users
        BY <4>4 DEF Table
      <4> QED
        BY <4>1, <4>5
    <3> QED
      BY SMTT(30), <2>2, <3>1, <3>2, <3>3, <3>4 DEF UserStep
  <2>3. CASE SystemStep(d)
    <3>1. CASE receiveMessage(d)
      BY SMTT(30), <3>1 DEF receiveMessage
    <3>2. CASE skipEvent(d)
      BY <3>2 DEF skipEvent, appVars
    <3> QED
      BY <2>3, <3>1, <3>2 DEF SystemStep, Receive
  <2> QED
    BY <2>1, <2>2, <2>3
<1> QED
  BY <1>1, <1>2

LEMMA OrderStep == OwnInv /\ OrderInv /\ [Next]_vars => OrderInv'
<1> SUFFICES ASSUME OwnInv, OrderInv, [Next]_vars PROVE OrderInv'
  OBVIOUS
<1> QED
  BY SMTT(30), StepCases, OrderUnchanged, OrderSend, OrderHandlePut, OrderHandleListen,
     OrderReceiveData, OrderReceiveAck, OrderConnect, OrderDrop, OrderKill

\* OrderInv is inductive relative to OwnInv: along every behaviour of the
\* client and the server the puts stay in order, what is on its way is what is
\* held, and an answer is only given for a resolved message.
THEOREM OrderInvariant == Spec => []OrderInv
BY OwnInvariant, OrderInit, OrderStep, PTL DEF Spec

\* No message overtakes an earlier one of its device: while the client holds an
\* unresolved message, nothing the device sent later has been stored, whatever
\* is lost or sent again in between (putInternal, sendPut, restoreState).
THEOREM DeliveredInOrder == Spec => []NoOvertaking
<1>1. OrderInv => NoOvertaking
  BY DEF OrderInv
<1> QED
  BY <1>1, OrderInvariant, PTL

\* Every message sent is stored, refused, lost with its process or still held
\* by the client of its device (sendMessage, set, sendPut, onDisconnect).
THEOREM NoneVanishes == Spec => []NothingVanishes
<1>1. OrderInv => NothingVanishes
  BY DEF OrderInv
<1> QED
  BY <1>1, OrderInvariant, PTL

-----------------------------------------------------------------------------
(* Messaging implements Conversation: under the mapping that takes the     *)
(* unresolved messages of all devices for the waiting ones and the         *)
(* server's for the delivered ones, every step of Messaging is a step of   *)
(* Conversation or leaves its variables alone.                             *)

LEMMA WaitingMember ==
    ASSUME OwnInv, OrderInv
    PROVE  /\ \A d \in Devices : \A w \in Unresolved(d) :
                 w.device = d /\ w \in Waiting /\ w \in Message
           /\ \A w \in Waiting : w.device \in Devices /\ w \in Unresolved(w.device)
<1>1. \A d \in Devices : \A w \in Unresolved(d) : w.device = d
  BY DEF Unresolved, OrderInv, PutsInOrder
<1>2. \A d \in Devices : Elements(puts[d]) \subseteq Message
  <2> TAKE d \in Devices
  <2>1. puts[d] \in Seq(Genuine)
    BY OrderTypes
  <2>2. Elements(puts[d]) \subseteq Genuine
    BY <2>1, ElementsOfSeq
  <2> QED
    BY <2>2 DEF Genuine
<1> QED
  BY <1>1, <1>2 DEF Waiting, Unresolved

\* A step that changes no message's standing.
LEMMA WaitingUnchanged ==
    ASSUME \A d \in Devices : Unresolved(d)' = Unresolved(d),
           UNCHANGED <<server, lost, sent>>
    PROVE  UNCHANGED Abstract!vars
<1>1. Waiting' = Waiting
  BY DEF Waiting
<1> QED
  BY <1>1 DEF Abstract!vars

LEMMA SendRefines ==
    ASSUME OwnInv, OrderInv, NEW d \in Devices, NEW r \in Users, sendMessage(d, r)
    PROVE  \E m \in Message : Abstract!Send(m)
<1>1. PICK m \in Genuine :
             /\ m.device = d /\ m.seq = sent[d] + 1
             /\ sent' = [sent EXCEPT ![d] = @ + 1]
             /\ puts' = [puts EXCEPT ![d] = Append(@, m)]
             /\ up' = IF conn[d] THEN [up EXCEPT ![d] = Append(@, m)] ELSE up
             /\ UNCHANGED <<server, lost, down, conn>>
  BY SentMessage
<1>2. /\ puts \in [Devices -> Seq(Genuine)] /\ sent \in [Devices -> 0..MaxSends]
  BY OrderTypes
<1>3. sent[d] \in Nat
  BY SMTT(30), <1>2, MaxSendsAssumption
<1>4. m \notin server \cup lost
  BY SMTT(30), <1>1, <1>3 DEF OrderInv, ResolvedWereSent
<1>5. puts[d] \in Seq(Genuine)
  BY <1>2
<1>6. Elements(Append(puts[d], m)) = Elements(puts[d]) \cup {m}
  BY SMTT(30), <1>5, ElementsAppend
<1>7. Unresolved(d)' = Unresolved(d) \cup {m}
  BY <1>1, <1>2, <1>4, <1>6 DEF Unresolved
<1>8. \A e \in Devices : e # d => Unresolved(e)' = Unresolved(e)
  BY <1>1, <1>2 DEF Unresolved
<1>9. Waiting' = Waiting \cup {m}
  BY <1>7, <1>8 DEF Waiting
<1>10. m \in Message
  BY DEF Genuine
<1>11. sent' = [sent EXCEPT ![m.device] = m.seq]
  BY <1>1
<1> QED
  BY <1>1, <1>9, <1>10, <1>11 DEF Abstract!Send

LEMMA HandlePutRefines ==
    ASSUME OwnInv, OrderInv, NEW d \in Devices, HandlePut(d)
    PROVE  \/ UNCHANGED Abstract!vars
           \/ \E m \in Message : Abstract!Deliver(m) \/ Abstract!Refuse(m)
<1> DEFINE m == Head(up[d])
<1>1. /\ up[d] # <<>> /\ UNCHANGED <<puts, sent>>
  BY DEF HandlePut, ServerPut
<1>2. /\ m \in Genuine /\ m.device = d /\ conn[d]
      /\ m \in Elements(up[d])
      /\ \A w \in Unresolved(d) : w = m \/ m.seq < w.seq
  BY <1>1, HeadIsFirst
<1>3. /\ server' \in {server, server \cup {m}}
      /\ lost' \in {lost, lost \cup {m}}
      /\ m \in server' \cup lost'
      /\ m \in Denied => server' = server
      /\ m \notin Denied => lost' = lost
  BY PushedResponses
<1> HIDE DEF m
<1>4. m \in Message /\ m.seq \in Nat
  BY <1>2, OrderTypes DEF Genuine
<1>5. CASE m \in server \cup lost
  <2>1. m \in lost => m \in Denied
    BY <1>2 DEF OrderInv, RefusedOnly
  <2>2. m \in server => m \notin Denied
    BY DEF OrderInv, RefusedOnly
  <2>3. server' = server /\ lost' = lost
    BY <1>5, <1>3, <2>1, <2>2
  <2>4. \A e \in Devices : Unresolved(e)' = Unresolved(e)
    BY <1>1, <2>3 DEF Unresolved
  <2> QED
    BY <1>1, <2>3, <2>4, WaitingUnchanged
<1>6. CASE m \notin server \cup lost
  <2>1. m \in Unresolved(d)
    BY <1>6, <1>2 DEF OrderInv, PutsOnTheWay, Unresolved
  <2>2. m \in Waiting /\ \A w \in Waiting : w.device = d => w \in Unresolved(d)
    BY <2>1, WaitingMember
  <2>3. \A w \in Waiting : w.device = m.device => m.seq <= w.seq
    <3>1. m.seq <= m.seq
      BY SMTT(30), <1>4
    <3>2. \A w \in Unresolved(d) : w.seq \in Nat
      BY SMTT(30), WaitingMember, OrderTypes, MaxSendsAssumption DEF Message
    <3> QED
      BY SMTT(30), <1>2, <1>4, <2>2, <3>1, <3>2
  <2>4. Abstract!First(m)
    BY <2>3 DEF Abstract!First
  <2>5. \A e \in Devices : Unresolved(e)' = Unresolved(e) \ {m}
    BY <1>1, <1>3 DEF Unresolved
  <2>6. Waiting' = Waiting \ {m}
    BY SMTT(30), <2>5 DEF Waiting
  <2>7. \/ server' = server \cup {m} /\ lost' = lost
        \/ server' = server /\ lost' = lost \cup {m}
    BY <1>3, <1>6
  <2> QED
    BY <1>1, <1>4, <2>2, <2>4, <2>6, <2>7 DEF Abstract!Deliver, Abstract!Refuse
<1> QED
  BY <1>5, <1>6

LEMMA ReceiveAckRefines ==
    ASSUME OwnInv, OrderInv, NEW d \in Devices, ReceiveAck(d), UNCHANGED appVars
    PROVE  UNCHANGED Abstract!vars
<1>1. PICK m \in server \cup lost :
             /\ puts' = [puts EXCEPT ![d] = Without(@, m)]
             /\ down[d] # <<>> /\ down' = [down EXCEPT ![d] = Tail(@)]
             /\ UNCHANGED <<server, lost, sent, up, conn>>
  BY AckedMessage
<1>2. puts \in [Devices -> Seq(Genuine)]
  BY OrderTypes
<1>3. puts[d] \in Seq(Genuine)
  BY <1>2
<1>4. /\ Elements(Without(puts[d], m)) \subseteq Elements(puts[d])
      /\ Elements(puts[d]) \subseteq Elements(Without(puts[d], m)) \cup {m}
  BY <1>3, WithoutProperties
<1>5. \A e \in Devices : Unresolved(e)' = Unresolved(e)
  BY <1>1, <1>2, <1>4 DEF Unresolved
<1> QED
  BY <1>1, <1>5, WaitingUnchanged

LEMMA KillRefines ==
    ASSUME OwnInv, OrderInv, NEW d \in Devices, Kill(d)
    PROVE  Abstract!LoseAll(d)
<1> DEFINE own == { w \in Waiting : w.device = d }
<1>1. /\ puts'[d] = <<>>
      /\ \A e \in Devices : e # d => puts'[e] = puts[e]
      /\ lost' = lost \cup (Elements(puts[d]) \ server)
      /\ UNCHANGED <<server, sent>>
  BY KilledState
<1>2. own = Unresolved(d)
  BY WaitingMember
<1>3. lost' = lost \cup own
  BY <1>1, <1>2 DEF Unresolved
<1>4. Unresolved(d)' = {}
  BY <1>1, ElementsEmpty DEF Unresolved
<1>5. ASSUME NEW e \in Devices, e # d PROVE Unresolved(e)' = Unresolved(e)
  <2>1. \A x \in Elements(puts[e]) : x \notin Elements(puts[d])
    BY <1>5 DEF OrderInv, PutsInOrder
  <2> QED
    BY <1>1, <1>5, <2>1 DEF Unresolved
<1>6. Waiting' = Waiting \ own
  <2>1. \A w : w \in Waiting' <=> \E e \in Devices : e # d /\ w \in Unresolved(e)
    BY <1>4, <1>5 DEF Waiting
  <2>2. \A w : w \in Waiting \ own <=> \E e \in Devices : e # d /\ w \in Unresolved(e)
    BY <1>2, WaitingMember DEF Waiting
  <2> QED
    BY <2>1, <2>2
<1> QED
  BY <1>1, <1>3, <1>6 DEF Abstract!LoseAll

LEMMA StepRefines == OwnInv /\ OrderInv /\ [Next]_vars => [Abstract!Next]_(Abstract!vars)
<1> SUFFICES ASSUME OwnInv, OrderInv, [Next]_vars
             PROVE  Abstract!Next \/ UNCHANGED Abstract!vars
  OBVIOUS
<1>1. CASE UNCHANGED <<server, lost, sent, puts>>
  <2>1. \A e \in Devices : Unresolved(e)' = Unresolved(e)
    BY <1>1 DEF Unresolved
  <2> QED
    BY <1>1, <2>1, WaitingUnchanged
<1>2. ASSUME NEW d \in Devices, NEW r \in Users, sendMessage(d, r)
      PROVE  Abstract!Next
  BY <1>2, SendRefines DEF Abstract!Next
<1>3. ASSUME NEW d \in Devices, HandlePut(d)
      PROVE  Abstract!Next \/ UNCHANGED Abstract!vars
  BY <1>3, HandlePutRefines DEF Abstract!Next
<1>4. ASSUME NEW d \in Devices, ReceiveAck(d), UNCHANGED appVars
      PROVE  UNCHANGED Abstract!vars
  BY <1>4, ReceiveAckRefines
<1>5. ASSUME NEW d \in Devices, Kill(d)
      PROVE  Abstract!Next
  BY SMTT(30), <1>5, KillRefines DEF Abstract!Next
<1>6. ASSUME NEW d \in Devices,
             \/ HandleListen(d)
             \/ (ReceiveSnap(d) \/ ReceiveRefusal(d) \/ ReceiveChild(d)) /\ UNCHANGED appVars
             \/ Connect(d)
             \/ Drop(d)
      PROVE  UNCHANGED <<server, lost, sent, puts>>
  BY <1>6 DEF HandleListen, ServerListen, ServerRefuse, ReceiveSnap, ReceiveRefusal,
              ReceiveChild, Connect, Reconnect, Drop, Disconnect, appVars
<1> QED
  BY SMTT(30), StepCases, <1>1, <1>2, <1>3, <1>4, <1>5, <1>6

\* The application, the database client and the server together deliver every
\* message at most once, unchanged and in the order of its device, or lose it:
\* Messaging is a refinement of Conversation.
THEOREM Refinement == Spec => Implements
<1>1. Init => Abstract!Init
  <2> SUFFICES ASSUME Init PROVE Abstract!Init
    OBVIOUS
  <2>1. \A d \in Devices : Unresolved(d) = {}
    BY ElementsEmpty DEF Init, DbInit, Unresolved
  <2>2. Waiting = {}
    BY <2>1 DEF Waiting
  <2> QED
    BY <2>2 DEF Init, DbInit, Abstract!Init
<1> QED
  BY <1>1, StepRefines, OwnInvariant, OrderInvariant, PTL
     DEF Spec, Implements, Abstract!Spec

-----------------------------------------------------------------------------
(* What a queue still holds, as predicates on the queue, and how arrivals   *)
(* and departures keep them. CurrentProofs builds its invariant from these. *)

IsData(r, n) == r.kind \in {"snap", "child"} /\ r.node = n

\* What a device is told about node n. Data is only under way for a node the
\* server reports on (h). A listen that the server has answered and the client
\* not (u) has its data under way, and no older data of n is before it. What the
\* server stores (S) is in the cache (c) or under way (q).
DataOK(q, S, c, h, u, n) ==
    /\ c \subseteq S
    /\ \A k \in 1..Len(q) : IsData(q[k], n) => n \in h /\ q[k].data \subseteq S
    /\ \A k \in 1..Len(q) : q[k].kind = "snap" /\ q[k].node = n =>
          n \in u /\ \A j \in 1..Len(q) : j < k => ~IsData(q[j], n)
    /\ n \in h /\ n \in u => \E k \in 1..Len(q) : q[k].kind = "snap" /\ q[k].node = n
    /\ n \in h => \A m \in At(n, S) :
          \/ n \notin u /\ m \in c
          \/ \E k \in 1..Len(q) : IsData(q[k], n) /\ m \in q[k].data

\* Every put of p is in u, on its way to the server, or its answer is in q.
Answered(p, u, q) ==
    \A m \in Elements(p) :
        m \in Elements(u) \/ \E k \in 1..Len(q) : q[k].kind = "ack" /\ q[k].data = {m}

Distinct(s) == \A i, j \in 1..Len(s) : s[i] = s[j] => i = j

LastFor(q, i, k) == i \in q[k].todo /\ \A j \in 1..Len(q) : k < j => i \notin q[j].todo

\* The last event in q for table i brings the view v, and if there is none the
\* table shows v.
ShownOK(q, shown, v, i) ==
    /\ \A k \in 1..Len(q) : LastFor(q, i, k) => q[k].snap = v
    /\ (\A k \in 1..Len(q) : i \notin q[k].todo) => shown = v

-----------------------------------------------------------------------------
(* Queues of responses.                                                    *)

LEMMA AppendFacts ==
    ASSUME NEW S, NEW q \in Seq(S), NEW x \in S
    PROVE  /\ Len(q) \in Nat /\ Len(Append(q, x)) = Len(q) + 1
           /\ \A k \in 1..Len(q) : k \in 1..(Len(q) + 1) /\ Append(q, x)[k] = q[k]
           /\ Append(q, x)[Len(q) + 1] = x /\ Len(q) + 1 \in 1..(Len(q) + 1)
           /\ \A k \in 1..(Len(q) + 1) : k \in 1..Len(q) \/ k = Len(q) + 1
<1>1. /\ Len(q) \in Nat /\ Len(Append(q, x)) = Len(q) + 1
      /\ \A k \in 1..Len(q) : Append(q, x)[k] = q[k]
      /\ Append(q, x)[Len(q) + 1] = x
  BY SMTT(30)
<1> QED
  BY SMTT(30), <1>1

LEMMA TailFacts ==
    ASSUME NEW S, NEW q \in Seq(S), q # <<>>
    PROVE  /\ Len(q) \in Nat /\ Len(q) >= 1 /\ Head(q) = q[1] /\ Tail(q) \in Seq(S)
           /\ Len(Tail(q)) = Len(q) - 1 /\ 1 \in 1..Len(q)
           /\ \A k \in 1..(Len(q) - 1) : k + 1 \in 1..Len(q) /\ Tail(q)[k] = q[k + 1]
           /\ \A k \in 1..Len(q) : k # 1 =>
                 k - 1 \in 1..(Len(q) - 1) /\ Tail(q)[k - 1] = q[k]
<1>1. /\ Len(q) \in Nat /\ Len(q) >= 1 /\ Head(q) = q[1] /\ Tail(q) \in Seq(S)
      /\ Len(Tail(q)) = Len(q) - 1
      /\ \A k \in 1..(Len(q) - 1) : Tail(q)[k] = q[k + 1]
  BY ElementsTail, SeqFacts
<1>2. \A k \in 1..Len(q) : k # 1 => k - 1 \in 1..(Len(q) - 1) /\ (k - 1) + 1 = k
  BY SMTT(30), <1>1
<1>3. \A k \in 1..(Len(q) - 1) : k + 1 \in 1..Len(q)
  BY SMTT(30), <1>1
<1>4. ASSUME NEW k \in 1..Len(q), k # 1 PROVE Tail(q)[k - 1] = q[k]
  BY <1>1, <1>2, <1>4
<1> QED
  BY SMTT(30), <1>1, <1>2, <1>3, <1>4

\* Something that is not data of n arrives in the queue, or leaves it.
LEMMA DataAppendOther ==
    ASSUME NEW q \in Seq(GenuineResponse), NEW S, NEW c, NEW h, NEW u, NEW n,
           DataOK(q, S, c, h, u, n), NEW r \in GenuineResponse, ~IsData(r, n)
    PROVE  DataOK(Append(q, r), S, c, h, u, n)
<1> DEFINE p == Append(q, r)
<1>1. /\ Len(q) \in Nat /\ Len(p) = Len(q) + 1
      /\ \A k \in 1..Len(q) : k \in 1..(Len(q) + 1) /\ p[k] = q[k]
      /\ p[Len(q) + 1] = r
      /\ \A k \in 1..(Len(q) + 1) : k \in 1..Len(q) \/ k = Len(q) + 1
  BY SMTT(30), AppendFacts
<1> HIDE DEF p
<1>2. r.kind # "snap" \/ r.node # n
  BY DEF IsData
<1>3. /\ c \subseteq S
      /\ \A k \in 1..Len(p) : IsData(p[k], n) => n \in h /\ p[k].data \subseteq S
  BY <1>1 DEF DataOK
<1>4. ASSUME NEW k \in 1..Len(p), p[k].kind = "snap", p[k].node = n
      PROVE  n \in u /\ \A j \in 1..Len(p) : j < k => ~IsData(p[j], n)
  BY <1>1, <1>2, <1>4 DEF DataOK
<1>5. n \in h /\ n \in u => \E k \in 1..Len(p) : p[k].kind = "snap" /\ p[k].node = n
  BY <1>1 DEF DataOK
<1>6. n \in h => \A m \in At(n, S) :
          \/ n \notin u /\ m \in c
          \/ \E k \in 1..Len(p) : IsData(p[k], n) /\ m \in p[k].data
  BY <1>1 DEF DataOK
<1> QED
  BY <1>3, <1>4, <1>5, <1>6 DEF DataOK, p

LEMMA DataTailOther ==
    ASSUME NEW q \in Seq(GenuineResponse), q # <<>>, NEW S, NEW c, NEW h, NEW u, NEW n,
           DataOK(q, S, c, h, u, n), ~IsData(Head(q), n)
    PROVE  DataOK(Tail(q), S, c, h, u, n)
<1> DEFINE p == Tail(q)
<1>1. /\ Len(q) \in Nat /\ Head(q) = q[1] /\ Len(p) = Len(q) - 1
      /\ \A k \in 1..(Len(q) - 1) : k + 1 \in 1..Len(q) /\ p[k] = q[k + 1]
      /\ \A k \in 1..Len(q) : k # 1 => k - 1 \in 1..(Len(q) - 1) /\ p[k - 1] = q[k]
  BY TailFacts
<1> HIDE DEF p
<1>2. ~IsData(q[1], n) /\ (q[1].kind # "snap" \/ q[1].node # n)
  BY <1>1 DEF IsData
<1>3. /\ c \subseteq S
      /\ \A k \in 1..Len(p) : IsData(p[k], n) => n \in h /\ p[k].data \subseteq S
  BY <1>1 DEF DataOK
<1>4. ASSUME NEW k \in 1..Len(p), p[k].kind = "snap", p[k].node = n
      PROVE  n \in u /\ \A j \in 1..Len(p) : j < k => ~IsData(p[j], n)
  BY SMTT(30), <1>1, <1>4 DEF DataOK
<1>5. n \in h /\ n \in u => \E k \in 1..Len(p) : p[k].kind = "snap" /\ p[k].node = n
  BY SMTT(30), <1>1, <1>2 DEF DataOK
<1>6. n \in h => \A m \in At(n, S) :
          \/ n \notin u /\ m \in c
          \/ \E k \in 1..Len(p) : IsData(p[k], n) /\ m \in p[k].data
  BY <1>1, <1>2 DEF DataOK
<1> QED
  BY <1>3, <1>4, <1>5, <1>6 DEF DataOK, p

\* Only whether n is reported on and whether its listen is answered matters, and
\* of what the server stores only what lies below n.
LEMMA DataSame ==
    ASSUME NEW q, NEW S, NEW c, NEW h, NEW u, NEW n, DataOK(q, S, c, h, u, n),
           NEW T, S \subseteq T, n \in h => At(n, T) = At(n, S),
           NEW g, n \in g <=> n \in h, NEW v, n \in h => (n \in v <=> n \in u)
    PROVE  DataOK(q, T, c, g, v, n)
<1>1. /\ c \subseteq T
      /\ \A k \in 1..Len(q) : IsData(q[k], n) => n \in g /\ q[k].data \subseteq T
  BY DEF DataOK
<1>2. \A k \in 1..Len(q) : q[k].kind = "snap" /\ q[k].node = n =>
          n \in v /\ \A j \in 1..Len(q) : j < k => ~IsData(q[j], n)
  BY DEF DataOK, IsData
<1>3. n \in g /\ n \in v => \E k \in 1..Len(q) : q[k].kind = "snap" /\ q[k].node = n
  BY DEF DataOK
<1>4. n \in g => \A m \in At(n, T) :
          \/ n \notin v /\ m \in c
          \/ \E k \in 1..Len(q) : IsData(q[k], n) /\ m \in q[k].data
  BY DEF DataOK
<1> QED
  BY <1>1, <1>2, <1>3, <1>4 DEF DataOK

\* The server tells the device of a new message.
LEMMA DataPushed ==
    ASSUME NEW q \in Seq(GenuineResponse), NEW S, NEW c, NEW h, NEW u, NEW n,
           DataOK(q, S, c, h, u, n), n \in h, NEW m,
           NEW r \in GenuineResponse, r.kind = "child", r.node = n, r.data = {m}
    PROVE  DataOK(Append(q, r), S \cup {m}, c, h, u, n)
<1> DEFINE p == Append(q, r)
<1>1. /\ Len(q) \in Nat /\ Len(p) = Len(q) + 1
      /\ \A k \in 1..Len(q) : k \in 1..(Len(q) + 1) /\ p[k] = q[k]
      /\ p[Len(q) + 1] = r /\ Len(q) + 1 \in 1..(Len(q) + 1)
      /\ \A k \in 1..(Len(q) + 1) : k \in 1..Len(q) \/ k = Len(q) + 1
  BY AppendFacts
<1> HIDE DEF p
<1>2. IsData(r, n)
  BY DEF IsData
<1>3. /\ c \subseteq S \cup {m}
      /\ \A k \in 1..Len(p) : IsData(p[k], n) => n \in h /\ p[k].data \subseteq S \cup {m}
  BY <1>1 DEF DataOK
<1>4. ASSUME NEW k \in 1..Len(p), p[k].kind = "snap", p[k].node = n
      PROVE  n \in u /\ \A j \in 1..Len(p) : j < k => ~IsData(p[j], n)
  BY SMTT(30), <1>1, <1>4 DEF DataOK
<1>5. n \in u => \E k \in 1..Len(p) : p[k].kind = "snap" /\ p[k].node = n
  BY <1>1 DEF DataOK
<1>6. ASSUME NEW x \in At(n, S \cup {m})
      PROVE  \/ n \notin u /\ x \in c
             \/ \E k \in 1..Len(p) : IsData(p[k], n) /\ x \in p[k].data
  <2>1. CASE x = m
    BY <2>1, <1>1, <1>2
  <2>2. CASE x \in At(n, S)
    BY <2>2, <1>1 DEF DataOK
  <2> QED
    BY <2>1, <2>2, <1>6 DEF At
<1> QED
  BY <1>3, <1>4, <1>5, <1>6 DEF DataOK, p

\* The server answers a listen.
LEMMA DataAnswered ==
    ASSUME NEW q \in Seq(GenuineResponse), NEW S, NEW c, NEW h, NEW u, NEW n,
           DataOK(q, S, c, h, u, n), n \notin h, n \in u,
           NEW r \in GenuineResponse, r.kind = "snap", r.node = n, r.data = At(n, S)
    PROVE  DataOK(Append(q, r), S, c, h \cup {n}, u, n)
<1> DEFINE p == Append(q, r)
<1>1. /\ Len(q) \in Nat /\ Len(p) = Len(q) + 1
      /\ \A k \in 1..Len(q) : k \in 1..(Len(q) + 1) /\ p[k] = q[k]
      /\ p[Len(q) + 1] = r /\ Len(q) + 1 \in 1..(Len(q) + 1)
      /\ \A k \in 1..(Len(q) + 1) : k \in 1..Len(q) \/ k = Len(q) + 1
  BY AppendFacts
<1> HIDE DEF p
<1>2. IsData(r, n)
  BY DEF IsData
<1>3. \A k \in 1..Len(q) : ~IsData(q[k], n) /\ (q[k].kind # "snap" \/ q[k].node # n)
  BY DEF DataOK, IsData
<1>4. At(n, S) \subseteq S
  BY DEF At
<1>5. /\ c \subseteq S
      /\ \A k \in 1..Len(p) : IsData(p[k], n) => p[k].data \subseteq S
  BY <1>1, <1>3, <1>4 DEF DataOK
<1>6. ASSUME NEW k \in 1..Len(p), p[k].kind = "snap", p[k].node = n
      PROVE  \A j \in 1..Len(p) : j < k => ~IsData(p[j], n)
  BY SMTT(30), <1>1, <1>3, <1>6
<1>7. \E k \in 1..Len(p) : p[k].kind = "snap" /\ p[k].node = n
  BY <1>1
<1>8. \A m \in At(n, S) : \E k \in 1..Len(p) : IsData(p[k], n) /\ m \in p[k].data
  BY <1>1, <1>2
<1> QED
  BY <1>5, <1>6, <1>7, <1>8 DEF DataOK, p

\* The client takes a pushed message into its cache.
LEMMA DataTaken ==
    ASSUME NEW q \in Seq(GenuineResponse), q # <<>>, NEW S, NEW c, NEW h, NEW u, NEW n,
           DataOK(q, S, c, h, u, n), Head(q).kind = "child", Head(q).node = n
    PROVE  DataOK(Tail(q), S, c \cup Head(q).data, h, u, n)
<1> DEFINE p == Tail(q)
<1>1. /\ Len(q) \in Nat /\ Head(q) = q[1] /\ Len(p) = Len(q) - 1 /\ 1 \in 1..Len(q)
      /\ \A k \in 1..(Len(q) - 1) : k + 1 \in 1..Len(q) /\ p[k] = q[k + 1]
      /\ \A k \in 1..Len(q) : k # 1 => k - 1 \in 1..(Len(q) - 1) /\ p[k - 1] = q[k]
  BY TailFacts
<1> HIDE DEF p
<1>2. IsData(q[1], n) /\ q[1].kind # "snap"
  BY <1>1 DEF IsData
<1>3. \A k \in 1..Len(q) : q[k].kind # "snap" \/ q[k].node # n
  BY SMTT(30), <1>1, <1>2 DEF DataOK
<1>4. n \in h /\ n \notin u
  BY <1>1, <1>2, <1>3 DEF DataOK
<1>5. /\ c \cup q[1].data \subseteq S
      /\ \A k \in 1..Len(p) : IsData(p[k], n) => n \in h /\ p[k].data \subseteq S
  BY <1>1, <1>2 DEF DataOK
<1>6. \A k \in 1..Len(p) : p[k].kind # "snap" \/ p[k].node # n
  BY SMTT(30), <1>1, <1>3
<1>7. ASSUME NEW m \in At(n, S)
      PROVE  \/ m \in c \cup q[1].data
             \/ \E k \in 1..Len(p) : IsData(p[k], n) /\ m \in p[k].data
  <2>1. m \in c \/ \E k \in 1..Len(q) : IsData(q[k], n) /\ m \in q[k].data
    BY <1>4 DEF DataOK
  <2> QED
    BY <2>1, <1>1
<1> QED
  BY <1>1, <1>4, <1>5, <1>6, <1>7 DEF DataOK, p

\* The client takes the answer to its listen.
LEMMA DataLoaded ==
    ASSUME NEW q \in Seq(GenuineResponse), q # <<>>, NEW S, NEW c, NEW h, NEW u, NEW n,
           DataOK(q, S, c, h, u, n), Head(q).kind = "snap", Head(q).node = n
    PROVE  n \in h /\ n \in u /\ DataOK(Tail(q), S, Head(q).data, h, u \ {n}, n)
<1> DEFINE p == Tail(q)
<1>1. /\ Len(q) \in Nat /\ Head(q) = q[1] /\ Len(p) = Len(q) - 1 /\ 1 \in 1..Len(q)
      /\ \A k \in 1..(Len(q) - 1) : k + 1 \in 1..Len(q) /\ p[k] = q[k + 1]
      /\ \A k \in 1..Len(q) : k # 1 => k - 1 \in 1..(Len(q) - 1) /\ p[k - 1] = q[k]
  BY TailFacts
<1> HIDE DEF p
<1>2. IsData(q[1], n) /\ q[1].kind = "snap" /\ q[1].node = n
  BY <1>1 DEF IsData
<1>3. n \in h /\ n \in u /\ q[1].data \subseteq S
  BY <1>1, <1>2 DEF DataOK
<1>4. \A k \in 1..Len(q) : k # 1 => q[k].kind # "snap" \/ q[k].node # n
  <2>1. \A k \in 1..Len(q) : k # 1 => 1 < k
    BY SMTT(30), <1>1
  <2> QED
    BY <2>1, <1>1, <1>2 DEF DataOK
<1>5. \A k \in 1..Len(p) : IsData(p[k], n) => n \in h /\ p[k].data \subseteq S
  BY <1>1 DEF DataOK
<1>6. \A k \in 1..Len(p) : p[k].kind # "snap" \/ p[k].node # n
  <2>1. \A k \in 1..(Len(q) - 1) : k + 1 # 1
    BY SMTT(30), <1>1
  <2> QED
    BY SMTT(30), <2>1, <1>1, <1>4
<1>7. ASSUME NEW m \in At(n, S)
      PROVE  \/ m \in q[1].data
             \/ \E k \in 1..Len(p) : IsData(p[k], n) /\ m \in p[k].data
  <2>1. \E k \in 1..Len(q) : IsData(q[k], n) /\ m \in q[k].data
    BY <1>3 DEF DataOK
  <2> QED
    BY <2>1, <1>1
<1> QED
  BY <1>1, <1>3, <1>5, <1>6, <1>7 DEF DataOK, p

\* Nothing is under way over a lost connection.
LEMMA DataNone ==
    ASSUME NEW S, NEW c, c \subseteq S, NEW u, NEW n
    PROVE  DataOK(<<>>, S, c, {}, u, n)
BY SMTT(30) DEF DataOK

-----------------------------------------------------------------------------
(* Outstanding puts.                                                       *)

\* A put that stays outstanding keeps its request or its answer.
LEMMA StillAnswered ==
    ASSUME NEW p, NEW u, NEW q, Answered(p, u, q), NEW p2, NEW u2, NEW q2,
           Elements(p2) \subseteq Elements(p) \cup Elements(u2),
           \A m \in Elements(p2) \cap Elements(u) : m \in Elements(u2)
              \/ \E k \in 1..Len(q2) : q2[k].kind = "ack" /\ q2[k].data = {m},
           \A k \in 1..Len(q) : q[k].kind = "ack" =>
              \/ \E j \in 1..Len(q2) : q2[j] = q[k]
              \/ \A m \in Elements(p2) : q[k].data # {m}
    PROVE  Answered(p2, u2, q2)
<1> SUFFICES ASSUME NEW m \in Elements(p2), m \notin Elements(u2)
             PROVE  \E k \in 1..Len(q2) : q2[k].kind = "ack" /\ q2[k].data = {m}
  BY DEF Answered
<1>1. CASE m \in Elements(u)
  BY <1>1
<1>2. CASE m \notin Elements(u)
  <2>1. PICK k \in 1..Len(q) : q[k].kind = "ack" /\ q[k].data = {m}
    BY <1>2 DEF Answered
  <2>2. PICK j \in 1..Len(q2) : q2[j] = q[k]
    BY <2>1
  <2> QED
    BY <2>1, <2>2
<1> QED
  BY <1>1, <1>2

LEMMA WithoutRemoves ==
    ASSUME NEW s \in Seq(Genuine), Ascending(s), NEW m
    PROVE  m \notin Elements(Without(s, m))
<1>0. /\ Len(s) \in Nat /\ DOMAIN s = 1..Len(s)
      /\ \A i \in 1..Len(s) : s[i] \in Genuine /\ s[i].seq \in Nat
  BY SMTT(30), MaxSendsAssumption DEF Genuine, Message
<1>1. CASE m \notin Elements(s)
  BY <1>1 DEF Without
<1>2. CASE m \in Elements(s)
  <2> DEFINE k == CHOOSE k \in 1..Len(s) : s[k] = m
             r == [ i \in 1..(Len(s) - 1) |-> IF i < k THEN s[i] ELSE s[i + 1] ]
  <2>1. k \in 1..Len(s) /\ s[k] = m
    BY <1>0, <1>2 DEF Elements
  <2>2. Without(s, m) = r
    BY <1>2 DEF Without
  <2> HIDE DEF k
  <2>3. ASSUME NEW i \in 1..(Len(s) - 1) PROVE r[i] # m
    <3>1. PICK a \in 1..Len(s) : r[i] = s[a] /\ a # k
      <4>1. CASE i < k
        BY SMTT(30), <4>1, <1>0, <2>1
      <4>2. CASE ~(i < k)
        BY SMTT(30), <4>2, <1>0, <2>1
      <4> QED
        BY <4>1, <4>2
    <3>2. a < k \/ k < a
      BY SMTT(30), <3>1, <2>1, <1>0
    <3>3. s[a].seq < s[k].seq \/ s[k].seq < s[a].seq
      BY <3>2, <2>1 DEF Ascending
    <3>4. s[a].seq # s[k].seq
      BY SMTT(30), <3>3, <2>1, <1>0
    <3> QED
      BY <3>1, <3>4, <2>1
  <2>4. DOMAIN r = 1..(Len(s) - 1)
    OBVIOUS
  <2> HIDE DEF r
  <2> QED
    BY <2>2, <2>3, <2>4 DEF Elements
<1> QED
  BY <1>1, <1>2

-----------------------------------------------------------------------------
(* The main queue.                                                         *)

LEMMA ShownAppend ==
    ASSUME NEW q \in Seq(GenuineEvent), NEW e \in GenuineEvent, NEW shown, NEW v, NEW i
    PROVE  /\ i \in e.todo /\ e.snap = v => ShownOK(Append(q, e), shown, v, i)
           /\ i \notin e.todo /\ ShownOK(q, shown, v, i)
                 => ShownOK(Append(q, e), shown, v, i)
<1> DEFINE p == Append(q, e)
<1>1. /\ Len(q) \in Nat /\ Len(p) = Len(q) + 1
      /\ \A k \in 1..Len(q) : k \in 1..(Len(q) + 1) /\ p[k] = q[k]
      /\ p[Len(q) + 1] = e /\ Len(q) + 1 \in 1..(Len(q) + 1)
      /\ \A k \in 1..(Len(q) + 1) : k \in 1..Len(q) \/ k = Len(q) + 1
  BY AppendFacts
<1> HIDE DEF p
<1>2. ASSUME i \in e.todo, e.snap = v PROVE ShownOK(p, shown, v, i)
  <2>1. \A k \in 1..Len(q) : k < Len(q) + 1
    BY SMTT(30), <1>1
  <2> QED
    BY <2>1, <1>1, <1>2 DEF ShownOK, LastFor
<1>3. ASSUME i \notin e.todo, ShownOK(q, shown, v, i) PROVE ShownOK(p, shown, v, i)
  BY <1>1, <1>3 DEF ShownOK, LastFor
<1> QED
  BY <1>2, <1>3 DEF p

\* An event that leaves the queue and has no block for the table.
LEMMA ShownTail ==
    ASSUME NEW q \in Seq(GenuineEvent), q # <<>>, NEW shown, NEW v, NEW i,
           ShownOK(q, shown, v, i), i \notin Head(q).todo
    PROVE  ShownOK(Tail(q), shown, v, i)
<1> DEFINE p == Tail(q)
<1>1. /\ Len(q) \in Nat /\ Head(q) = q[1] /\ Len(p) = Len(q) - 1
      /\ \A k \in 1..(Len(q) - 1) : k + 1 \in 1..Len(q) /\ p[k] = q[k + 1]
      /\ \A k \in 1..Len(q) : k # 1 => k - 1 \in 1..(Len(q) - 1) /\ p[k - 1] = q[k]
  BY TailFacts
<1> HIDE DEF p
<1>2. ASSUME NEW k \in 1..Len(p), LastFor(p, i, k) PROVE p[k].snap = v
  <2>1. \A j \in 1..Len(q) : k + 1 < j => j # 1 /\ k < j - 1
    BY SMTT(30), <1>1
  <2>2. LastFor(q, i, k + 1)
    BY <2>1, <1>1, <1>2 DEF LastFor
  <2>3. k + 1 \in 1..Len(q) /\ p[k] = q[k + 1]
    BY <1>1
  <2> QED
    BY <2>2, <2>3 DEF ShownOK
<1>3. (\A k \in 1..Len(p) : i \notin p[k].todo) => shown = v
  BY <1>1 DEF ShownOK
<1> QED
  BY <1>2, <1>3 DEF ShownOK, p

\* Running the block of table b: the other tables wait for what they waited for,
\* and b shows the snapshot it was given, or waits for a later one.
LEMMA ShownDone ==
    ASSUME NEW q \in Seq(GenuineEvent), q # <<>>, NEW b, b \in Head(q).todo,
           NEW shown, NEW v, NEW i, ShownOK(q, shown, v, i)
    PROVE  ShownOK(Done(q, b), IF i = b THEN Head(q).snap ELSE shown, v, i)
<1> DEFINE e == [q[1] EXCEPT !.todo = @ \ {b}]
           r == [q EXCEPT ![1] = e]
           now == IF i = b THEN Head(q).snap ELSE shown
<1>1. /\ Len(q) \in Nat /\ Len(q) >= 1 /\ DOMAIN q = 1..Len(q) /\ 1 \in 1..Len(q)
      /\ Head(q) = q[1] /\ q[1] \in GenuineEvent
  BY TailFacts, SeqFacts
<1>2. e \in GenuineEvent /\ e.snap = q[1].snap /\ e.todo = q[1].todo \ {b}
  BY <1>1 DEF GenuineEvent, Event
<1>3. r \in Seq(GenuineEvent)
  BY SMTT(30), <1>1, <1>2
<1>4. Len(r) = Len(q) /\ r[1] = e /\ \A k \in 1..Len(q) : k # 1 => r[k] = q[k]
  BY SMTT(30), <1>1, <1>3
<1>5. Done(q, b) = IF e.todo = {} THEN Tail(q) ELSE r
  BY <1>1, <1>2 DEF Done
<1> HIDE DEF e, r
<1>6. ~(1 < 1) /\ \A k \in 1..Len(q) : k # 1 => 1 < k /\ ~(k < 1)
  BY SMTT(30), <1>1
<1>7. ShownOK(r, now, v, i)
  <2>1. ASSUME NEW k \in 1..Len(q), LastFor(r, i, k) PROVE r[k].snap = v
    <3>1. LastFor(q, i, k) /\ (k = 1 => i # b)
      BY <2>1, <1>1, <1>2, <1>4, <1>6 DEF LastFor
    <3> QED
      BY <3>1, <1>2, <1>4 DEF ShownOK
  <2>2. ASSUME \A k \in 1..Len(q) : i \notin r[k].todo PROVE now = v
    <3>1. \A k \in 1..Len(q) : k # 1 => i \notin q[k].todo
      BY <2>2, <1>4
    <3>2. CASE i = b
      <4>1. LastFor(q, i, 1)
        BY <3>1, <3>2, <1>1, <1>6 DEF LastFor
      <4> QED
        BY <4>1, <3>2, <1>1 DEF ShownOK
    <3>3. CASE i # b
      BY <3>1, <3>3, <2>2, <1>1, <1>2, <1>4 DEF ShownOK
    <3> QED
      BY <3>2, <3>3
  <2> QED
    BY <2>1, <2>2, <1>4 DEF ShownOK
<1>8. ASSUME e.todo = {} PROVE ShownOK(Tail(q), now, v, i)
  <2>1. r # <<>> /\ Head(r) = e /\ Tail(r) = Tail(q)
    BY SMTT(30), <1>1, <1>3, <1>4
  <2> QED
    BY <2>1, <1>3, <1>7, <1>8, ShownTail
<1> QED
  BY <1>5, <1>7, <1>8

\* Events behind a queue: the last one for the table decides, if there is one.
LEMMA ShownConcat ==
    ASSUME NEW q \in Seq(GenuineEvent), NEW a \in Seq(GenuineEvent),
           NEW shown, NEW v, NEW i,
           \A k \in 1..Len(a) : LastFor(a, i, k) => a[k].snap = v,
           (\A k \in 1..Len(a) : i \notin a[k].todo) => ShownOK(q, shown, v, i)
    PROVE  ShownOK(q \o a, shown, v, i)
<1> DEFINE p == q \o a
<1>1. /\ Len(q) \in Nat /\ Len(a) \in Nat /\ Len(p) = Len(q) + Len(a)
      /\ \A k \in 1..Len(q) : k \in 1..Len(p) /\ p[k] = q[k]
      /\ \A k \in 1..Len(a) : Len(q) + k \in 1..Len(p) /\ p[Len(q) + k] = a[k]
  BY SMTT(30)
<1> HIDE DEF p
<1>2. \A k \in 1..Len(p) : ~(k \in 1..Len(q)) =>
         k - Len(q) \in 1..Len(a) /\ k = Len(q) + (k - Len(q))
  BY SMTT(30), <1>1
<1>3. ASSUME NEW k \in 1..Len(p), LastFor(p, i, k) PROVE p[k].snap = v
  <2>1. CASE k \in 1..Len(q)
    <3>1. \A x \in 1..Len(a) : k < Len(q) + x
      BY SMTT(30), <2>1, <1>1
    <3>2. \A x \in 1..Len(a) : i \notin a[x].todo
      BY <3>1, <1>1, <1>3 DEF LastFor
    <3>3. LastFor(q, i, k)
      BY <2>1, <1>1, <1>3 DEF LastFor
    <3> QED
      BY <3>2, <3>3, <2>1, <1>1 DEF ShownOK
  <2>2. CASE k \notin 1..Len(q)
    <3>1. PICK x \in 1..Len(a) : k = Len(q) + x
      BY <2>2, <1>2
    <3>2. \A y \in 1..Len(a) : x < y => k < Len(q) + y
      BY SMTT(30), <3>1, <1>1
    <3>3. LastFor(a, i, x)
      BY <3>1, <3>2, <1>1, <1>3 DEF LastFor
    <3> QED
      BY <3>1, <3>3, <1>1
  <2> QED
    BY <2>1, <2>2
<1>4. ASSUME \A k \in 1..Len(p) : i \notin p[k].todo PROVE shown = v
  BY <1>1, <1>4 DEF ShownOK
<1> QED
  BY <1>3, <1>4 DEF ShownOK, p

\* Acknowledging writes: a table that waits for, or shows, its view with them
\* waits for, or shows, its view without them.
LEMMA ShownAcks ==
    ASSUME OwnInv, NEW d \in Devices, NEW ws \in Seq(Genuine), Distinct(ws),
           NEW rest \in SUBSET Genuine, NEW c,
           \A x \in Nodes : c[x] \subseteq GenuineAt(x), NEW l,
           NEW q \in Seq(GenuineEvent), NEW shown,
           NEW i \in 1..Len(observers[d]), observers[d][i] \in l,
           ShownOK(q, shown, c[observers[d][i]]
                      \cup At(observers[d][i], rest \cup Elements(ws)), i)
    PROVE  ShownOK(q \o AckEvents(d, ws, rest, c, l), shown,
                   c[observers[d][i]] \cup At(observers[d][i], rest), i)
<1> DEFINE n == observers[d][i]
           later(k) == { ws[j] : j \in (k + 1)..Len(ws) }
           view(k) == c[ws[k].node] \cup At(ws[k].node, rest \cup later(k))
           changed(k) == ws[k].node \in l /\ ws[k] \notin view(k)
           final == c[n] \cup At(n, rest)
           a == AckEvents(d, ws, rest, c, l)
           Changed(k) == ws[k].node = n /\ changed(k)
<1>1. /\ Len(ws) \in Nat /\ Elements(ws) = { ws[k] : k \in 1..Len(ws) }
      /\ \A k \in 1..Len(ws) : ws[k] \in Genuine
  BY SeqFacts DEF Elements
<1>2. a \in Seq(GenuineEvent)
  BY AckEventsGood DEF GoodQueue
<1>3. \A x : i \in Observing(d, x) <=> x = n
  <2>1. DOMAIN observers[d] = 1..Len(observers[d])
    BY SeqFacts DEF OwnInv, Typed
  <2> QED
    BY <2>1 DEF Observing
<1>4. \/ a = <<>> /\ \A k \in 1..Len(ws) : ~changed(k)
      \/ a = [ k \in 1..Len(ws) |->
                 [ node |-> ws[k].node, snap |-> view(k),
                   todo |-> IF changed(k) THEN Observing(d, ws[k].node) ELSE {} ] ]
  BY DEF AckEvents
<1> HIDE DEF a
<1>5. ASSUME NEW k \in 1..Len(ws), ws[k].node = n, ~Changed(k)
      PROVE  ws[k] \in final
  <2>1. ws[k] \in view(k)
    BY <1>5
  <2>2. ws[k] \notin later(k)
    <3>1. \A j \in (k + 1)..Len(ws) : j \in 1..Len(ws) /\ j # k
      BY SMTT(30), <1>1
    <3> QED
      BY <3>1 DEF Distinct
  <2> QED
    BY <2>1, <2>2, <1>5 DEF At
<1>6. /\ \A k \in 1..Len(a) : i \in a[k].todo => k \in 1..Len(ws) /\ Changed(k)
      /\ \A k \in 1..Len(ws) : Changed(k) =>
            k \in 1..Len(a) /\ i \in a[k].todo /\ a[k].snap = view(k)
  <2>1. CASE a = <<>> /\ \A k \in 1..Len(ws) : ~changed(k)
    <3>1. 1..Len(a) = {}
      BY SMTT(30), <2>1
    <3> QED
      BY <2>1, <3>1
  <2>2. CASE a = [ k \in 1..Len(ws) |->
                 [ node |-> ws[k].node, snap |-> view(k),
                   todo |-> IF changed(k) THEN Observing(d, ws[k].node) ELSE {} ] ]
    <3> HIDE DEF changed, view
    <3>1. Len(a) = Len(ws)
      BY SMTT(30), <2>2, <1>1, <1>2
    <3>2. \A k \in 1..Len(ws) :
             /\ a[k].snap = view(k)
             /\ a[k].todo = IF changed(k) THEN Observing(d, ws[k].node) ELSE {}
      BY <2>2
    <3> QED
      BY <3>1, <3>2, <1>3
  <2> QED
    BY <2>1, <2>2, <1>4
<1>7. ASSUME \A k \in 1..Len(a) : i \notin a[k].todo PROVE ShownOK(q, shown, final, i)
  <2>1. \A k \in 1..Len(ws) : ws[k].node = n => ws[k] \in final
    <3> HIDE DEF Changed, final, view
    <3> QED
      BY <1>5, <1>6, <1>7
  <2>2. c[n] \cup At(n, rest \cup Elements(ws)) = final
    BY <2>1, <1>1 DEF At
  <2> QED
    BY <2>2
<1>8. ASSUME NEW k \in 1..Len(a), LastFor(a, i, k) PROVE a[k].snap = final
  <2>1. /\ k \in 1..Len(ws) /\ Changed(k) /\ a[k].snap = view(k)
        /\ \A j \in 1..Len(ws) : k < j => ~Changed(j)
    <3> HIDE DEF Changed, view
    <3> QED
      BY <1>6, <1>8 DEF LastFor
  <2>2. \A j \in (k + 1)..Len(ws) : j \in 1..Len(ws) /\ k < j
    <3>1. Len(ws) \in Nat /\ k \in 1..Len(ws)
      BY <2>1, <1>1
    <3> QED
      BY SMTT(30), <3>1
  <2>3. \A j \in (k + 1)..Len(ws) : ws[j].node = n => ws[j] \in final
    <3> HIDE DEF Changed, final
    <3> QED
      BY <2>1, <2>2, <1>5
  <2>4. view(k) = final
    <3>1. view(k) = c[n] \cup At(n, rest \cup later(k))
      BY <2>1
    <3>2. \A w \in later(k) : w.node = n => w \in final
      BY <2>3
    <3> HIDE DEF later, view
    <3> QED
      BY <3>1, <3>2 DEF At
  <2> QED
    BY <2>1, <2>4
<1> HIDE DEF final
<1>9. ShownOK(q \o a, shown, final, i)
  BY <1>2, <1>7, <1>8, ShownConcat
<1> QED
  BY <1>9 DEF a, final

LEMMA ShownRaise ==
    ASSUME OwnInv, NEW d \in Devices, NEW q \in Seq(GenuineEvent), NEW n \in Nodes,
           NEW old, NEW new \in SUBSET GenuineAt(n), NEW shown, NEW v,
           NEW i \in 1..Len(observers[d]), observers[d][i] \in loaded[d],
           ShownOK(q, shown, IF observers[d][i] = n THEN old ELSE v, i)
    PROVE  ShownOK(Raise(q, d, n, old, new), shown,
                   IF observers[d][i] = n THEN new ELSE v, i)
<1> DEFINE e == [node |-> n, snap |-> new, todo |-> Observing(d, n)]
<1>1. e \in GenuineEvent
  BY ObservingType, EventGenuine
<1>2. i \in Observing(d, n) <=> observers[d][i] = n
  <2>1. DOMAIN observers[d] = 1..Len(observers[d])
    BY SeqFacts DEF OwnInv, Typed
  <2> QED
    BY <2>1 DEF Observing
<1>3. e.snap = new /\ e.todo = Observing(d, n)
  OBVIOUS
<1>4. Raise(q, d, n, old, new) = IF n \in loaded[d] /\ old # new THEN Append(q, e) ELSE q
  BY DEF Raise
<1> HIDE DEF e
<1>5. CASE observers[d][i] = n
  <2>1. CASE old = new
    BY <2>1, <1>4, <1>5
  <2>2. CASE old # new
    BY <2>2, <1>1, <1>2, <1>3, <1>4, <1>5, ShownAppend
  <2> QED
    BY <2>1, <2>2
<1>6. CASE observers[d][i] # n
  BY <1>1, <1>2, <1>3, <1>4, <1>6, ShownAppend
<1> QED
  BY <1>5, <1>6

=============================================================================
