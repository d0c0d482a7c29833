------------------------------ MODULE Messaging ------------------------------
(***************************************************************************)
(* One-to-one messaging: the chat screens (ChatVC, ChatTableView) and      *)
(* ChatHalper on every device, over the database client and its server.    *)
(*                                                                         *)
(* Opening a chat creates a table and registers a value observer for it.   *)
(* Neither is ever removed: the observer's closure keeps the table. All    *)
(* observers of a device fill the one array ChatHalper.messageclass before *)
(* they hand it to their table. The order of the messages in a table is    *)
(* the subject of ChatTableView; here a table is the set of its messages.  *)
(***************************************************************************)
EXTENDS RealtimeDatabase

CONSTANTS
    MaxTables,  \* bound: chat screens opened by one process
    MaxDrops,   \* bound: connections lost, over all devices
    MaxKills    \* bound: processes ended, over all devices

ASSUME BoundsAssumption == /\ MaxTables \in Nat
                           /\ MaxDrops \in Nat
                           /\ MaxKills \in Nat

VARIABLES
    screen,        \* screen[d]: the partner whose chat is on screen, or Home
    tables,        \* tables[d][i]: the i-th chat table of the process
    messageclass,  \* messageclass[d]: ChatHalper.shared.messageclass
    sent,          \* sent[d]: push ids generated, over all processes of d
    lost,          \* history: messages refused, or lost with a process
    drops, kills   \* history: connections lost, processes ended

appVars == <<screen, tables, messageclass, sent, lost, drops, kills>>
vars == <<dbVars, appVars>>

Home == 0

Table == [partner : Users, message : SUBSET Message]

Init == /\ DbInit
        /\ screen = [d \in Devices |-> Home]
        /\ tables = [d \in Devices |-> <<>>]
        /\ messageclass = [d \in Devices |-> {}]
        /\ sent = [d \in Devices |-> 0]
        /\ lost = {}
        /\ drops = 0 /\ kills = 0

-----------------------------------------------------------------------------
(* The user.                                                               *)

\* didSelectRowAt pushes a ChatVC, whose viewDidLoad calls receiveMessage. Both
\* ids are non-empty, so neither early return of receiveMessage is taken.
OpenChat(d, r) ==
    /\ screen[d] = Home
    /\ r # Account[d]
    /\ Len(tables[d]) < MaxTables
    /\ screen' = [screen EXCEPT ![d] = r]
    /\ tables' = [tables EXCEPT ![d] =
                    Append(@, [partner |-> r, message |-> {}])]
    /\ Observe(d, createNode(Account[d], r))
    /\ UNCHANGED <<messageclass, sent, lost, drops, kills>>

tappedOnBackButton(d) ==
    /\ screen[d] # Home
    /\ screen' = [screen EXCEPT ![d] = Home]
    /\ UNCHANGED <<dbVars, tables, messageclass, sent, lost, drops, kills>>

\* The sender's id and the push id are read when the message is sent.
sendMessage(d, r) ==
    /\ Account[d] # Empty
    /\ r # Empty
    /\ sent[d] < MaxSends
    /\ sent' = [sent EXCEPT ![d] = @ + 1]
    /\ Put(d, [device |-> d, seq |-> sent[d] + 1, from |-> Account[d],
               to |-> r, node |-> createNode(Account[d], r)])
    /\ UNCHANGED <<screen, tables, messageclass, lost, drops, kills>>

\* The send button, with a text.
SendText(d) == screen[d] # Home /\ sendMessage(d, screen[d])

\* The end of an upload that a chat of this process has started, whichever
\* screen is shown by now.
SendVoice(d) ==
    \E i \in DOMAIN tables[d] : sendMessage(d, tables[d][i].partner)

-----------------------------------------------------------------------------
(* The main queue runs the block of the next observer of the oldest event. *)

\* The observer whose block is next, if the oldest event has one left.
NextBlock(d) == { i \in Head(events[d]).todo :
                    \A j \in Head(events[d]).todo : i <= j }

Done(q, i) == IF Head(q).todo \subseteq {i} THEN Tail(q)
              ELSE [q EXCEPT ![1].todo = @ \ {i}]

\* The closure without removeAll: the array keeps what another chat put there.
receiveMessageNoClear(d) ==
    /\ events[d] # <<>>
    /\ \E i \in NextBlock(d) :
          LET all == messageclass[d] \cup Head(events[d]).snap
          IN  /\ messageclass' = [messageclass EXCEPT ![d] = all]
              /\ tables' = [tables EXCEPT ![d][i].message = all]
              /\ events' = [events EXCEPT ![d] = Done(@, i)]
    /\ UNCHANGED <<server, heard, conn, listens, unacked, puts, putsToAck, up,
                   down, cache, loaded, observers, screen, sent, lost, drops, kills>>

\* The closure of receiveMessage and, through its callback, the table: the
\* array is emptied, filled from the snapshot and handed over.
receiveMessage(d) ==
    /\ events[d] # <<>>
    /\ \E i \in NextBlock(d) :
          /\ messageclass' = [messageclass EXCEPT ![d] = Head(events[d]).snap]
          /\ tables' = [tables EXCEPT ![d][i].message = messageclass'[d]]
          /\ events' = [events EXCEPT ![d] = Done(@, i)]
    /\ UNCHANGED <<server, heard, conn, listens, unacked, puts, putsToAck, up,
                   down, cache, loaded, observers, screen, sent, lost, drops, kills>>

\* An entry that raised nothing (AckEvents).
skipEvent(d) ==
    /\ events[d] # <<>>
    /\ Head(events[d]).todo = {}
    /\ events' = [events EXCEPT ![d] = Tail(@)]
    /\ UNCHANGED <<server, heard, conn, listens, unacked, puts, putsToAck, up,
                   down, cache, loaded, observers, appVars>>

-----------------------------------------------------------------------------
(* Server, client and environment.                                         *)

HandlePut(d) ==
    /\ ServerPut(d)
    /\ lost' = IF Head(up[d]) \in Denied THEN lost \cup {Head(up[d])} ELSE lost
    /\ UNCHANGED <<screen, tables, messageclass, sent, drops, kills>>

HandleListen(d) ==
    /\ \E n \in Nodes : ServerListen(d, n) \/ ServerRefuse(d, n)
    /\ UNCHANGED appVars

Receive(d) ==
    /\ ReceiveSnap(d) \/ ReceiveRefusal(d) \/ ReceiveChild(d) \/ ReceiveAck(d)
    /\ UNCHANGED appVars

Connect(d) == Reconnect(d) /\ UNCHANGED appVars

Drop(d) ==
    /\ drops < MaxDrops
    /\ drops' = drops + 1
    /\ Disconnect(d)
    /\ UNCHANGED <<screen, tables, messageclass, sent, lost, kills>>

Kill(d) ==
    /\ kills < MaxKills
    /\ kills' = kills + 1
    /\ Restart(d)
    /\ screen' = [screen EXCEPT ![d] = Home]
    /\ tables' = [tables EXCEPT ![d] = <<>>]
    /\ messageclass' = [messageclass EXCEPT ![d] = {}]
    /\ lost' = lost \cup (Elements(puts[d]) \ server)
    /\ UNCHANGED <<sent, drops>>

UserStep(d) == \/ \E r \in Users : OpenChat(d, r)
               \/ tappedOnBackButton(d)
               \/ SendText(d)
               \/ SendVoice(d)

SystemStep(d) == \/ receiveMessage(d)
                 \/ skipEvent(d)
                 \/ HandlePut(d)
                 \/ HandleListen(d)
                 \/ Receive(d)
                 \/ Connect(d)

Next == \E d \in Devices : UserStep(d) \/ SystemStep(d) \/ Drop(d) \/ Kill(d)

Spec == Init /\ [][Next]_vars

\* The main queue, the server and the client's connection make progress.
FairSpec == Spec /\ \A d \in Devices : WF_vars(SystemStep(d))

-----------------------------------------------------------------------------
(* Properties.                                                             *)

\* The variables have their types, and there is one observer per table.
TypeOK ==
    /\ DbTypeOK
    /\ screen \in [Devices -> Users \cup {Home}]
    /\ tables \in [Devices -> Seq(Table)]
    /\ messageclass \in [Devices -> SUBSET Message]
    /\ sent \in [Devices -> 0..MaxSends]
    /\ lost \subseteq Message
    /\ drops \in 0..MaxDrops
    /\ kills \in 0..MaxKills
    /\ \A d \in Devices : Len(tables[d]) = Len(observers[d])

\* Although every observer of a device fills the same array and none is ever
\* removed, a table only ever shows messages exchanged between the device's
\* user and the partner the table was opened for, and both of them see the
\* same node (receiveMessage, createNode).
OwnConversation ==
    \A d \in Devices : \A i \in DOMAIN tables[d] :
        \A m \in tables[d][i].message :
            {m.from, m.to} = {Account[d], tables[d][i].partner}

\* The messages of a device that the server has neither stored nor refused and
\* that its client still holds.
Unresolved(d) == Elements(puts[d]) \ (server \cup lost)

\* No message overtakes an earlier one of its device, however often the
\* connection is lost between a put and its answer (putInternal, restoreState).
NoOvertaking ==
    \A d \in Devices : \A w \in Unresolved(d) : \A m \in server :
        m.device = d => m.seq < w.seq

\* Every message a user has sent is stored, refused, lost with its process, or
\* still held by the client, which will send it again (sendMessage to ackWrite).
NothingVanishes ==
    \A d \in Devices : \A k \in 1..sent[d] :
        \E m \in server \cup lost \cup Elements(puts[d]) :
            m.device = d /\ m.seq = k

\* A device with nothing in flight and nothing queued.
Idle(d) == /\ conn[d]
           /\ unacked[d] = {}
           /\ up[d] = <<>> /\ down[d] = <<>> /\ events[d] = <<>>

\* The node of the table's conversation, and: the table shows what is stored there.
TableNode(d, i) == createNode(Account[d], tables[d][i].partner)
Current(d, i) == tables[d][i].message = At(TableNode(d, i), server)

\* The tables of the conversations that the rules let a client read.
Readable(d) == { i \in DOMAIN tables[d] : TableNode(d, i) \notin Unreadable }

\* A device at rest shows exactly what the server stores, in every table of a
\* conversation it may read, and waits for no answer: no value event has been
\* missed, no refused message is left in a table's array, and a refused listen
\* stops neither the other chats nor the answers to puts (restoreState,
\* maybeAddValue, sendListen, ackPuts).
IdleIsCurrent ==
    \A d \in Devices :
        Idle(d) => /\ Pending(d) = {}
                   /\ \A i \in Readable(d) : Current(d, i)

\* A message in the view of a chat stays there until the server refuses it or
\* the process ends: losing the connection, sending it again and having it
\* acknowledged never take it off the screen (sendPut's deferred onComplete).
StaysVisible ==
    [][ \A d \in Devices : \A n \in loaded[d] :
            n \in loaded'[d] => View(d, n) \ lost' \subseteq View(d, n)' ]_vars

\* Sooner or later every message is stored, refused or lost, and every table of
\* a conversation that may be read shows what the server stores (restoreState,
\* sendListen, ackPuts).
Convergence ==
    <>[](\A d \in Devices : /\ Pending(d) = {}
                            /\ \A i \in Readable(d) : Current(d, i))

\* Messages sent and neither stored nor lost.
Waiting == UNION { Unresolved(d) : d \in Devices }

Abstract == INSTANCE Conversation WITH waiting <- Waiting, delivered <- server

\* Messaging implements the abstract specification: each message is delivered
\* at most once, in the order of its device, or is lost.
Implements == Abstract!Spec

=============================================================================
