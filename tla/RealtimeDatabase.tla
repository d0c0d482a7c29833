-------------------------- MODULE RealtimeDatabase --------------------------
(***************************************************************************)
(* The database client each device runs (the vendored FirebaseDatabase     *)
(* pod) and, external, the server it talks to, for the part the messages   *)
(* use: setValue below a node and value observers on a node.               *)
(*                                                                         *)
(* A client keeps its writes until the server has answered them, shows     *)
(* them in its views at once, sends its listens and its unanswered writes  *)
(* again after every reconnection, and hands value events to the main      *)
(* queue. The operators below are the client's and the server's steps;     *)
(* Messaging composes them with the application.                           *)
(***************************************************************************)
EXTENDS ChatNode, Sequences, FiniteSets

CONSTANTS
    Devices,   \* installations of the application
    Account,   \* Account[d]: the user id stored on device d (UserDefaults)
    MaxSends,  \* bound: messages a device sends
    Denied,    \* messages the database's rules refuse to store
    Unreadable \* nodes the database's rules refuse to show

ASSUME DevicesAssumption == Account \in [Devices -> Users]
ASSUME MaxSendsAssumption == MaxSends \in Nat

\* A message as stored below its node. The push id that is its key names the
\* device and is larger for a later message of the same device.
Message == [ device : Devices, seq : 1..MaxSends,
             from : Users, to : Users, node : Nodes ]

ASSUME DeniedAssumption == Denied \subseteq Message
ASSUME UnreadableAssumption == Unreadable \subseteq Nodes

VARIABLES
    server,     \* messages the server has stored
    heard,      \* heard[d]: nodes the server reports to the connection of d
    conn,       \* conn[d]: connectionState is Connected
    listens,    \* listens[d]: nodes the client listens to
    unacked,    \* unacked[d]: listens sent and not answered
    puts,       \* puts[d]: outstandingPuts, in index order
    putsToAck,  \* putsToAck[d]: answered puts, held back until unacked is empty
    up,         \* up[d]: put requests on their way to the server
    down,       \* down[d]: answers and pushes on their way to the client
    cache,      \* cache[d][n]: what the server has told the client about n
    loaded,     \* loaded[d]: nodes whose view is fully initialised
    observers,  \* observers[d][i]: node the i-th value observer was registered for
    events      \* events[d]: value events on the main queue

dbVars == <<server, heard, conn, listens, unacked, puts, putsToAck, up, down,
            cache, loaded, observers, events>>

Response == [kind : {"snap", "child", "ack", "refused"}, node : Nodes, data : SUBSET Message]

\* One entry stands for the consecutive blocks dispatched for one event:
\* `todo` holds the observers whose block has not run.
Event == [node : Nodes, snap : SUBSET Message, todo : SUBSET Nat]

Elements(s) == { s[i] : i \in DOMAIN s }

At(n, S) == { m \in S : m.node = n }

DbTypeOK ==
    /\ server \subseteq Message
    /\ heard \in [Devices -> SUBSET Nodes]
    /\ conn \in [Devices -> BOOLEAN]
    /\ listens \in [Devices -> SUBSET Nodes]
    /\ unacked \in [Devices -> SUBSET Nodes]
    /\ puts \in [Devices -> Seq(Message)]
    /\ putsToAck \in [Devices -> Seq(Message)]
    /\ up \in [Devices -> Seq(Message)]
    /\ down \in [Devices -> Seq(Response)]
    /\ cache \in [Devices -> [Nodes -> SUBSET Message]]
    /\ loaded \in [Devices -> SUBSET Nodes]
    /\ observers \in [Devices -> Seq(Nodes)]
    /\ events \in [Devices -> Seq(Event)]

DbInit ==
    /\ server = {}
    /\ heard = [d \in Devices |-> {}]
    /\ conn = [d \in Devices |-> FALSE]
    /\ listens = [d \in Devices |-> {}]
    /\ unacked = [d \in Devices |-> {}]
    /\ puts = [d \in Devices |-> <<>>]
    /\ putsToAck = [d \in Devices |-> <<>>]
    /\ up = [d \in Devices |-> <<>>]
    /\ down = [d \in Devices |-> <<>>]
    /\ cache = [d \in Devices |-> [n \in Nodes |-> {}]]
    /\ loaded = [d \in Devices |-> {}]
    /\ observers = [d \in Devices |-> <<>>]
    /\ events = [d \in Devices |-> <<>>]

-----------------------------------------------------------------------------
(* Views and events.                                                       *)

\* FWriteTree: the writes laid over the server's data.
Pending(d) == Elements(puts[d]) \cup Elements(putsToAck[d])

\* The event cache of the view on n: server data plus pending writes.
View(d, n) == cache[d][n] \cup At(n, Pending(d))

Observing(d, n) == { i \in DOMAIN observers[d] : observers[d][i] = n }

\* maybeAddValue: a value event is raised only for an initialised view that
\* has changed. q is the main queue, the result the queue with the event.
Raise(q, d, n, old, new) ==
    IF n \in loaded[d] /\ old # new
    THEN Append(q, [node |-> n, snap |-> new, todo |-> Observing(d, n)])
    ELSE q

\* The events of acknowledging the writes of ws one after the other: the view
\* of each one's node without it and its predecessors, c being the server's
\* data, l the initialised nodes and rest the other pending writes. An entry
\* whose acknowledgement changes no view has no block to run.
AckEvents(d, ws, rest, c, l) ==
    LET view(k) == c[ws[k].node]
                     \cup At(ws[k].node,
                             rest \cup { ws[j] : j \in (k + 1)..Len(ws) })
        changed(k) == ws[k].node \in l /\ ws[k] \notin view(k)
    IN  IF \E k \in 1..Len(ws) : changed(k)
        THEN [ k \in 1..Len(ws) |->
                 [ node |-> ws[k].node,
                   snap |-> view(k),
                   todo |-> IF changed(k) THEN Observing(d, ws[k].node)
                                          ELSE {} ] ]
        ELSE <<>>

\* The outstanding puts without m.
Without(s, m) ==
    IF m \notin Elements(s) THEN s
    ELSE LET k == CHOOSE k \in 1..Len(s) : s[k] = m
         IN  [ i \in 1..(Len(s) - 1) |-> IF i < k THEN s[i] ELSE s[i + 1] ]

-----------------------------------------------------------------------------
(* Calls of the application.                                               *)

\* FRepo.set: the write enters the views first and the connection second.
Put(d, m) ==
    /\ puts' = [puts EXCEPT ![d] = Append(@, m)]
    /\ up' = IF conn[d] THEN [up EXCEPT ![d] = Append(@, m)] ELSE up
    /\ events' = [events EXCEPT ![d] =
                    Raise(@, d, m.node, View(d, m.node), View(d, m.node) \cup {m})]
    /\ UNCHANGED <<server, heard, conn, listens, unacked, putsToAck, down,
                   cache, loaded, observers>>

\* FRepo.addEventRegistration: the first observer of a node makes the client
\* listen to it; a later one gets the view there is, if it is initialised.
Observe(d, n) ==
    /\ observers' = [observers EXCEPT ![d] = Append(@, n)]
    /\ listens' = [listens EXCEPT ![d] = @ \cup {n}]
    /\ unacked' = IF conn[d] /\ n \notin listens[d]
                  THEN [unacked EXCEPT ![d] = @ \cup {n}] ELSE unacked
    /\ events' = IF n \in loaded[d]
                 THEN [events EXCEPT ![d] =
                         Append(@, [node |-> n, snap |-> View(d, n),
                                    todo |-> {Len(observers[d]) + 1}])]
                 ELSE events
    /\ UNCHANGED <<server, heard, conn, puts, putsToAck, up, down, cache, loaded>>

-----------------------------------------------------------------------------
(* The server (external). It answers a listen with the node's data, or     *)
(* refuses it, and a put with a status; puts of one connection are         *)
(* processed in order, but a listen may be answered after puts that were   *)
(* sent later. Data reaches a listening client before the answer to the    *)
(* put that changed it. The rules do not change.                           *)

ServerListen(d, n) ==
    /\ n \in unacked[d] \ heard[d]
    /\ n \notin Unreadable
    /\ heard' = [heard EXCEPT ![d] = @ \cup {n}]
    /\ down' = [down EXCEPT ![d] =
                  Append(@, [kind |-> "snap", node |-> n, data |-> At(n, server)])]
    /\ UNCHANGED <<server, conn, listens, unacked, puts, putsToAck, up, cache,
                   loaded, observers, events>>

Refusal(n) == [kind |-> "refused", node |-> n, data |-> {}]

ServerRefuse(d, n) ==
    /\ n \in unacked[d] \cap Unreadable
    /\ Refusal(n) \notin Elements(down[d])
    /\ down' = [down EXCEPT ![d] = Append(@, Refusal(n))]
    /\ UNCHANGED <<server, heard, conn, listens, unacked, puts, putsToAck, up, cache,
                   loaded, observers, events>>

Push(e, m) ==
    IF m.node \in heard[e]
    THEN Append(down[e], [kind |-> "child", node |-> m.node, data |-> {m}])
    ELSE down[e]

Ack(m) == [kind |-> "ack", node |-> m.node, data |-> {m}]

\* Writing the same value again changes nothing and is reported to nobody.
ServerPut(d) ==
    /\ up[d] # <<>>
    /\ up' = [up EXCEPT ![d] = Tail(@)]
    /\ LET m == Head(up[d])
       IN  IF m \in Denied \cup server
           THEN /\ down' = [down EXCEPT ![d] = Append(@, Ack(m))]
                /\ UNCHANGED server
           ELSE /\ server' = server \cup {m}
                /\ down' = [ e \in Devices |->
                               IF e = d THEN Append(Push(e, m), Ack(m))
                                        ELSE Push(e, m) ]
    /\ UNCHANGED <<heard, conn, listens, unacked, puts, putsToAck, cache,
                   loaded, observers, events>>

-----------------------------------------------------------------------------
(* The client's handlers.                                                  *)

Arrives(d, kind) == down[d] # <<>> /\ Head(down[d]).kind = kind

\* The data of a listen and its "ok". The first data initialises the view. The
\* last outstanding answer releases the held-back acknowledgements (ackPuts).
ReceiveSnap(d) ==
    LET n == Head(down[d]).node
        data == Head(down[d]).data
        new == data \cup At(n, Pending(d))
        event == [node |-> n, snap |-> new, todo |-> Observing(d, n)]
        q == IF n \notin loaded[d] THEN Append(events[d], event)
             ELSE Raise(events[d], d, n, View(d, n), new)
    IN  /\ Arrives(d, "snap")
        /\ down' = [down EXCEPT ![d] = Tail(@)]
        /\ cache' = [cache EXCEPT ![d][n] = data]
        /\ loaded' = [loaded EXCEPT ![d] = @ \cup {n}]
        /\ unacked' = [unacked EXCEPT ![d] = @ \ {n}]
        /\ IF unacked[d] \ {n} = {}
           THEN /\ putsToAck' = [putsToAck EXCEPT ![d] = <<>>]
                /\ events' = [events EXCEPT ![d] =
                                q \o AckEvents(d, putsToAck[d], Elements(puts[d]),
                                               cache'[d], loaded'[d])]
           ELSE /\ events' = [events EXCEPT ![d] = q]
                /\ UNCHANGED putsToAck
        /\ UNCHANGED <<server, heard, conn, listens, puts, up, observers>>

\* A refused listen does not release the held-back acknowledgements.
ReceiveRefusalHoldsBack(d) ==
    /\ Arrives(d, "refused")
    /\ down' = [down EXCEPT ![d] = Tail(@)]
    /\ listens' = [listens EXCEPT ![d] = @ \ {Head(down[d]).node}]
    /\ unacked' = [unacked EXCEPT ![d] = @ \ {Head(down[d]).node}]
    /\ UNCHANGED <<server, heard, conn, puts, putsToAck, up, cache, loaded,
                   observers, events>>

\* A listen is answered with another status than "ok": it is forgotten with its
\* view, so that the next chat of the node listens again. Its observers, which
\* are removed too, would get no event: the node has none while it is refused.
\* This may be the last outstanding answer.
ReceiveRefusal(d) ==
    LET n == Head(down[d]).node
    IN  /\ Arrives(d, "refused")
        /\ down' = [down EXCEPT ![d] = Tail(@)]
        /\ listens' = [listens EXCEPT ![d] = @ \ {n}]
        /\ unacked' = [unacked EXCEPT ![d] = @ \ {n}]
        /\ IF unacked[d] \ {n} = {}
           THEN /\ putsToAck' = [putsToAck EXCEPT ![d] = <<>>]
                /\ events' = [events EXCEPT ![d] = @ \o
                                AckEvents(d, putsToAck[d], Elements(puts[d]),
                                          cache[d], loaded[d])]
           ELSE UNCHANGED <<putsToAck, events>>
        /\ UNCHANGED <<server, heard, conn, puts, up, cache, loaded, observers>>

ReceiveChild(d) ==
    LET n == Head(down[d]).node
        data == Head(down[d]).data
    IN  /\ Arrives(d, "child")
        /\ down' = [down EXCEPT ![d] = Tail(@)]
        /\ cache' = [cache EXCEPT ![d][n] = @ \cup data]
        /\ events' = [events EXCEPT ![d] =
                        Raise(@, d, n, View(d, n), View(d, n) \cup data)]
        /\ UNCHANGED <<server, heard, conn, listens, unacked, puts, putsToAck, up,
                       loaded, observers>>

Written(response) == CHOOSE m \in response.data : TRUE

\* Acknowledged although a listen is unanswered: the write leaves the view
\* before the server's data has brought it back.
ReceiveAckAtOnce(d) ==
    LET m == Written(Head(down[d]))
        rest == Without(puts[d], m)
    IN  /\ Arrives(d, "ack")
        /\ down' = [down EXCEPT ![d] = Tail(@)]
        /\ puts' = [puts EXCEPT ![d] = rest]
        /\ events' = [events EXCEPT ![d] = @ \o
                        AckEvents(d, <<m>>, Elements(rest)
                                  \cup Elements(putsToAck[d]), cache[d], loaded[d])]
        /\ UNCHANGED <<server, heard, conn, listens, unacked, putsToAck, up,
                       cache, loaded, observers>>

\* The answer to an outstanding put ends it; stored or refused, the write then
\* leaves the pending writes. While a listen is unanswered it is held back.
ReceiveAck(d) ==
    LET m == Written(Head(down[d]))
        rest == Without(puts[d], m)
    IN  /\ Arrives(d, "ack")
        /\ down' = [down EXCEPT ![d] = Tail(@)]
        /\ puts' = [puts EXCEPT ![d] = rest]
        /\ IF m \in Elements(puts[d]) /\ unacked[d] # {}
           THEN putsToAck' = [putsToAck EXCEPT ![d] = Append(@, m)]
           ELSE UNCHANGED putsToAck
        /\ IF m \in Elements(puts[d]) /\ unacked[d] = {}
           THEN events' = [events EXCEPT ![d] = @ \o
                   AckEvents(d, <<m>>, Elements(rest) \cup Elements(putsToAck[d]),
                             cache[d], loaded[d])]
           ELSE UNCHANGED events
        /\ UNCHANGED <<server, heard, conn, listens, unacked, up, cache, loaded,
                       observers>>

-----------------------------------------------------------------------------
(* The connection and the process.                                         *)

\* The outstanding puts go with the requests.
DisconnectForgets(d) ==
    /\ conn[d]
    /\ conn' = [conn EXCEPT ![d] = FALSE]
    /\ unacked' = [unacked EXCEPT ![d] = {}]
    /\ heard' = [heard EXCEPT ![d] = {}]
    /\ up' = [up EXCEPT ![d] = <<>>]
    /\ down' = [down EXCEPT ![d] = <<>>]
    /\ puts' = [puts EXCEPT ![d] = <<>>]
    /\ UNCHANGED <<server, listens, putsToAck, cache, loaded, observers, events>>

\* What is in flight is lost in both directions. The puts, the listens, the
\* held-back acknowledgements and the views survive.
Disconnect(d) ==
    /\ conn[d]
    /\ conn' = [conn EXCEPT ![d] = FALSE]
    /\ unacked' = [unacked EXCEPT ![d] = {}]
    /\ heard' = [heard EXCEPT ![d] = {}]
    /\ up' = [up EXCEPT ![d] = <<>>]
    /\ down' = [down EXCEPT ![d] = <<>>]
    /\ UNCHANGED <<server, listens, puts, putsToAck, cache, loaded, observers,
                   events>>

\* The puts are sent again from the last to the first.
ReconnectUnsorted(d) ==
    /\ ~conn[d]
    /\ conn' = [conn EXCEPT ![d] = TRUE]
    /\ unacked' = [unacked EXCEPT ![d] = listens[d]]
    /\ up' = [up EXCEPT ![d] =
                [i \in 1..Len(puts[d]) |-> puts[d][Len(puts[d]) + 1 - i]]]
    /\ UNCHANGED <<server, heard, listens, puts, putsToAck, down, cache, loaded,
                   observers, events>>

\* Only the puts are sent again.
ReconnectPutsOnly(d) ==
    /\ ~conn[d]
    /\ conn' = [conn EXCEPT ![d] = TRUE]
    /\ up' = [up EXCEPT ![d] = puts[d]]
    /\ UNCHANGED <<server, heard, listens, unacked, puts, putsToAck, down, cache,
                   loaded, observers, events>>

\* Only the listens are sent again.
ReconnectListensOnly(d) ==
    /\ ~conn[d]
    /\ conn' = [conn EXCEPT ![d] = TRUE]
    /\ unacked' = [unacked EXCEPT ![d] = listens[d]]
    /\ UNCHANGED <<server, heard, listens, puts, putsToAck, up, down, cache,
                   loaded, observers, events>>

\* onReady, restoreAuth (the application has no database credential) and
\* restoreState: every listen again, then every outstanding put in index order.
Reconnect(d) ==
    /\ ~conn[d]
    /\ conn' = [conn EXCEPT ![d] = TRUE]
    /\ unacked' = [unacked EXCEPT ![d] = listens[d]]
    /\ up' = [up EXCEPT ![d] = puts[d]]
    /\ UNCHANGED <<server, heard, listens, puts, putsToAck, down, cache, loaded,
                   observers, events>>

\* The observers outlive the process that registered them.
RestartKeepsObservers(d) ==
    /\ conn' = [conn EXCEPT ![d] = FALSE]
    /\ unacked' = [unacked EXCEPT ![d] = {}]
    /\ heard' = [heard EXCEPT ![d] = {}]
    /\ up' = [up EXCEPT ![d] = <<>>]
    /\ down' = [down EXCEPT ![d] = <<>>]
    /\ puts' = [puts EXCEPT ![d] = <<>>]
    /\ putsToAck' = [putsToAck EXCEPT ![d] = <<>>]
    /\ cache' = [cache EXCEPT ![d] = [n \in Nodes |-> {}]]
    /\ loaded' = [loaded EXCEPT ![d] = {}]
    /\ events' = [events EXCEPT ![d] = <<>>]
    /\ UNCHANGED <<server, listens, observers>>

\* The process ends. Persistence is never enabled: nothing of the client's
\* state, unanswered writes included, is on disk.
Restart(d) ==
    /\ conn' = [conn EXCEPT ![d] = FALSE]
    /\ unacked' = [unacked EXCEPT ![d] = {}]
    /\ heard' = [heard EXCEPT ![d] = {}]
    /\ up' = [up EXCEPT ![d] = <<>>]
    /\ down' = [down EXCEPT ![d] = <<>>]
    /\ listens' = [listens EXCEPT ![d] = {}]
    /\ puts' = [puts EXCEPT ![d] = <<>>]
    /\ putsToAck' = [putsToAck EXCEPT ![d] = <<>>]
    /\ cache' = [cache EXCEPT ![d] = [n \in Nodes |-> {}]]
    /\ loaded' = [loaded EXCEPT ![d] = {}]
    /\ observers' = [observers EXCEPT ![d] = <<>>]
    /\ events' = [events EXCEPT ![d] = <<>>]
    /\ UNCHANGED server

=============================================================================
