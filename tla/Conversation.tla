---------------------------- MODULE Conversation ----------------------------
(***************************************************************************)
(* What messaging promises, without connections, queues or views: a        *)
(* message a device has sent waits until it is delivered (stored once, for *)
(* everybody, unchanged) or lost, and a device's messages are delivered in *)
(* the order in which they were sent.                                      *)
(***************************************************************************)
EXTENDS Naturals

CONSTANTS Devices, Message

VARIABLES sent,       \* sent[d]: how many messages device d has sent
          waiting,    \* sent, neither delivered nor lost
          delivered,  \* stored for both sides
          lost        \* refused by the server, or lost with the process

vars == <<sent, waiting, delivered, lost>>

Init == /\ sent = [d \in Devices |-> 0]
        /\ waiting = {}
        /\ delivered = {}
        /\ lost = {}

Send(m) == /\ m.seq = sent[m.device] + 1
           /\ sent' = [sent EXCEPT ![m.device] = m.seq]
           /\ waiting' = waiting \cup {m}
           /\ UNCHANGED <<delivered, lost>>

\* Nothing its device sent before m still waits.
First(m) == \A w \in waiting : w.device = m.device => m.seq <= w.seq

Deliver(m) == /\ m \in waiting /\ First(m)
              /\ waiting' = waiting \ {m}
              /\ delivered' = delivered \cup {m}
              /\ UNCHANGED <<sent, lost>>

Refuse(m) == /\ m \in waiting /\ First(m)
             /\ waiting' = waiting \ {m}
             /\ lost' = lost \cup {m}
             /\ UNCHANGED <<sent, delivered>>

\* The process ends and everything it had waiting is lost.
LoseAll(d) == LET own == { w \in waiting : w.device = d }
              IN  /\ waiting' = waiting \ own
                  /\ lost' = lost \cup own
                  /\ UNCHANGED <<sent, delivered>>

Next == \/ \E m \in Message : Send(m) \/ Deliver(m) \/ Refuse(m)
        \/ \E d \in Devices : LoseAll(d)

Spec == Init /\ [][Next]_vars

=============================================================================
