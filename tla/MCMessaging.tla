----------------------------- MODULE MCMessaging -----------------------------
(* Instances of Messaging for model checking.                              *)
EXTENDS Messaging, TLC

CONSTANTS d1, d2

\* Two devices in one conversation.
TwoUsers == {1, 2}
TwoAccounts == (d1 :> 1) @@ (d2 :> 2)
Acc == [d \in Devices |-> TwoAccounts[d]]

\* Two more users, so that a device has three conversations.
FourUsers == {1, 2, 3, 4}

\* The rules refuse every second message of a device.
EvenDenied == { m \in Message : m.seq % 2 = 0 }

\* The rules refuse to show the conversation of the first and the fourth user.
FourthUnreadable == { createNode(1, 4) }

=============================================================================
