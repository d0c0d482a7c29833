------------------------------ MODULE ChatNode ------------------------------
(***************************************************************************)
(* ChatHalper.createNode: the database node of a one-to-one conversation.  *)
(*                                                                         *)
(* User ids are strings that the code only compares with each other and    *)
(* with "". An id is modelled by its rank in that order, a positive        *)
(* number; 0 is the empty string. The node "a_b" is the pair <<a, b>>: the *)
(* ids come from Google and are decimal, so the separator "_" never occurs *)
(* in one and the string determines the pair.                              *)
(***************************************************************************)
EXTENDS Naturals

CONSTANT Users

ASSUME UsersAssumption == Users \subseteq Nat \ {0}

Empty == 0

createNode(senderId, receiverId) ==
    IF senderId = Empty THEN <<receiverId>>
    ELSE IF senderId > receiverId THEN <<senderId, receiverId>>
    ELSE <<receiverId, senderId>>

Nodes == { createNode(a, b) : a, b \in Users }

=============================================================================
