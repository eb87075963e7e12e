---------------------------- MODULE MCConversation ----------------------------
(***************************************************************************)
(* Rooms are interchangeable in Conversation; the order of the sidecar is  *)
(* the order in which they were first written.                             *)
(***************************************************************************)
EXTENDS Conversation, TLC

RoomSymmetry == Permutations(Rooms)
=============================================================================
