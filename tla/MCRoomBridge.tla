----------------------------- MODULE MCRoomBridge ----------------------------
(* Instance of RoomBridge for TLC: browsers are interchangeable. *)
EXTENDS RoomBridge, TLC

ClientSymmetry == Permutations(Clients)

=============================================================================
