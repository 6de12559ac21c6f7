-------------------------- MODULE MCRoomBroadcast --------------------------
(* A small instance of RoomBroadcast for TLC.                              *)
EXTENDS RoomBroadcast, TLC

\* Clients and calls are interchangeable.
RoomBroadcastSymmetry == Permutations(Client) \cup Permutations(Caller)
=============================================================================
