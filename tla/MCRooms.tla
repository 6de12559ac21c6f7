------------------------------ MODULE MCRooms ------------------------------
(* Instances of Rooms for TLC.                                             *)
EXTENDS Rooms, TLC

CONSTANTS c1, i1, i2, k1, k2, j1, l1, d1, e1, w1, other

\* Rooms and identifiers are interchangeable.
MCSymmetry == {f @@ g : f \in Permutations(Creator), g \in Permutations(RoomId)}
=============================================================================
