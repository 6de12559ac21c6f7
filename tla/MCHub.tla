------------------------------- MODULE MCHub -------------------------------
(* Instances of Hub for TLC.                                               *)
EXTENDS Hub, TLC

CONSTANTS c1, c2, b1, b2, b3, s1, d1, t1, t2

\* Every client has an identifier of its own.
MCId == Client
MCIdOf == [c \in Client |-> c]

\* The broadcasts of hub_order are alike, too: Raw is the set of them all.
MCSymmetry == Permutations(Client) \cup Permutations(Broadcaster)
=============================================================================
