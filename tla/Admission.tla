----------------------------- MODULE Admission -----------------------------
(***************************************************************************)
(* What a connection pool promises: never more than MaxTotal requests are  *)
(* admitted at a time, nor more than MaxPerIP of them from one address.    *)
(***************************************************************************)
EXTENDS Naturals, FiniteSets

CONSTANTS Request, IpOf, MaxTotal, MaxPerIP

VARIABLE admitted

From(ip) == {r \in admitted : IpOf[r] = ip}

Init == admitted = {}

Admit(r) == /\ r \notin admitted
            /\ Cardinality(admitted) < MaxTotal
            /\ Cardinality(From(IpOf[r])) < MaxPerIP
            /\ admitted' = admitted \cup {r}

Leave(r) == r \in admitted /\ admitted' = admitted \ {r}

Next == \E r \in Request : Admit(r) \/ Leave(r)

Spec == Init /\ [][Next]_admitted
=============================================================================
