----------------------- MODULE ConnectionPool_proofs -----------------------
(***************************************************************************)
(* Proofs about ConnectionPool.  The invariant is inductive as it stands:  *)
(* each counter is the cardinality of the set of requests at certain       *)
(* places, and each action moves one request from one place to another.    *)
(***************************************************************************)
EXTENDS ConnectionPool, FiniteSetTheorems, TLAPS

IInv == TypeOK /\ CountsAgree

\* The sets that CountsAgree measures are finite.
LEMMA FiniteParts ==
  /\ IsFiniteSet(Owners) /\ IsFiniteSet(Admitted)
  /\ \A ip \in IP : IsFiniteSet(AdmittedFrom(ip))
BY PoolAssumption, FS_Subset DEF Owners, Admitted, AdmittedFrom, At

\* A member makes a finite set's cardinality positive.
LEMMA MemberCounts ==
  ASSUME NEW S, IsFiniteSet(S), NEW x \in S
  PROVE  Cardinality(S) \in Nat \ {0}
<1>1. Cardinality(S) \in Nat
  BY FS_CardinalityType
<1>2. S # {}
  OBVIOUS
<1> QED BY <1>1, <1>2, FS_EmptySet

\* An unused pool satisfies the invariant.
LEMMA InitInv == Init => IInv
<1> SUFFICES ASSUME Init PROVE IInv
  OBVIOUS
<1>1. TypeOK
  BY PoolAssumption DEF Init, TypeOK
<1>2. Owners = {} /\ Admitted = {} /\ \A ip \in IP : AdmittedFrom(ip) = {}
  BY DEF Init, Owners, Admitted, AdmittedFrom, At, OwnerLabels, AdmittedLabels
<1>3. CountsAgree
  BY <1>2, FS_EmptySet DEF Init, CountsAgree
<1> QED BY <1>1, <1>3 DEF IInv

\* What a step that moves one request does to the sets that are counted.
LEMMA Moved ==
  ASSUME TypeOK, NEW r \in Request, NEW label, Goto(r, label)
  PROVE  /\ Owners' = IF label \in OwnerLabels THEN Owners \cup {r} ELSE Owners \ {r}
         /\ Admitted' = IF label \in AdmittedLabels
                          THEN Admitted \cup {r} ELSE Admitted \ {r}
         /\ \A ip \in IP : AdmittedFrom(ip)' =
              IF label \in AdmittedLabels /\ IpOf[r] = ip
                THEN AdmittedFrom(ip) \cup {r} ELSE AdmittedFrom(ip) \ {r}
<1>1. pc' = [pc EXCEPT ![r] = label] /\ pc \in [Request -> OwnerLabels \cup {"new", "rejected", "returned"}]
  BY DEF Goto, TypeOK
<1>2. \A q \in Request : pc'[q] = IF q = r THEN label ELSE pc[q]
  BY <1>1
<1>3. \A q : q \in Owners <=> q \in Request /\ pc[q] \in OwnerLabels
  BY DEF Owners, Admitted, At, OwnerLabels, AdmittedLabels
<1>4. \A q : q \in Owners' <=> q \in Request /\ pc'[q] \in OwnerLabels
  BY DEF Owners, Admitted, At, OwnerLabels, AdmittedLabels
<1>5. \A q : q \in Admitted <=> q \in Request /\ pc[q] \in AdmittedLabels
  BY DEF Admitted, At, AdmittedLabels
<1>6. \A q : q \in Admitted' <=> q \in Request /\ pc'[q] \in AdmittedLabels
  BY DEF Admitted, At, AdmittedLabels
<1>7. Admitted' = IF label \in AdmittedLabels THEN Admitted \cup {r} ELSE Admitted \ {r}
  BY <1>2, <1>5, <1>6
<1>8. Owners' = IF label \in OwnerLabels THEN Owners \cup {r} ELSE Owners \ {r}
  BY <1>2, <1>3, <1>4
<1>9. ASSUME NEW ip \in IP
      PROVE  AdmittedFrom(ip)' = IF label \in AdmittedLabels /\ IpOf[r] = ip
                THEN AdmittedFrom(ip) \cup {r} ELSE AdmittedFrom(ip) \ {r}
  BY <1>7 DEF AdmittedFrom
<1> QED BY <1>7, <1>8, <1>9

\* The cardinalities after such a step.
LEMMA MovedCounts ==
  ASSUME TypeOK, NEW r \in Request, NEW label, Goto(r, label)
  PROVE  /\ Cardinality(Owners') =
              IF label \in OwnerLabels
                THEN IF r \in Owners THEN Cardinality(Owners) ELSE Cardinality(Owners) + 1
                ELSE IF r \in Owners THEN Cardinality(Owners) - 1 ELSE Cardinality(Owners)
         /\ Cardinality(Admitted') =
              IF label \in AdmittedLabels
                THEN IF r \in Admitted THEN Cardinality(Admitted) ELSE Cardinality(Admitted) + 1
                ELSE IF r \in Admitted THEN Cardinality(Admitted) - 1 ELSE Cardinality(Admitted)
         /\ \A ip \in IP : Cardinality(AdmittedFrom(ip)') =
              IF label \in AdmittedLabels /\ IpOf[r] = ip
                THEN IF r \in AdmittedFrom(ip) THEN Cardinality(AdmittedFrom(ip))
                                               ELSE Cardinality(AdmittedFrom(ip)) + 1
                ELSE IF r \in AdmittedFrom(ip) THEN Cardinality(AdmittedFrom(ip)) - 1
                                               ELSE Cardinality(AdmittedFrom(ip))
<1>1. \A S : IsFiniteSet(S) =>
        /\ Cardinality(S \cup {r}) = IF r \in S THEN Cardinality(S) ELSE Cardinality(S) + 1
        /\ Cardinality(S \ {r}) = IF r \in S THEN Cardinality(S) - 1 ELSE Cardinality(S)
  BY FS_AddElement, FS_RemoveElement
<1>2. Cardinality(Owners') =
              IF label \in OwnerLabels
                THEN IF r \in Owners THEN Cardinality(Owners) ELSE Cardinality(Owners) + 1
                ELSE IF r \in Owners THEN Cardinality(Owners) - 1 ELSE Cardinality(Owners)
  BY <1>1, Moved, FiniteParts
<1>3. Cardinality(Admitted') =
              IF label \in AdmittedLabels
                THEN IF r \in Admitted THEN Cardinality(Admitted) ELSE Cardinality(Admitted) + 1
                ELSE IF r \in Admitted THEN Cardinality(Admitted) - 1 ELSE Cardinality(Admitted)
  BY <1>1, Moved, FiniteParts
<1>4. ASSUME NEW ip \in IP
      PROVE  Cardinality(AdmittedFrom(ip)') =
              IF label \in AdmittedLabels /\ IpOf[r] = ip
                THEN IF r \in AdmittedFrom(ip) THEN Cardinality(AdmittedFrom(ip))
                                               ELSE Cardinality(AdmittedFrom(ip)) + 1
                ELSE IF r \in AdmittedFrom(ip) THEN Cardinality(AdmittedFrom(ip)) - 1
                                               ELSE Cardinality(AdmittedFrom(ip))
  BY <1>1, Moved, FiniteParts
<1> QED BY <1>2, <1>3, <1>4

\* A request that is admitted has been counted, and so has its slot.
LEMMA Positive ==
  ASSUME IInv, NEW r \in Request
  PROVE  /\ pc[r] \in OwnerLabels => semaphore > 0
         /\ pc[r] \in AdmittedLabels => totalActive > 0 /\ activeConns[IpOf[r]] > 0
<1>1. ASSUME pc[r] \in OwnerLabels PROVE semaphore > 0
  <2>1. r \in Owners
    BY <1>1 DEF Owners, Admitted, At, OwnerLabels, AdmittedLabels
  <2> QED BY <2>1, FiniteParts, MemberCounts DEF IInv, CountsAgree
<1>2. ASSUME pc[r] \in AdmittedLabels PROVE totalActive > 0 /\ activeConns[IpOf[r]] > 0
  <2>1. IpOf[r] \in IP /\ r \in Admitted /\ r \in AdmittedFrom(IpOf[r])
    BY <1>2, PoolAssumption DEF Admitted, AdmittedFrom, At, AdmittedLabels
  <2>2. totalActive = Cardinality(Admitted)
        /\ activeConns[IpOf[r]] = Cardinality(AdmittedFrom(IpOf[r]))
    BY <2>1 DEF IInv, CountsAgree
  <2>3. Cardinality(Admitted) \in Nat \ {0}
    BY <2>1, FiniteParts, MemberCounts
  <2>4. Cardinality(AdmittedFrom(IpOf[r])) \in Nat \ {0}
    BY <2>1, FiniteParts, MemberCounts
  <2> QED BY <2>2, <2>3, <2>4
<1> QED BY <1>1, <1>2

\* Every action keeps the variables within their types; the counters are only
\* decremented when they count somebody.
LEMMA TypeStep == IInv /\ [Next]_vars => TypeOK'
<1> SUFFICES ASSUME IInv, [Next]_vars PROVE TypeOK'
  OBVIOUS
<1> USE PoolAssumption DEF TypeOK, Goto, OwnerLabels, AdmittedLabels
<1>t. TypeOK
  BY DEF IInv
<1>1. CASE UNCHANGED vars
  BY <1>1, <1>t DEF vars
<1>2. ASSUME NEW r \in Request, AcquireSlot(r) PROVE TypeOK'
  BY <1>2, <1>t DEF AcquireSlot, SlotLeft
<1>3. ASSUME NEW r \in Request, AcquireCount(r) PROVE TypeOK'
  BY <1>3, <1>t DEF AcquireCount
<1>4. ASSUME NEW r \in Request, AcquireRefuse(r) PROVE TypeOK'
  BY <1>4, <1>t DEF AcquireRefuse, TakeBackSlot, Unlock
<1>5. ASSUME NEW r \in Request, Handle(r) PROVE TypeOK'
  BY <1>5, <1>t DEF Handle, SetupFails, Upgrade, AddClient, RemoveClient, poolVars
<1>6. ASSUME NEW r \in Request, ConnectionCloses(r) PROVE TypeOK'
  BY <1>6, <1>t DEF ConnectionCloses, poolVars
<1>7. ASSUME NEW r \in Request, ReleaseCount(r) PROVE TypeOK'
  <2>1. pc[r] \in AdmittedLabels
    BY <1>7 DEF ReleaseCount, AdmittedLabels
  <2>2. totalActive - 1 \in Nat /\ activeConns[IpOf[r]] - 1 \in Nat
    BY <2>1, <1>t, Positive
  <2> QED BY <1>7, <1>t, <2>2 DEF ReleaseCount
<1>8. ASSUME NEW r \in Request, ReleaseSlot(r) PROVE TypeOK'
  BY <1>8, <1>t DEF ReleaseSlot, TakeBackSlot, Unlock
<1>9. CASE HubChanges
  BY <1>9, <1>t DEF HubChanges, poolVars
<1> QED BY <1>1, <1>2, <1>3, <1>4, <1>5, <1>6, <1>7, <1>8, <1>9 DEF Next, Acquire, Release

\* Every action changes the counters as it changes the sets they count.
LEMMA CountsStep == IInv /\ [Next]_vars => CountsAgree'
<1> SUFFICES ASSUME IInv, [Next]_vars PROVE CountsAgree'
  OBVIOUS
<1> USE PoolAssumption
<1>t. TypeOK /\ CountsAgree
  BY DEF IInv
<1>c. /\ Cardinality(Owners) = semaphore /\ Cardinality(Admitted) = totalActive
      /\ \A ip \in IP : Cardinality(AdmittedFrom(ip)) = activeConns[ip]
      /\ semaphore \in Nat /\ totalActive \in Nat /\ activeConns \in [IP -> Nat]
  BY <1>t DEF CountsAgree, TypeOK
<1>m. \A r \in Request :
        /\ r \in Owners <=> pc[r] \in OwnerLabels
        /\ r \in Admitted <=> pc[r] \in AdmittedLabels
        /\ \A ip \in IP : r \in AdmittedFrom(ip) <=> pc[r] \in AdmittedLabels /\ IpOf[r] = ip
  BY DEF Owners, Admitted, AdmittedFrom, At, OwnerLabels, AdmittedLabels
<1> SUFFICES /\ Cardinality(Owners') = semaphore' /\ Cardinality(Admitted') = totalActive'
             /\ \A ip \in IP : Cardinality(AdmittedFrom(ip)') = activeConns'[ip]
  BY DEF CountsAgree
<1>1. CASE UNCHANGED <<semaphore, activeConns, totalActive, pc>>
  BY <1>1, <1>c DEF Owners, Admitted, AdmittedFrom, At
<1>2. ASSUME NEW r \in Request, AcquireSlot(r)
      PROVE  CountsAgree'
  BY <1>2, <1>c, <1>m, <1>t, MovedCounts
     DEF AcquireSlot, SlotLeft, OwnerLabels, AdmittedLabels, CountsAgree
<1>3. ASSUME NEW r \in Request, AcquireCount(r) PROVE CountsAgree'
  <2>1. CASE ~AtIPLimit(r)
    BY <1>3, <2>1, <1>c, <1>m, <1>t, MovedCounts
       DEF AcquireCount, OwnerLabels, AdmittedLabels, CountsAgree
  <2>2. CASE AtIPLimit(r)
    BY <1>3, <2>2, <1>c, <1>m, <1>t, MovedCounts
       DEF AcquireCount, OwnerLabels, AdmittedLabels, CountsAgree
  <2> QED BY <2>1, <2>2
<1>4. ASSUME NEW r \in Request, AcquireRefuse(r) PROVE CountsAgree'
  BY <1>4, <1>c, <1>m, <1>t, MovedCounts
     DEF AcquireRefuse, TakeBackSlot, OwnerLabels, AdmittedLabels, CountsAgree
<1>5. ASSUME NEW r \in Request, Handle(r) PROVE CountsAgree'
  BY <1>5, <1>c, <1>m, <1>t, MovedCounts
     DEF Handle, SetupFails, Upgrade, AddClient, RemoveClient, poolVars, OwnerLabels, AdmittedLabels, CountsAgree
<1>6. ASSUME NEW r \in Request, ConnectionCloses(r) PROVE CountsAgree'
  BY <1>6, <1>1 DEF ConnectionCloses, poolVars, CountsAgree
<1>7. ASSUME NEW r \in Request, ReleaseCount(r) PROVE CountsAgree'
  <2>1. pc[r] \in AdmittedLabels /\ IpOf[r] \in IP
    BY <1>7 DEF ReleaseCount, AdmittedLabels
  <2>2. activeConns[IpOf[r]] > 0
    BY <2>1, Positive
  <2> QED BY <1>7, <2>1, <2>2, <1>c, <1>m, <1>t, MovedCounts
          DEF ReleaseCount, OwnerLabels, AdmittedLabels, CountsAgree
<1>8. ASSUME NEW r \in Request, ReleaseSlot(r) PROVE CountsAgree'
  BY <1>8, <1>c, <1>m, <1>t, MovedCounts
     DEF ReleaseSlot, TakeBackSlot, OwnerLabels, AdmittedLabels, CountsAgree
<1>9. CASE HubChanges
  BY <1>9, <1>1 DEF HubChanges, poolVars, CountsAgree
<1> QED BY <1>1, <1>2, <1>3, <1>4, <1>5, <1>6, <1>7, <1>8, <1>9
        DEF Next, Acquire, Release, vars, CountsAgree

\* The invariant holds throughout.
LEMMA Invariance == Spec => []IInv
<1>1. Init => IInv
  BY InitInv
<1>2. IInv /\ [Next]_vars => IInv'
  BY TypeStep, CountsStep DEF IInv
<1> QED BY <1>1, <1>2, PTL DEF Spec

\* AcquireConnection and ReleaseConnection keep the pool well formed; the
\* semaphore never holds more than MaxConnections slots.
THEOREM TypeCorrect == Spec => []TypeOK
<1>1. IInv => TypeOK
  BY DEF IInv
<1> QED BY <1>1, Invariance, PTL

\* The semaphore, totalActive and activeConns always agree with the requests
\* in progress: no slot is lost or given back twice, on any path.
THEOREM CountsCorrect == Spec => []CountsAgree
<1>1. IInv => CountsAgree
  BY DEF IInv
<1> QED BY <1>1, Invariance, PTL

\* The receives of AcquireConnection and ReleaseConnection that are made with
\* cp.mu held never block.
THEOREM GivingBackNeverBlocks == Spec => []SlotToGiveBack
<1>1. IInv => SlotToGiveBack
  BY Positive DEF SlotToGiveBack, GivingBack, At, OwnerLabels
<1> QED BY <1>1, Invariance, PTL

\* A step of the pool is a step, or a stutter, of the admission it implements.
LEMMA AdmissionStep == IInv /\ [Next]_vars => [Limit!Next]_Admitted
<1> SUFFICES ASSUME IInv, [Next]_vars PROVE Limit!Next \/ UNCHANGED Admitted
  OBVIOUS
<1>t. TypeOK /\ CountsAgree
  BY DEF IInv
<1>m. \A r \in Request : r \in Admitted <=> pc[r] \in AdmittedLabels
  BY DEF Admitted, At, AdmittedLabels
<1>1. CASE UNCHANGED pc
  BY <1>1 DEF Admitted, At
<1>2. ASSUME NEW r \in Request, NEW label, Goto(r, label),
             pc[r] \in AdmittedLabels <=> label \in AdmittedLabels
      PROVE  UNCHANGED Admitted
  BY <1>2, <1>t, <1>m, Moved
<1>3. ASSUME NEW r \in Request, AcquireSlot(r) PROVE UNCHANGED Admitted
  BY <1>3, <1>2 DEF AcquireSlot, AdmittedLabels
<1>4. ASSUME NEW r \in Request, AcquireCount(r), ~AtIPLimit(r) PROVE Limit!Next
  <2>1. Admitted' = Admitted \cup {r} /\ r \notin Admitted
    BY <1>4, <1>t, <1>m, Moved DEF AcquireCount, AdmittedLabels
  <2>2. Cardinality(Admitted) < MaxConnections
    <3>1. r \in Owners /\ Admitted \cup {r} \subseteq Owners
      BY <1>4 DEF AcquireCount, Owners, Admitted, At, OwnerLabels, AdmittedLabels
    <3>2. Cardinality(Admitted \cup {r}) = Cardinality(Admitted) + 1
      BY <2>1, FiniteParts, FS_AddElement
    <3>3. Cardinality(Admitted \cup {r}) <= Cardinality(Owners)
      BY <3>1, FiniteParts, FS_Subset
    <3>4. Cardinality(Owners) \in 0 .. MaxConnections /\ Cardinality(Admitted) \in Nat
      BY <1>t DEF TypeOK, CountsAgree
    <3> QED BY <3>2, <3>3, <3>4, PoolAssumption
  <2>3. Cardinality(AdmittedFrom(IpOf[r])) < MaxConnectionsPerIP
    <3>1. IpOf[r] \in IP
      BY PoolAssumption
    <3>2. activeConns[IpOf[r]] \in Nat
      BY <3>1, <1>t DEF TypeOK
    <3> QED BY <1>4, <1>t, <3>1, <3>2, PoolAssumption DEF AtIPLimit, CountsAgree
  <2>4. Limit!From(IpOf[r]) = AdmittedFrom(IpOf[r])
    BY DEF Limit!From, AdmittedFrom
  <2>5. \A S : Limit!Cardinality(S) = Cardinality(S)
    BY Zenon DEF Limit!Cardinality, Cardinality
  <2>6. Limit!Admit(r)
    BY <2>1, <2>2, <2>3, <2>4, <2>5 DEF Limit!Admit
  <2> QED BY <2>6 DEF Limit!Next
<1>5. ASSUME NEW r \in Request, AcquireCount(r), AtIPLimit(r) PROVE UNCHANGED Admitted
  BY <1>5, <1>2 DEF AcquireCount, AdmittedLabels
<1>6. ASSUME NEW r \in Request, AcquireRefuse(r) PROVE UNCHANGED Admitted
  BY <1>6, <1>2 DEF AcquireRefuse, AdmittedLabels
<1>7. ASSUME NEW r \in Request, Handle(r) PROVE UNCHANGED Admitted
  BY <1>7, <1>2 DEF Handle, SetupFails, Upgrade, AddClient, RemoveClient, poolVars, AdmittedLabels
<1>8. ASSUME NEW r \in Request, ReleaseCount(r) PROVE Limit!Next
  <2>1. r \in Admitted /\ Admitted' = Admitted \ {r}
    BY <1>8, <1>t, <1>m, Moved DEF ReleaseCount, AdmittedLabels
  <2>2. Limit!Leave(r)
    BY <2>1 DEF Limit!Leave
  <2> QED BY <2>2 DEF Limit!Next
<1>9. ASSUME NEW r \in Request, ReleaseSlot(r) PROVE UNCHANGED Admitted
  BY <1>9, <1>2 DEF ReleaseSlot, AdmittedLabels
<1> QED
  BY <1>1, <1>3, <1>4, <1>5, <1>6, <1>7, <1>8, <1>9
     DEF Next, Acquire, Release, ConnectionCloses, HubChanges, poolVars, vars

\* The pool implements Admission for every number of requests and addresses
\* and both limits: the setups in progress never exceed either of them.
THEOREM PoolLimitsSetups == Spec => SetupsLimited
<1>1. Init => Limit!Init
  BY DEF Init, Limit!Init, Admitted, At, AdmittedLabels
<1>2. IInv /\ [Next]_vars => [Limit!Next]_Admitted
  BY AdmissionStep
<1> QED BY <1>1, <1>2, Invariance, PTL DEF Spec, SetupsLimited, Limit!Spec
=============================================================================
