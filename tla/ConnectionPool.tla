--------------------------- MODULE ConnectionPool ---------------------------
(***************************************************************************)
(* ConnectionPool as HandleWebSocket uses it.  Each request acquires a     *)
(* slot, sets its connection up, and gives the slot back when the handler  *)
(* returns, by a defer that also runs when the handler panics.             *)
(*                                                                         *)
(* The slots are a buffered Go channel (the semaphore), taken before and   *)
(* apart from the mutex that guards the counters.  Until it returns, the    *)
(* handler also waits for the hub, which may not be there.                  *)
(***************************************************************************)
EXTENDS Naturals, FiniteSets

CONSTANTS
  Request,              \* HandleWebSocket calls
  IP, IpOf,             \* the client address of each request
  MaxConnections, MaxConnectionsPerIP,
  NoRequest

ASSUME PoolAssumption ==
  /\ IsFiniteSet(Request)
  /\ IpOf \in [Request -> IP]
  /\ MaxConnections \in Nat \ {0}
  /\ MaxConnectionsPerIP \in Nat
  /\ NoRequest \notin Request

VARIABLES
  semaphore,     \* number of slots taken
  mu,            \* the request that holds cp.mu, or NoRequest
  activeConns, totalActive,
  pc,            \* where each HandleWebSocket call is
  live,          \* requests whose websocket connection is open
  hub            \* "running": a Run receives; "away": none does, and the channels
                 \* are open; "closed": Stop has closed them

vars == <<semaphore, mu, activeConns, totalActive, pc, live, hub>>

Init == /\ semaphore = 0 /\ mu = NoRequest
        /\ activeConns = [ip \in IP |-> 0] /\ totalActive = 0
        /\ pc = [r \in Request |-> "new"] /\ live = {} /\ hub = "away"

Goto(r, label) == pc' = [pc EXCEPT ![r] = label]

KeepLocked == UNCHANGED mu    \* mutant: the Unlock is not deferred
Unlock == mu' = NoRequest
-----------------------------------------------------------------------------
(* AcquireConnection                                                       *)

SlotLeftLate == semaphore <= MaxConnections    \* mutant: one too many
SlotLeft == semaphore < MaxConnections

\* The slot is taken without the mutex; with none left the request is
\* rejected at once.
AcquireSlot(r) ==
  /\ pc[r] = "new"
  /\ \/ SlotLeft /\ semaphore' = semaphore + 1 /\ Goto(r, "acquiring")
     \/ ~SlotLeft /\ UNCHANGED semaphore /\ Goto(r, "rejected")
  /\ UNCHANGED <<mu, activeConns, totalActive, live, hub>>

AboveIPLimit(r) == activeConns[IpOf[r]] > MaxConnectionsPerIP    \* mutant: one too many
AtIPLimit(r) == activeConns[IpOf[r]] >= MaxConnectionsPerIP

\* With the mutex: count the request, or go on to give its slot back.
AcquireCount(r) ==
  /\ pc[r] = "acquiring" /\ mu = NoRequest
  /\ \/ /\ ~AtIPLimit(r)
        /\ activeConns' = [activeConns EXCEPT ![IpOf[r]] = @ + 1]
        /\ totalActive' = totalActive + 1
        /\ Goto(r, "setup") /\ UNCHANGED mu
     \/ /\ AtIPLimit(r)
        /\ Goto(r, "refusing") /\ mu' = r
        /\ UNCHANGED <<activeConns, totalActive>>
  /\ UNCHANGED <<semaphore, live, hub>>

KeepSlot == UNCHANGED semaphore    \* mutant: the receive is forgotten
TakeBackSlot == semaphore > 0 /\ semaphore' = semaphore - 1

AcquireRefuse(r) ==
  /\ pc[r] = "refusing"
  /\ TakeBackSlot /\ Unlock /\ Goto(r, "rejected")
  /\ UNCHANGED <<activeConns, totalActive, live, hub>>
-----------------------------------------------------------------------------
(* The rest of HandleWebSocket                                             *)

poolVars == <<semaphore, mu, activeConns, totalActive>>

\* Authentication, rate limit, OnBeforeConnect or the upgrade says no, or
\* one of them panics; or the read deadline cannot be set, which closes the
\* connection.
SetupFails(r) == /\ pc[r] = "setup" /\ Goto(r, "releasing")
                 /\ UNCHANGED <<poolVars, live, hub>>

\* A connection without a client, its id being empty or NewClient panicking, stays
\* open when the handler returns; one with a client is registered.
Upgrade(r) == /\ pc[r] = "setup" /\ live' = live \cup {r}
              /\ Goto(r, "releasing") \/ Goto(r, "adding")
              /\ UNCHANGED <<poolVars, hub>>

\* The send on Register waits for a Run.  Then OnConnect fails, or the handler
\* returns: its goroutines started, or OnConnect panicked.  On a closed channel the
\* send panics, which leaves the connection open.
AddClient(r) ==
  /\ pc[r] = "adding"
  /\ \/ hub = "running" /\ (Goto(r, "removing") \/ Goto(r, "releasing"))
     \/ hub = "closed" /\ Goto(r, "releasing")
  /\ UNCHANGED <<poolVars, live, hub>>

\* The send on Unregister, and then the close of the connection.
RemoveClient(r) ==
  /\ pc[r] = "removing" /\ Goto(r, "releasing")
  /\ \/ hub = "running" /\ live' = live \ {r}
     \/ hub = "closed" /\ UNCHANGED live
  /\ UNCHANGED <<poolVars, hub>>

\* A connection is closed by its reader, its writer or Disconnect.
ConnectionCloses(r) == /\ r \in live /\ live' = live \ {r}
                       /\ UNCHANGED <<poolVars, pc, hub>>

\* A Run starts, or leaves because its context is cancelled, or Stop closes the
\* channels of a hub that runs.
HubChanges == /\ \/ hub = "away" /\ hub' = "running"
                 \/ hub = "running" /\ hub' \in {"away", "closed"}
              /\ UNCHANGED <<poolVars, pc, live>>
-----------------------------------------------------------------------------
(* ReleaseConnection                                                       *)

ReleaseCount(r) ==
  /\ pc[r] = "releasing" /\ mu = NoRequest
  /\ mu' = r /\ Goto(r, "freeing")
  /\ IF activeConns[IpOf[r]] > 0
       THEN /\ activeConns' = [activeConns EXCEPT ![IpOf[r]] = @ - 1]
            /\ totalActive' = totalActive - 1
       ELSE UNCHANGED <<activeConns, totalActive>>
  /\ UNCHANGED <<semaphore, live, hub>>

\* The slot is given back with the mutex held.
ReleaseSlot(r) ==
  /\ pc[r] = "freeing"
  /\ TakeBackSlot /\ Unlock /\ Goto(r, "returned")
  /\ UNCHANGED <<activeConns, totalActive, live, hub>>
-----------------------------------------------------------------------------
Acquire(r) == AcquireSlot(r) \/ AcquireCount(r) \/ AcquireRefuse(r)
Handle(r) == SetupFails(r) \/ Upgrade(r) \/ AddClient(r) \/ RemoveClient(r)
Release(r) == ReleaseCount(r) \/ ReleaseSlot(r)

Next == \/ \E r \in Request : Acquire(r) \/ Handle(r) \/ ConnectionCloses(r) \/ Release(r)
        \/ HubChanges

Spec == Init /\ [][Next]_vars

\* The goroutine of a request runs, its callbacks return, a Run that is there
\* receives, and the mutex serves its waiters in the end.  No Run need be there.
Fairness == \A r \in Request :
  /\ WF_vars(Handle(r) \/ AcquireRefuse(r) \/ ReleaseSlot(r))
  /\ SF_vars(AcquireCount(r) \/ ReleaseCount(r))

FairSpec == Spec /\ Fairness
-----------------------------------------------------------------------------
(* Properties                                                              *)

At(labels) == {r \in Request : pc[r] \in labels}
AdmittedLabels == {"setup", "adding", "removing", "releasing"}
OwnerLabels == AdmittedLabels \cup {"acquiring", "refusing", "freeing"}
Admitted == At(AdmittedLabels)
Owners == At(OwnerLabels)
AdmittedFrom(ip) == {r \in Admitted : IpOf[r] = ip}

\* Every variable stays within the values its part of the code gives it; in
\* particular the semaphore never holds more than MaxConnections slots.
TypeOK ==
  /\ semaphore \in 0 .. MaxConnections
  /\ mu \in Request \cup {NoRequest}
  /\ activeConns \in [IP -> Nat] /\ totalActive \in Nat
  /\ pc \in [Request -> OwnerLabels \cup {"new", "rejected", "returned"}]
  /\ live \in SUBSET Request /\ hub \in {"running", "away", "closed"}

\* The three counters agree with the requests in progress, so that no slot
\* is lost or given back twice and GetStats never reports a torn count.
CountsAgree ==
  /\ semaphore = Cardinality(Owners)
  /\ totalActive = Cardinality(Admitted)
  /\ \A ip \in IP : activeConns[ip] = Cardinality(AdmittedFrom(ip))

\* The setups in progress respect both limits, although the slot and the
\* counters are taken in two steps.
Limit == INSTANCE Admission WITH admitted <- Admitted, MaxTotal <- MaxConnections,
                                 MaxPerIP <- MaxConnectionsPerIP
SetupsLimited == Limit!Spec

\* The receive that gives a slot back, made with the mutex held, always finds
\* one, so it never blocks the pool.
GivingBack == At({"refusing", "freeing"})
SlotToGiveBack == GivingBack # {} => semaphore > 0

\* A request that has taken a slot gives it back and returns, unless it comes to
\* wait for a hub whose Run is not there (hub.go:226-234): it then holds its slot as
\* long as no Run starts, which may be for ever.
StuckInHub(r) == pc[r] \in {"adding", "removing"} /\ hub = "away"

RequestsEnd ==
  \A r \in Request : pc[r] = "acquiring" ~> pc[r] \in {"returned", "rejected"} \/ StuckInHub(r)

\* WithMaxConnections (gosocket.go:12-14) is the maximum number of
\* connections: no more of them are open at a time.
ConnectionsLimited == Cardinality(live) <= MaxConnections
=============================================================================
