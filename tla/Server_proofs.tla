--------------------------- MODULE Server_proofs ---------------------------
(***************************************************************************)
(* Proofs about Server.  That the flag is owned rests on server changing   *)
(* only where the flag is set, and on the flag being cleared by the step   *)
(* in which its Start leaves "wait".  ServerKnown is needed for the type:  *)
(* what is closed is an http.Server.                                       *)
(***************************************************************************)
EXTENDS Server, TLAPS

\* Whoever closes an http.Server finds one.
ServerKnown ==
  /\ \A i \in Starter : pc[i] \notin {"idle", "refused"} => server # NoStart
  /\ \A t \in Stopper : spc[t] \notin {"idle", "refused"} =>
       server # NoStart /\ (t \in Graceful => target[t] # NoStart)

IInv == TypeOK /\ RunningOwned /\ ServerKnown /\ RunsOwned

USE StartsAssumption

LEMMA InitInv == Init => IInv
<1> SUFFICES ASSUME Init PROVE TypeOK /\ RunningOwned /\ ServerKnown /\ RunsOwned
  BY DEF IInv
<1>1. RunningOwned /\ ServerKnown
  BY DEF Init, RunningOwned, ServerKnown
<1>2. closed \subseteq Starter /\ cancelled \subseteq Starter /\ parentDone \subseteq WithContext
  BY DEF Init
<1>3. \A i \in Starter : run[i] = "none" /\ pc[i] = "idle"
  BY DEF Init
<1>4. TypeOK
  BY <1>2, <1>3 DEF Init, TypeOK
<1>5. RunsOwned
  BY <1>3 DEF Init, RunsOwned
<1> QED BY <1>1, <1>4, <1>5

LEMMA StepBegin ==
  ASSUME IInv, NEW i \in Starter, Begin(i) \/ ParentCancel(i) \/ Serve(i)
  PROVE  IInv'
<1> USE DEF IInv, TypeOK, RunningOwned, ServerKnown, RunsOwned, Goto, hubVars, stopVars
<1>1. CASE StartRefused(i)
  BY <1>1 DEF StartRefused
<1>2. CASE StartBegin(i)
  BY <1>2 DEF StartBegin, GoRun
<1>3. CASE ParentCancel(i)
  BY <1>3 DEF ParentCancel
<1>4. CASE Listen(i)
  BY <1>4 DEF Listen
<1>5. CASE ListenEnds(i)
  BY <1>5 DEF ListenEnds
<1> QED BY <1>1, <1>2, <1>3, <1>4, <1>5 DEF Begin, Serve

LEMMA StepWork ==
  ASSUME IInv, NEW i \in Starter, Work(i) \/ RunStep(i)
  PROVE  IInv'
<1> USE DEF IInv, TypeOK, RunningOwned, ServerKnown, RunsOwned, Goto, startVars, hubVars, stopVars, HubStop, HubStopped, HubClose
<1>1. CASE Clear(i)
  BY <1>1 DEF Clear, ClearRunning, HubCancel
<1>2. CASE StopHub(i)
  BY <1>2 DEF StopHub
<1>3. CASE CloseHub(i)
  BY <1>3 DEF CloseHub
<1>4. CASE Return(i)
  BY <1>4 DEF Return
<1>5. CASE RunStart(i)
  BY <1>5 DEF RunStart
<1>6. CASE RunLeave(i)
  BY <1>6 DEF RunLeave
<1>7. CASE RunExit(i)
  BY <1>7 DEF RunExit
<1> QED BY <1>1, <1>2, <1>3, <1>4, <1>5, <1>6, <1>7 DEF Work, RunStep

LEMMA StepStop ==
  ASSUME IInv, NEW t \in Stopper, StopRefused(t) \/ StopBegin(t) \/ StopStep(t)
  PROVE  IInv'
<1> USE DEF IInv, TypeOK, RunningOwned, ServerKnown, RunsOwned, startVars, hubVars, HubStop, HubStopped, HubClose
<1>1. CASE StopRefused(t)
  BY <1>1 DEF StopRefused
<1>2. CASE StopBegin(t)
  BY <1>2 DEF StopBegin
<1>3. CASE StopStopHub(t)
  BY <1>3 DEF StopStopHub
<1>4. CASE StopCloseHub(t)
  BY <1>4 DEF StopCloseHub
<1>5. CASE StopClose(t)
  BY <1>5 DEF StopClose
<1> QED BY <1>1, <1>2, <1>3, <1>4, <1>5 DEF StopStep

LEMMA Invariance == Spec => []IInv
<1>1. IInv /\ [Next]_vars => IInv'
  <2> SUFFICES ASSUME IInv, [Next]_vars PROVE IInv'
    OBVIOUS
  <2>1. CASE UNCHANGED vars
    BY <2>1 DEF vars, startVars, hubVars, stopVars, IInv, TypeOK, RunningOwned, ServerKnown, RunsOwned
  <2> QED BY <2>1, StepBegin, StepWork, StepStop DEF Next
<1> QED BY <1>1, InitInv, PTL DEF Spec

\* Every variable has its type.
THEOREM TypeCorrect == Spec => []TypeOK
<1>1. IInv => TypeOK
  BY DEF IInv
<1> QED BY <1>1, Invariance, PTL

\* For any number of Start and Stop calls, the flag is that of a Start that has
\* not begun to clean up.
THEOREM FlagOwned == Spec => []RunningOwned
<1>1. IInv => RunningOwned
  BY DEF IInv
<1> QED BY <1>1, Invariance, PTL

\* For any number of Start and Stop calls, a Run outlives its Start only with
\* its context cancelled, and the hub is marked running by a Run that is there.
THEOREM RunsAreOwned == Spec => []RunsOwned
<1>1. IInv => RunsOwned
  BY DEF IInv
<1> QED BY <1>1, Invariance, PTL
=============================================================================
