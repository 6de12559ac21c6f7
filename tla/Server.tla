------------------------------- MODULE Server -------------------------------
(***************************************************************************)
(* The life cycle of a Server: calls of Start, StartWithContext, Stop and  *)
(* StopGracefully, in any number and any order, on one Server and the one  *)
(* Hub it keeps for all of them.  Every Start makes an http.Server of its  *)
(* own and starts a goroutine in Hub.Run, under a context of its own.      *)
(* Of the hub only what it means for them is kept: whether it is marked    *)
(* running, and whether its channels are closed.                           *)
(***************************************************************************)
EXTENDS Naturals, FiniteSets

CONSTANTS
  Starter,      \* the calls of Start and StartWithContext; each names its http.Server
  WithContext,  \* those of StartWithContext
  Stopper,      \* the calls of Stop and StopGracefully
  Graceful,     \* those of StopGracefully
  NoStart

ASSUME StartsAssumption ==
  /\ WithContext \subseteq Starter /\ Graceful \subseteq Stopper /\ NoStart \notin Starter

VARIABLES
  isRunning, server,       \* s.isRunning, and the Start whose http.Server is s.server
  closed,                  \* the http.Servers that were closed or shut down
  pc,                      \* of each Start
  listener, serving,       \* its ListenAndServe, and the http.Server it serves
  cancelled, parentDone,   \* its hubCtx, and the context it was given
  run,                     \* its goroutine in Hub.Run
  hubRunning, hubClosed,   \* h.running; whether Hub.Stop has closed the channels
  spc, target              \* of each Stop, and the http.Server it closes

startVars == <<pc, listener, serving, cancelled, parentDone>>
hubVars   == <<run, hubRunning, hubClosed>>
stopVars  == <<spc, target>>
vars == <<isRunning, server, closed, startVars, hubVars, stopVars>>

Init ==
  /\ isRunning = FALSE /\ server = NoStart /\ closed = {}
  /\ pc = [i \in Starter |-> "idle"]
  /\ listener = [i \in Starter |-> "none"] /\ serving = [i \in Starter |-> NoStart]
  /\ cancelled = {} /\ parentDone = {}
  /\ run = [i \in Starter |-> "none"] /\ hubRunning = FALSE /\ hubClosed = FALSE
  /\ spc = [t \in Stopper |-> "idle"] /\ target = [t \in Stopper |-> NoStart]

Goto(i, label) == pc' = [pc EXCEPT ![i] = label]

\* Steps of Hub.Stop: with h.mu held, and the closing of the channels after it.
HubStopped(running) == IF running THEN "close" ELSE "closed"
HubStop == hubRunning' = FALSE

\* mutant: no recover around the close of a channel that is closed already
HubCloseOnce == ~hubClosed /\ hubClosed' = TRUE
HubClose == hubClosed' = TRUE
-----------------------------------------------------------------------------
(* Start and StartWithContext                                              *)

StartRefused(i) ==
  /\ pc[i] = "idle" /\ isRunning
  /\ Goto(i, "refused")
  /\ UNCHANGED <<isRunning, server, closed, listener, serving, cancelled, parentDone,
                 hubVars, stopVars>>

RunNever(i) == UNCHANGED run    \* mutant: Start forgets the goroutine of Hub.Run
GoRun(i) == run' = [run EXCEPT ![i] = "boot"]

\* Everything up to the Unlock: the goroutine of Run, the http.Server, the flag.
StartBegin(i) ==
  /\ pc[i] = "idle" /\ ~isRunning
  /\ isRunning' = TRUE /\ server' = i
  /\ GoRun(i)
  /\ listener' = [listener EXCEPT ![i] = "listen"]
  /\ Goto(i, "wait")
  /\ UNCHANGED <<closed, serving, cancelled, parentDone, hubRunning, hubClosed, stopVars>>

PortInUse == \E j \in Starter : listener[j] = "serve" /\ serving[j] \notin closed

\* s.server is read without s.mu: it may be the one of a later Start.
Listen(i) ==
  /\ listener[i] = "listen"
  /\ \/ /\ server \notin closed /\ ~PortInUse
        /\ listener' = [listener EXCEPT ![i] = "serve"]
        /\ serving' = [serving EXCEPT ![i] = server]
     \/ /\ listener' = [listener EXCEPT ![i] = "ended"]    \* ErrServerClosed, or a bind error
        /\ UNCHANGED serving
  /\ UNCHANGED <<isRunning, server, closed, pc, cancelled, parentDone, hubVars, stopVars>>

ListenEnds(i) ==
  /\ listener[i] = "serve" /\ serving[i] \in closed
  /\ listener' = [listener EXCEPT ![i] = "ended"]
  /\ UNCHANGED <<isRunning, server, closed, pc, serving, cancelled, parentDone, hubVars, stopVars>>

\* The application cancels the context, and with it the one of the hub.
ParentCancel(i) ==
  /\ i \in WithContext \ parentDone /\ pc[i] \notin {"refused", "returned"}
  /\ parentDone' = parentDone \cup {i}
  /\ cancelled' = cancelled \cup {i}
  /\ UNCHANGED <<isRunning, server, closed, pc, listener, serving, hubVars, stopVars>>

KeepRunning == UNCHANGED isRunning    \* mutant: only Stop clears the flag
ClearRunning == isRunning' = FALSE

ForgetCancel(i) == UNCHANGED cancelled    \* mutant: Run gets no context of its own
HubCancel(i) == cancelled' = cancelled \cup {i}

\* ListenAndServe has returned, or the select of StartWithContext finds its
\* context done: the flag is cleared with s.mu held, then hubCtx is cancelled,
\* which only Run looks at.  performGracefulShutdown does no more when a Stop
\* was there before it.
Clear(i) ==
  /\ pc[i] = "wait"
  /\ listener[i] = "ended" \/ i \in parentDone
  /\ ClearRunning
  /\ HubCancel(i)
  /\ Goto(i, IF i \in WithContext /\ ~isRunning THEN "returned" ELSE "stop")
  /\ UNCHANGED <<server, closed, listener, serving, parentDone, hubVars, stopVars>>

StopHub(i) ==
  /\ pc[i] = "stop"
  /\ HubStop
  /\ Goto(i, HubStopped(hubRunning))
  /\ UNCHANGED <<isRunning, server, closed, listener, serving, cancelled, parentDone,
                 run, hubClosed, stopVars>>

CloseHub(i) ==
  /\ pc[i] = "close"
  /\ HubClose
  /\ Goto(i, "closed")
  /\ UNCHANGED <<isRunning, server, closed, listener, serving, cancelled, parentDone,
                 run, hubRunning, stopVars>>

\* StartWithContext shuts s.server down, again whichever it is by now.
Return(i) ==
  /\ pc[i] = "closed"
  /\ closed' = IF i \in WithContext THEN closed \cup {server} ELSE closed
  /\ Goto(i, "returned")
  /\ UNCHANGED <<isRunning, server, listener, serving, cancelled, parentDone, hubVars, stopVars>>
-----------------------------------------------------------------------------
(* Hub.Run                                                                 *)

RunStart(i) ==
  /\ run[i] = "boot"
  /\ hubRunning' = TRUE
  /\ run' = [run EXCEPT ![i] = "loop"]
  /\ UNCHANGED <<isRunning, server, closed, startVars, hubClosed, stopVars>>

RunLeave(i) ==
  /\ run[i] = "loop" /\ (i \in cancelled \/ hubClosed)
  /\ run' = [run EXCEPT ![i] = "exit"]
  /\ UNCHANGED <<isRunning, server, closed, startVars, hubRunning, hubClosed, stopVars>>

\* mutant: the deferred function of Run does not clear the flag
RunExitMarked(i) ==
  /\ run[i] = "exit"
  /\ run' = [run EXCEPT ![i] = "ended"]
  /\ UNCHANGED <<isRunning, server, closed, startVars, hubRunning, hubClosed, stopVars>>

RunExit(i) ==
  /\ run[i] = "exit"
  /\ hubRunning' = FALSE
  /\ run' = [run EXCEPT ![i] = "ended"]
  /\ UNCHANGED <<isRunning, server, closed, startVars, hubClosed, stopVars>>
-----------------------------------------------------------------------------
(* Stop and StopGracefully                                                 *)

StopRefused(t) ==
  /\ spc[t] = "idle" /\ (~isRunning \/ server = NoStart)
  /\ spc' = [spc EXCEPT ![t] = "refused"]
  /\ UNCHANGED <<isRunning, server, closed, startVars, hubVars, target>>

\* StopGracefully takes s.server with the flag; Stop reads it at the end.
StopBegin(t) ==
  /\ spc[t] = "idle" /\ isRunning /\ server # NoStart
  /\ isRunning' = FALSE
  /\ target' = [target EXCEPT ![t] = IF t \in Graceful THEN server ELSE NoStart]
  /\ spc' = [spc EXCEPT ![t] = "stop"]
  /\ UNCHANGED <<server, closed, startVars, hubVars>>

StopStopHub(t) ==
  /\ spc[t] = "stop"
  /\ HubStop
  /\ spc' = [spc EXCEPT ![t] = HubStopped(hubRunning)]
  /\ UNCHANGED <<isRunning, server, closed, startVars, run, hubClosed, target>>

StopCloseHub(t) ==
  /\ spc[t] = "close"
  /\ HubClose
  /\ spc' = [spc EXCEPT ![t] = "closed"]
  /\ UNCHANGED <<isRunning, server, closed, startVars, run, hubRunning, target>>

StopClose(t) ==
  /\ spc[t] = "closed"
  /\ closed' = closed \cup {IF t \in Graceful THEN target[t] ELSE server}
  /\ spc' = [spc EXCEPT ![t] = "returned"]
  /\ UNCHANGED <<isRunning, server, startVars, hubVars, target>>
-----------------------------------------------------------------------------
Begin(i) == StartRefused(i) \/ StartBegin(i)

\* What the goroutine of a Start, the one of its listener and the one of Run do.
Work(i) == Clear(i) \/ StopHub(i) \/ CloseHub(i) \/ Return(i)

Serve(i) == Listen(i) \/ ListenEnds(i)

RunStep(i) == RunStart(i) \/ RunLeave(i) \/ RunExit(i)

StopStep(t) == StopStopHub(t) \/ StopCloseHub(t) \/ StopClose(t)

Next ==
  \/ \E i \in Starter : Begin(i) \/ ParentCancel(i) \/ Work(i) \/ Serve(i) \/ RunStep(i)
  \/ \E t \in Stopper : StopRefused(t) \/ StopBegin(t) \/ StopStep(t)

Spec == Init /\ [][Next]_vars

\* A goroutine that can go on does; when Start or Stop is called, and a context
\* cancelled, is the application's choice.
Fairness ==
  /\ \A i \in Starter : WF_vars(Work(i)) /\ WF_vars(Serve(i)) /\ WF_vars(RunStep(i))
  /\ \A t \in Stopper : WF_vars(StopStep(t))

FairSpec == Spec /\ Fairness
-----------------------------------------------------------------------------
(* Properties                                                              *)

\* Every variable has its type, and a goroutine of Run exists from its Start on.
TypeOK ==
  /\ isRunning \in BOOLEAN /\ server \in Starter \cup {NoStart} /\ closed \subseteq Starter
  /\ pc \in [Starter -> {"idle", "refused", "wait", "stop", "close", "closed", "returned"}]
  /\ listener \in [Starter -> {"none", "listen", "serve", "ended"}]
  /\ serving \in [Starter -> Starter \cup {NoStart}]
  /\ cancelled \subseteq Starter /\ parentDone \subseteq WithContext
  /\ run \in [Starter -> {"none", "boot", "loop", "exit", "ended"}]
  /\ hubRunning \in BOOLEAN /\ hubClosed \in BOOLEAN
  /\ spc \in [Stopper -> {"idle", "refused", "stop", "close", "closed", "returned"}]
  /\ target \in [Stopper -> Starter \cup {NoStart}]
  /\ \A i \in Starter : run[i] = "none" <=> pc[i] \in {"idle", "refused"}

\* A server that is marked running belongs to a Start that has not begun to
\* clean up: although the cleanup of one Start may clear the flag of another,
\* the flag never outlives the Start that set it, so that no later Start is
\* refused, and no Stop accepted, for a server that has ended.
RunningOwned == isRunning => server \in Starter /\ pc[server] = "wait"

\* A Run outlives its Start only with its context cancelled, so that it leaves
\* even when Hub.Stop found h.running cleared by the Run of another Start and
\* closed nothing; and h.running, one flag for any number of Runs, outlives none
\* of them: a Stop that comes when all have ended closes nothing.
RunsOwned ==
  /\ \A i \in Starter : run[i] \in {"boot", "loop"} => pc[i] = "wait" \/ i \in cancelled
  /\ hubRunning => \E i \in Starter : run[i] \in {"loop", "exit"}

\* The goroutine in Hub.Run ends after its Start has returned, also when the
\* Stop came before Run had marked the hub running and did nothing, and when
\* the Run of another Start has marked it stopped.
RunsEnd == <>[](\A i \in Starter : pc[i] = "returned" => run[i] = "ended")

\* Every Stop, and every Start whose context or listener is done, returns: also
\* when the channels of the hub were closed by an earlier Stop.
CallsReturn ==
  <>[](/\ \A t \in Stopper : spc[t] \in {"idle", "refused", "returned"}
       /\ \A i \in Starter : listener[i] = "ended" \/ (pc[i] = "wait" /\ i \in parentDone)
                            => pc[i] = "returned")
=============================================================================
