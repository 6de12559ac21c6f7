-------------------------- MODULE Session_proofs --------------------------
(***************************************************************************)
(* Proofs about Session.  Pipeline says where the messages read and not    *)
(* yet handled are: at most one in the channel, which is the next, and at  *)
(* most one in the hand of the goroutine that reads, which is the last.    *)
(* Stages says what each step of cleanupClient has already done.           *)
(***************************************************************************)
EXTENDS Session, TLAPS

Msg == 1 .. MaxSent

Pending == (IF slot \in Msg THEN 1 ELSE 0) + (IF hand \in Msg THEN 1 ELSE 0)

Bounds ==
  /\ handled <= taken /\ taken <= sent
  /\ pc # "deliver" => hand = Empty
  /\ pc \in {"token", "read", "deliver"} => violations < MaxViolations
  /\ hand \in Msg \cup {Empty, Error}
  /\ slot \in {Error, Limited} => pc = "ended"

Pipeline ==
  main \in {"select", "process"} =>
    /\ slot \in Msg => slot = handled + 1 /\ slot <= taken
    /\ hand \in Msg => hand = taken
    /\ pc # "ended" => taken = handled + Pending

Cleaning == {"remove", "close", "notify", "ended", "panicked"}

Stages ==
  /\ disconnected = IF main \in Cleaning THEN 1 ELSE 0
  /\ main \in {"close", "notify", "ended"} => client # "in"
  /\ main \in {"notify", "ended"} => conn = "closed"
  /\ app = "told" <=> main = "ended"
  /\ main = "panicked" => hub = "stopped"

Counts ==
  /\ counted \in {written, written + 1}
  /\ writer = "select" => counted = written
  /\ writer = "write" => counted = written + 1

IInv == TypeOK /\ Bounds /\ Pipeline /\ Stages /\ Counts

USE BoundsAssumption DEF Empty, Error, Limited, Item, Msg

LEMMA InitInv == Init => IInv
<1> SUFFICES ASSUME Init PROVE IInv
  OBVIOUS
<1>1. out \in Seq(Outgoing)
  BY DEF Init
<1>2. TypeOK
  BY <1>1 DEF Init, TypeOK
<1>3. Bounds /\ Stages /\ Counts
  BY DEF Init, Bounds, Stages, Counts, Cleaning
<1>4. Pipeline
  BY DEF Init, Pipeline, Pending
<1> QED BY <1>2, <1>3, <1>4 DEF IInv

\* The steps of the environment: no goroutine moves.
LEMMA StepEnvironment == IInv /\ Environment => IInv'
<1> SUFFICES ASSUME IInv, Environment PROVE IInv'
  OBVIOUS
<1> USE DEF readVars, slotVars, mainVars, writerVars, statVars, peerVars, chanVars, hubVars
<1>1. UNCHANGED <<readVars, slotVars, mainVars, writerVars, statVars>>
  BY DEF Environment, PeerSends, PeerGoes, Cancel, Disconnect, HubDelivers,
         HubUnregisters, Unregister, HubRemoves, HubContext, HubStops, HubCloses
<1>2. /\ sent' \in 0 .. MaxSent /\ sent <= sent'
      /\ conn' \in {"open", "closed"} /\ (conn = "closed" => conn' = "closed")
      /\ peer' \in {"there", "gone"} /\ ctx' \in {"live", "done"}
      /\ client' \in {"in", "leaving", "out", "dropped"} /\ hub' \in {"runs", "gone", "stopped"}
      /\ (client # "in" => client' # "in") /\ (hub = "stopped" => hub' = "stopped")
  <2>1. CASE UNCHANGED <<conn, sent, peer, ctx, client, hub>>
    BY <2>1 DEF IInv, TypeOK
  <2>2. CASE PeerSends
    BY <2>2 DEF PeerSends, IInv, TypeOK
  <2>3. CASE PeerGoes \/ Cancel \/ Disconnect
    BY <2>3 DEF PeerGoes, Cancel, Disconnect, IInv, TypeOK
  <2>4. CASE HubUnregisters \/ HubRemoves \/ HubContext \/ HubStops
    BY <2>4 DEF HubUnregisters, Unregister, HubRemoves, HubContext, HubStops, IInv, TypeOK
  <2> QED BY <2>1, <2>2, <2>3, <2>4 DEF Environment, HubDelivers, HubCloses
<1>3. out' \in Seq(Outgoing) /\ chan' \in {"open", "closed", "abandoned"} /\ delivered' \in 0 .. MaxOutgoing
  <2>1. ASSUME NEW m \in Outgoing, HubDelivers(m)
        PROVE  out' \in Seq(Outgoing) /\ chan' = chan /\ delivered' \in 0 .. MaxOutgoing
    BY <2>1 DEF HubDelivers, IInv, TypeOK
  <2>2. CASE HubCloses
    <3>1. out \in Seq(Outgoing)
      BY DEF IInv, TypeOK
    <3>2. out # <<>> => Tail(out) \in Seq(Outgoing)
      BY <3>1
    <3> QED BY <2>2, <3>1, <3>2 DEF HubCloses, IInv, TypeOK
  <2>3. CASE UNCHANGED <<out, chan, delivered>>
    BY <2>3 DEF IInv, TypeOK
  <2>4. CASE \E m \in Outgoing : HubDelivers(m)
    <3>1. chan \in {"open", "closed", "abandoned"}
      BY DEF IInv, TypeOK
    <3> QED BY <2>1, <2>4, <3>1
  <2> QED BY <2>2, <2>3, <2>4
         DEF Environment, PeerSends, PeerGoes, Cancel, Disconnect, HubUnregisters, HubRemoves, HubContext, HubStops
<1>4. TypeOK'
  BY <1>1, <1>2, <1>3 DEF IInv, TypeOK
<1>5. Bounds'
  BY <1>1, <1>2 DEF IInv, Bounds, TypeOK
<1>6. Pipeline'
  BY <1>1 DEF IInv, Pipeline, Pending
<1>7. Stages' /\ Counts'
  BY <1>1, <1>2 DEF IInv, Stages, Counts
<1> QED BY <1>4, <1>5, <1>6, <1>7 DEF IInv

\* The goroutine that reads.
LEMMA StepRead == IInv /\ ReadStep => IInv'
<1> SUFFICES ASSUME IInv, ReadStep PROVE IInv'
  OBVIOUS
<1> USE DEF readVars, slotVars, mainVars, writerVars, statVars, peerVars, chanVars, hubVars, EndRead, AtLimit
<1>1. /\ UNCHANGED <<conn, peerVars, mainVars, writerVars, chanVars, ctx, hubVars, counted, written, disconnected>>
      /\ received' \in Nat /\ messageChan' \in {"open", "closed"}
  BY DEF ReadStep, TokenRefused, TokenTaken, ReadMessage, ReadError, Read, Deliver, DeliverCancelled,
         DeliverLimited, IInv, TypeOK
<1>2. Stages' /\ Counts'
  BY <1>1 DEF IInv, Stages, Counts
<1>3. CASE TokenRefused
  <2>1. TypeOK'
    BY <1>1, <1>3 DEF TokenRefused, IInv, TypeOK, Bounds
  <2>2. Bounds' /\ Pipeline'
    BY <1>1, <1>3 DEF TokenRefused, IInv, TypeOK, Bounds, Pipeline, Pending
  <2> QED BY <2>1, <2>2, <1>2 DEF IInv
<1>4. CASE TokenTaken
  <2>1. TypeOK'
    BY <1>1, <1>4 DEF TokenTaken, IInv, TypeOK
  <2>2. Bounds' /\ Pipeline'
    BY <1>1, <1>4 DEF TokenTaken, IInv, TypeOK, Bounds, Pipeline, Pending
  <2> QED BY <2>1, <2>2, <1>2 DEF IInv
<1>5. CASE ReadMessage
  <2>1. TypeOK'
    BY <1>1, <1>5 DEF ReadMessage, Read, IInv, TypeOK
  <2>2. Bounds'
    BY <1>1, <1>5 DEF ReadMessage, Read, IInv, TypeOK, Bounds
  <2>3. Pipeline'
    BY <1>1, <1>5 DEF ReadMessage, Read, IInv, TypeOK, Bounds, Pipeline, Pending
  <2> QED BY <2>1, <2>2, <2>3, <1>2 DEF IInv
<1>6. CASE ReadError
  <2>1. TypeOK'
    BY <1>1, <1>6 DEF ReadError, Read, IInv, TypeOK
  <2>2. Bounds' /\ Pipeline'
    BY <1>1, <1>6 DEF ReadError, Read, IInv, TypeOK, Bounds, Pipeline, Pending
  <2> QED BY <2>1, <2>2, <1>2 DEF IInv
<1>7. CASE Deliver
  <2>1. TypeOK'
    BY <1>1, <1>7 DEF Deliver, IInv, TypeOK
  <2>2. Bounds'
    BY <1>1, <1>7 DEF Deliver, SlotFree, IInv, TypeOK, Bounds
  <2>3. Pipeline'
    BY <1>1, <1>7 DEF Deliver, SlotFree, IInv, TypeOK, Bounds, Pipeline, Pending
  <2> QED BY <2>1, <2>2, <2>3, <1>2 DEF IInv
<1>8. CASE DeliverCancelled
  <2>1. TypeOK'
    BY <1>1, <1>8 DEF DeliverCancelled, IInv, TypeOK
  <2>2. Bounds' /\ Pipeline'
    BY <1>1, <1>8 DEF DeliverCancelled, IInv, TypeOK, Bounds, Pipeline, Pending
  <2> QED BY <2>1, <2>2, <1>2 DEF IInv
<1>9. CASE DeliverLimited
  <2>1. TypeOK'
    BY <1>1, <1>9 DEF DeliverLimited, IInv, TypeOK
  <2>2. Bounds' /\ Pipeline'
    BY <1>1, <1>9 DEF DeliverLimited, IInv, TypeOK, Bounds, Pipeline, Pending
  <2> QED BY <2>1, <2>2, <1>2 DEF IInv
<1> QED BY <1>3, <1>4, <1>5, <1>6, <1>7, <1>8, <1>9 DEF ReadStep

\* handleClientRead and cleanupClient.
LEMMA StepMain == IInv /\ MainStep => IInv'
<1> SUFFICES ASSUME IInv, MainStep PROVE IInv'
  OBVIOUS
<1> USE DEF readVars, slotVars, mainVars, writerVars, statVars, peerVars, chanVars, hubVars, AfterPanic
<1>1. /\ UNCHANGED <<peerVars, readVars, messageChan, writerVars, chanVars, ctx, received, counted, written>>
      /\ conn' \in {"open", "closed"} /\ app' \in {"untold", "told"}
      /\ client' \in {"in", "leaving", "out", "dropped"} /\ hub' \in {"runs", "gone", "stopped"}
  BY DEF MainStep, MainCancelled, MainEnds, MainReceives, Process, CleanupCount, CleanupRemove, Unregister,
         CleanupClose, CleanupNotify, IInv, TypeOK
<1>2. Counts'
  BY <1>1 DEF IInv, Counts
<1>3. CASE MainCancelled
  <2>1. TypeOK'
    BY <1>1, <1>3 DEF MainCancelled, IInv, TypeOK
  <2>2. Bounds'
    BY <1>1, <1>3 DEF MainCancelled, IInv, Bounds
  <2>3. Pipeline'
    BY <1>1, <1>3 DEF MainCancelled, IInv, Pipeline, Pending
  <2>4. Stages'
    BY <1>1, <1>3 DEF MainCancelled, IInv, Stages, Cleaning
  <2> QED BY <1>2, <2>1, <2>2, <2>3, <2>4 DEF IInv
<1>4. CASE MainEnds
  <2>1. TypeOK'
    BY <1>1, <1>4 DEF MainEnds, IInv, TypeOK
  <2>2. Bounds'
    BY <1>1, <1>4 DEF MainEnds, IInv, Bounds
  <2>3. Pipeline'
    BY <1>1, <1>4 DEF MainEnds, IInv, Pipeline, Pending
  <2>4. Stages'
    BY <1>1, <1>4 DEF MainEnds, IInv, Stages, Cleaning
  <2> QED BY <1>2, <2>1, <2>2, <2>3, <2>4 DEF IInv
<1>5. CASE MainReceives
  <2>1. slot \in Msg /\ slot = handled + 1 /\ slot <= taken /\ handled' = slot /\ slot' = Empty
    BY <1>5 DEF MainReceives, IInv, TypeOK, Pipeline
  <2>2. TypeOK' /\ Bounds'
    BY <1>1, <1>5, <2>1 DEF MainReceives, IInv, TypeOK, Bounds
  <2>3. Pipeline'
    BY <1>1, <1>5, <2>1 DEF MainReceives, IInv, TypeOK, Bounds, Pipeline, Pending
  <2>4. Stages'
    BY <1>1, <1>5 DEF MainReceives, IInv, Stages, Cleaning
  <2> QED BY <1>2, <2>2, <2>3, <2>4 DEF IInv
<1>6. CASE Process
  <2>1. TypeOK'
    BY <1>1, <1>6 DEF Process, IInv, TypeOK
  <2>2. Bounds'
    BY <1>1, <1>6 DEF Process, IInv, Bounds
  <2>3. Pipeline'
    BY <1>1, <1>6 DEF Process, IInv, Pipeline, Pending
  <2>4. Stages'
    BY <1>1, <1>6 DEF Process, IInv, Stages, Cleaning
  <2> QED BY <1>2, <2>1, <2>2, <2>3, <2>4 DEF IInv
<1>7. CASE CleanupCount
  <2>1. TypeOK'
    BY <1>1, <1>7 DEF CleanupCount, IInv, TypeOK, Stages, Cleaning
  <2>2. Bounds'
    BY <1>1, <1>7 DEF CleanupCount, IInv, Bounds
  <2>3. Pipeline'
    BY <1>1, <1>7 DEF CleanupCount, IInv, Pipeline, Pending
  <2>4. Stages'
    BY <1>1, <1>7 DEF CleanupCount, IInv, Stages, Cleaning
  <2> QED BY <1>2, <2>1, <2>2, <2>3, <2>4 DEF IInv
<1>8. CASE CleanupRemove
  <2> USE DEF Unregister
  <2>1. TypeOK'
    BY <1>1, <1>8 DEF CleanupRemove, IInv, TypeOK
  <2>2. Bounds'
    BY <1>1, <1>8 DEF CleanupRemove, IInv, Bounds
  <2>3. Pipeline'
    BY <1>1, <1>8 DEF CleanupRemove, IInv, Pipeline, Pending
  <2>4. Stages'
    BY <1>1, <1>8 DEF CleanupRemove, IInv, Stages, Cleaning
  <2> QED BY <1>2, <2>1, <2>2, <2>3, <2>4 DEF IInv
<1>9. CASE CleanupClose
  <2>1. TypeOK'
    BY <1>1, <1>9 DEF CleanupClose, IInv, TypeOK
  <2>2. Bounds'
    BY <1>1, <1>9 DEF CleanupClose, IInv, Bounds
  <2>3. Pipeline'
    BY <1>1, <1>9 DEF CleanupClose, IInv, Pipeline, Pending
  <2>4. Stages'
    BY <1>1, <1>9 DEF CleanupClose, IInv, Stages, Cleaning
  <2> QED BY <1>2, <2>1, <2>2, <2>3, <2>4 DEF IInv
<1>10. CASE CleanupNotify
  <2>1. TypeOK'
    BY <1>1, <1>10 DEF CleanupNotify, IInv, TypeOK
  <2>2. Bounds'
    BY <1>1, <1>10 DEF CleanupNotify, IInv, Bounds
  <2>3. Pipeline'
    BY <1>1, <1>10 DEF CleanupNotify, IInv, Pipeline, Pending
  <2>4. Stages'
    BY <1>1, <1>10 DEF CleanupNotify, IInv, Stages, Cleaning
  <2> QED BY <1>2, <2>1, <2>2, <2>3, <2>4 DEF IInv
<1> QED BY <1>3, <1>4, <1>5, <1>6, <1>7, <1>8, <1>9, <1>10 DEF MainStep

\* The writer.
LEMMA StepWriter == IInv /\ WriterStep => IInv'
<1> SUFFICES ASSUME IInv, WriterStep PROVE IInv'
  OBVIOUS
<1> USE DEF readVars, slotVars, mainVars, writerVars, statVars, peerVars, chanVars, hubVars,
            WriterEnds, WriteFailed
<1>1. /\ UNCHANGED <<peerVars, readVars, slotVars, mainVars, ctx, hubVars, received, disconnected, chan, delivered>>
      /\ conn' \in {"open", "closed"} /\ (conn = "closed" => conn' = "closed")
  BY DEF WriterStep, WriterCancelled, WriterClosed, WriterTakes, WriterWrites, PingFails, IInv, TypeOK
<1>2. out' \in Seq(Outgoing)
  <2>1. out \in Seq(Outgoing)
    BY DEF IInv, TypeOK
  <2>2. out # <<>> => Tail(out) \in Seq(Outgoing)
    BY <2>1
  <2> QED BY <2>1, <2>2 DEF WriterStep, WriterCancelled, WriterClosed, WriterTakes, WriterWrites, PingFails
<1>3. /\ writer' \in {"select", "write", "ended", "rejected"} /\ counted' \in Nat /\ written' \in Nat
      /\ writing' \in {"nothing", "binary", "text", "none"} /\ Counts'
  <2>1. CASE WriterTakes
    <3>1. FrameType(Head(out)) \in {"binary", "none", "text"}
      BY DEF FrameType
    <3>2. writing' = writing \/ writing' = FrameType(Head(out))
      BY <2>1 DEF WriterTakes
    <3>3. writing' \in {"nothing", "binary", "text", "none"}
      BY <3>1, <3>2 DEF IInv, TypeOK
    <3>4. writer = "select" /\ written' = written
          /\ \/ writer' = "ended" /\ counted' = counted
             \/ writer' = "select" /\ counted' = counted
             \/ writer' = "write" /\ counted' = counted + 1
      BY <2>1 DEF WriterTakes
    <3> QED BY <3>3, <3>4 DEF IInv, TypeOK, Counts
  <2>2. CASE WriterWrites
    <3>1. /\ writer = "write" /\ counted' = counted /\ writing' = "nothing"
          /\ \/ writer' \in {"ended", "rejected"} /\ written' = written
             \/ writer' = "select" /\ written' = written + 1
      BY <2>2 DEF WriterWrites
    <3> QED BY <3>1 DEF IInv, TypeOK, Counts
  <2>3. CASE WriterCancelled \/ WriterClosed \/ PingFails
    BY <2>3 DEF WriterCancelled, WriterClosed, PingFails, IInv, TypeOK, Counts
  <2> QED BY <2>1, <2>2, <2>3 DEF WriterStep
<1>4. TypeOK'
  BY <1>1, <1>2, <1>3 DEF IInv, TypeOK
<1>5. Bounds' /\ Stages'
  BY <1>1 DEF IInv, Bounds, Stages
<1>6. Pipeline'
  BY <1>1 DEF IInv, Pipeline, Pending
<1> QED BY <1>3, <1>4, <1>5, <1>6 DEF IInv

LEMMA Invariance == Spec => []IInv
<1>1. IInv /\ [Next]_vars => IInv'
  <2> SUFFICES ASSUME IInv, [Next]_vars PROVE IInv'
    OBVIOUS
  <2>1. CASE UNCHANGED vars
    BY <2>1 DEF vars, readVars, slotVars, mainVars, writerVars, statVars, peerVars, chanVars, hubVars,
                IInv, TypeOK, Bounds, Pipeline, Pending, Stages, Counts
  <2> QED BY <2>1, StepEnvironment, StepRead, StepMain, StepWriter DEF Next
<1> QED BY <1>1, InitInv, PTL DEF Spec

\* Every variable has its type.
THEOREM TypeCorrect == Spec => []TypeOK
<1>1. IInv => TypeOK
  BY DEF IInv
<1> QED BY <1>1, Invariance, PTL

\* For any number of messages and violations and any outgoing traffic, what ends
\* the read loop cleans the connection up.
THEOREM CleanupAlwaysComplete == Spec => []CleanupComplete
<1>1. IInv => CleanupComplete
  BY DEF IInv, Stages, Cleaning, CleanupComplete
<1> QED BY <1>1, Invariance, PTL

\* The counter of messages sent is ahead of the frames by at most one.
THEOREM SentCounted == Spec => []SentAgree
<1>1. IInv => SentAgree
  BY DEF IInv, Counts, SentAgree
<1> QED BY <1>1, Invariance, PTL

\* A step of the session is a step, or a stutter, of what the application sees.
LEMMA EventsStep == IInv /\ [Next]_vars => [Events!Next]_Events!vars
<1> SUFFICES ASSUME IInv, [Next]_vars PROVE Events!Next \/ UNCHANGED <<sent, handled, app>>
  BY DEF Events!vars
<1> USE DEF readVars, slotVars, mainVars, writerVars, statVars, peerVars, chanVars, hubVars
<1>1. CASE Environment
  <2>1. CASE PeerSends
    BY <2>1 DEF PeerSends, Events!Next, Events!Send
  <2> QED BY <1>1, <2>1 DEF Environment, PeerGoes, Cancel, Disconnect, HubDelivers,
         HubUnregisters, Unregister, HubRemoves, HubContext, HubStops, HubCloses
<1>2. CASE ReadStep
  BY <1>2 DEF ReadStep, TokenRefused, TokenTaken, ReadMessage, ReadError, Read, Deliver, DeliverCancelled,
              DeliverLimited
<1>3. CASE MainReceives
  <2>1. slot \in Msg /\ slot = handled + 1 /\ slot <= taken /\ taken <= sent /\ main = "select"
    BY <1>3 DEF MainReceives, IInv, TypeOK, Pipeline, Bounds
  <2>2. app = "untold"
    BY <2>1 DEF IInv, Stages, TypeOK
  <2>3. handled < sent
    BY <2>1 DEF IInv, TypeOK
  <2> QED BY <1>3, <2>1, <2>2, <2>3 DEF MainReceives, Events!Next, Events!Handle
<1>4. CASE CleanupNotify
  BY <1>4 DEF CleanupNotify, IInv, Stages, Events!Next, Events!Disconnect
<1>5. CASE MainStep /\ ~MainReceives /\ ~CleanupNotify
  BY <1>5 DEF MainStep, MainCancelled, MainEnds, Process, CleanupCount, CleanupRemove,
              Unregister, CleanupClose
<1>6. CASE WriterStep
  BY <1>6 DEF WriterStep, WriterCancelled, WriterClosed, WriterTakes, WriterWrites, PingFails
<1>7. CASE UNCHANGED vars
  BY <1>7 DEF vars
<1> QED BY <1>1, <1>2, <1>3, <1>4, <1>5, <1>6, <1>7 DEF Next

\* The handlers see the messages in order, once each, and none after OnDisconnect.
THEOREM EventsOrdered == Spec => EventsInOrder
<1>1. Init => Events!Init
  BY DEF Init, Events!Init
<1> QED BY <1>1, EventsStep, Invariance, PTL DEF Spec, EventsInOrder, Events!Spec
=============================================================================
