------------------------------ MODULE Session ------------------------------
(***************************************************************************)
(* One connection after its handshake: the goroutine that reads the        *)
(* socket, the loop of handleClientRead it feeds through messageChan, the  *)
(* writer, cleanupClient, and the counters they keep.  The peer, the hub   *)
(* and the application are the environment: the peer sends and goes away,  *)
(* the hub delivers, unregisters, stops, or is left by its Run when the    *)
(* context of Run is cancelled, the application cancels, disconnects and   *)
(* panics.                                                                 *)
(***************************************************************************)
EXTENDS Naturals, Sequences

CONSTANTS
  MaxSent,        \* bound: messages of the peer
  MaxViolations,  \* MaxRateLimitViolations
  Outgoing,       \* messages the hub may deliver: [type, encoding, data]
  MaxOutgoing,    \* bound: how many
  Serializers     \* the encodings with a registered serializer

ASSUME BoundsAssumption ==
  MaxSent \in Nat /\ MaxViolations \in Nat \ {0} /\ MaxOutgoing \in Nat

VARIABLES
  conn,                   \* "open", or closed at this end
  sent, peer,             \* messages the peer sent, whether it is there or gone
  pc, hand, taken, violations,  \* the goroutine that reads, and what it read
  slot, messageChan,      \* what is in messageChan, whose capacity is 1, and its state
  main, handled, app,     \* handleClientRead: messages begun, OnDisconnect called
  writer, out, writing,   \* the writer, MessageChan, and the message it writes
  chan, delivered,        \* state of MessageChan; messages put into it
  ctx,                    \* handlerCtx: live or done
  client,                 \* in the hub, leaving it, out, or dropped: left in by a Run that ended
  hub,                    \* it runs, Run has returned as its context was cancelled, or it is stopped
  received, counted, written, disconnected    \* statistics, and frames written

peerVars   == <<sent, peer>>
readVars   == <<pc, hand, taken, violations>>
slotVars   == <<slot, messageChan>>
mainVars   == <<main, handled, app>>
writerVars == <<writer, writing>>
chanVars   == <<out, chan, delivered>>
hubVars    == <<client, hub>>
statVars   == <<received, counted, written, disconnected>>
vars == <<conn, peerVars, readVars, slotVars, mainVars, writerVars, chanVars, ctx, hubVars, statVars>>

\* What passes through messageChan: message n of the peer is the number n.
Empty == 0
Error == MaxSent + 1
Limited == MaxSent + 2    \* ErrRateLimitExceeded
Item == (1 .. MaxSent) \cup {Error, Limited}

Init ==
  /\ conn = "open" /\ sent = 0 /\ peer = "there"
  /\ pc = "token" /\ hand = Empty /\ taken = 0 /\ violations = 0
  /\ slot = Empty /\ messageChan = "open"
  /\ main = "select" /\ handled = 0 /\ app = "untold"
  /\ writer = "select" /\ writing = "nothing" /\ out = <<>> /\ chan = "open" /\ delivered = 0
  /\ ctx = "live" /\ client = "in" /\ hub = "runs"
  /\ received = 0 /\ counted = 0 /\ written = 0 /\ disconnected = 0
-----------------------------------------------------------------------------
(* The environment                                                         *)

PeerSends ==
  /\ sent < MaxSent /\ peer = "there"
  /\ sent' = sent + 1
  /\ UNCHANGED <<conn, peer, readVars, slotVars, mainVars, writerVars, chanVars, ctx, hubVars, statVars>>

PeerGoes ==
  /\ peer = "there" /\ peer' = "gone"
  /\ UNCHANGED <<conn, sent, readVars, slotVars, mainVars, writerVars, chanVars, ctx, hubVars, statVars>>

\* Context.Cancel, from any handler.
Cancel ==
  /\ ctx = "live" /\ ctx' = "done"
  /\ UNCHANGED <<conn, peerVars, readVars, slotVars, mainVars, writerVars, chanVars, hubVars, statVars>>

\* A Disconnect of the application, whose RemoveClient has returned.
Disconnect ==
  /\ conn = "open" /\ client # "in"
  /\ conn' = "closed"
  /\ UNCHANGED <<peerVars, readVars, slotVars, mainVars, writerVars, chanVars, ctx, hubVars, statVars>>

\* A broadcast or a direct message reaches MessageChan, which a sender may have
\* looked up before its client left the hub.
HubDelivers(m) ==
  /\ chan # "closed" /\ delivered < MaxOutgoing
  /\ out' = Append(out, m) /\ delivered' = delivered + 1
  /\ UNCHANGED <<conn, peerVars, readVars, slotVars, mainVars, writerVars, chan, ctx, hubVars, statVars>>

\* Run receives a client from Unregister and is to remove it, or finds its context
\* cancelled and returns with the client still registered.  Nothing is received
\* while Run removes the client, nor when Run has returned.
Unregister ==
  /\ hub = "runs" /\ client # "leaving"
  /\ \/ client' = (IF client = "out" THEN "out" ELSE "leaving") /\ UNCHANGED hub
     \/ client' = (IF client = "out" THEN "out" ELSE "dropped") /\ hub' = "gone"

\* RemoveClient by others: an eviction, or a Disconnect.
HubUnregisters ==
  /\ Unregister
  /\ UNCHANGED <<conn, peerVars, readVars, slotVars, mainVars, writerVars, chanVars, ctx, statVars>>

HubRemoves ==
  /\ client = "leaving" /\ client' = "out"
  /\ UNCHANGED <<conn, peerVars, readVars, slotVars, mainVars, writerVars, chanVars, ctx, hub, statVars>>

\* Run returns when its context is cancelled, and another Start runs the hub
\* again.  Only Stop closes the channels, and only under a Run.
HubContext ==
  /\ \/ hub = "runs" /\ client # "leaving" /\ hub' = "gone"
     \/ hub = "gone" /\ hub' = "runs"
  /\ UNCHANGED <<conn, peerVars, readVars, slotVars, mainVars, writerVars, chanVars, ctx, client, statVars>>

HubStops ==
  /\ hub = "runs" /\ hub' = "stopped" /\ client' = "out"
  /\ UNCHANGED <<conn, peerVars, readVars, slotVars, mainVars, writerVars, chanVars, ctx, statVars>>

\* safeCloseClientChannel takes a pending message instead of closing.
HubCloses ==
  /\ chan = "open" /\ client = "out"
  /\ IF out = <<>> THEN chan' = "closed" /\ UNCHANGED out
                   ELSE chan' = "abandoned" /\ out' = Tail(out)
  /\ UNCHANGED <<conn, peerVars, readVars, slotVars, mainVars, writerVars, delivered, ctx, hubVars, statVars>>
-----------------------------------------------------------------------------
(* The goroutine that reads                                                *)

EndReadOpen == pc' = "ended" /\ UNCHANGED messageChan    \* mutant: messageChan is never closed
EndRead == pc' = "ended" /\ messageChan' = "closed"    \* defer close(messageChan)

AboveLimit(v) == v > MaxViolations    \* mutant: one violation too many
AtLimit(v) == v >= MaxViolations

\* The rate limiter answers as it likes; RateLimiter is about its answers.
TokenRefused ==
  /\ pc = "token"
  /\ violations' = violations + 1
  /\ pc' = IF AtLimit(violations + 1) THEN "limited" ELSE "token"
  /\ UNCHANGED <<conn, peerVars, hand, taken, slotVars, mainVars, writerVars, chanVars, ctx, hubVars, statVars>>

\* SetReadDeadline fails on a closed connection.
TokenTaken ==
  /\ pc = "token"
  /\ IF conn = "open" THEN pc' = "read" /\ UNCHANGED messageChan ELSE EndRead
  /\ UNCHANGED <<conn, peerVars, hand, taken, violations, slot, mainVars, writerVars, chanVars, ctx, hubVars, statVars>>

\* ReadMessage, whose result is counted as a message also when it is an error.
Read(item) ==
  /\ pc = "read"
  /\ hand' = item
  /\ received' = received + 1
  /\ pc' = "deliver"
  /\ UNCHANGED <<conn, peerVars, violations, slotVars, mainVars, writerVars, chanVars, ctx, hubVars,
                 counted, written, disconnected>>

ReadMessage ==
  /\ conn = "open" /\ taken < sent
  /\ taken' = taken + 1
  /\ Read(taken + 1)

\* The connection is closed or lost, or the deadline passes.
ReadError == Read(Error) /\ UNCHANGED taken

SlotFreeAlways == TRUE    \* mutant: the send overwrites what is in the channel
SlotFree == slot = Empty

\* messageChan <- {messageType, data, err}
Deliver ==
  /\ pc = "deliver" /\ SlotFree
  /\ slot' = hand /\ hand' = Empty
  /\ IF hand = Error THEN EndRead ELSE pc' = "token" /\ UNCHANGED messageChan
  /\ UNCHANGED <<conn, peerVars, taken, violations, mainVars, writerVars, chanVars, ctx, hubVars, statVars>>

NeverCancelled == FALSE    \* mutant: a plain send, without the select
ReadCancelled == ctx = "done"

DeliverCancelled ==
  /\ pc = "deliver" /\ ReadCancelled
  /\ EndRead /\ hand' = Empty
  /\ UNCHANGED <<conn, peerVars, taken, violations, slot, mainVars, writerVars, chanVars, ctx, hubVars, statVars>>

\* This send waits for the slot only, not for the context.
DeliverLimited ==
  /\ pc = "limited" /\ SlotFree
  /\ slot' = Limited /\ EndRead
  /\ UNCHANGED <<conn, peerVars, hand, taken, violations, mainVars, writerVars, chanVars, ctx, hubVars, statVars>>
-----------------------------------------------------------------------------
(* handleClientRead, processMessage and cleanupClient                      *)

MainCancelled ==
  /\ main = "select" /\ ctx = "done"
  /\ main' = "count"
  /\ UNCHANGED <<conn, peerVars, readVars, slotVars, handled, app, writerVars, chanVars, ctx, hubVars, statVars>>

\* An error, a closed channel, or a message whose SetReadDeadline fails.
MainEnds ==
  /\ main = "select"
  /\ \/ slot \in {Error, Limited}
     \/ slot = Empty /\ messageChan = "closed"
     \/ slot # Empty /\ conn = "closed"
  /\ slot' = Empty
  /\ main' = "count"
  /\ UNCHANGED <<conn, peerVars, readVars, messageChan, handled, app, writerVars, chanVars, ctx, hubVars, statVars>>

MainReceives ==
  /\ main = "select" /\ slot \notin {Empty, Error, Limited} /\ conn = "open"
  /\ handled' = slot /\ slot' = Empty
  /\ main' = "process"
  /\ UNCHANGED <<conn, peerVars, readVars, messageChan, app, writerVars, chanVars, ctx, hubVars, statVars>>

PanicLost == "ended"    \* mutant: cleanupClient is not deferred
AfterPanic == "count"

\* OnMessage, OnRawMessage and OnJSONMessage return, with or without an error,
\* or one of them panics; the defer recovers and cleans up.
Process ==
  /\ main = "process"
  /\ main' \in {"select", AfterPanic}
  /\ UNCHANGED <<conn, peerVars, readVars, slotVars, handled, app, writerVars, chanVars, ctx, hubVars, statVars>>

CleanupCount ==
  /\ main = "count"
  /\ disconnected' = disconnected + 1
  /\ main' = "remove"
  /\ UNCHANGED <<conn, peerVars, readVars, slotVars, handled, app, writerVars, chanVars, ctx, hubVars,
                 received, counted, written>>

\* RemoveClient: the hub receives, or its channel is closed and the send panics,
\* which ends the cleanup.  When Run has returned, the send waits for another Run.
CleanupRemove ==
  /\ main = "remove"
  /\ \/ Unregister /\ main' = "close"
     \/ hub = "stopped" /\ main' = "panicked" /\ UNCHANGED hubVars
  /\ UNCHANGED <<conn, peerVars, readVars, slotVars, handled, app, writerVars, chanVars, ctx, statVars>>

CleanupClose ==
  /\ main = "close"
  /\ conn' = "closed" /\ main' = "notify"
  /\ UNCHANGED <<peerVars, readVars, slotVars, handled, app, writerVars, chanVars, ctx, hubVars, statVars>>

\* A panic of OnDisconnect is recovered.
CleanupNotify ==
  /\ main = "notify"
  /\ app' = "told" /\ main' = "ended"
  /\ UNCHANGED <<conn, peerVars, readVars, slotVars, handled, writerVars, chanVars, ctx, hubVars, statVars>>
-----------------------------------------------------------------------------
(* handleClientWrite                                                       *)

\* Every way out closes the connection.
WriterEnds(how) == writer' = how /\ conn' = "closed"

\* serializeMessageWithEncoding: the built-in Protobuf serializer writes nothing,
\* without an error.  JSON is written whether or not its serializer is registered.
Serialized(m) ==
  CASE m.encoding = "Protobuf" -> IF "Protobuf" \in Serializers THEN "nothing" ELSE "error"
    [] m.encoding = "Raw"      -> IF m.data = "bytes" THEN "bytes" ELSE "error"
    [] OTHER                   -> IF m.data = "invalid" THEN "error" ELSE "bytes"

\* What there is to send: RawData, or what Data is serialized to.
Content(m) ==
  CASE m.data = "raw" -> "bytes" [] m.data = "none" -> "nothing" [] OTHER -> Serialized(m)

\* The switch on message.Type: no case falls through.
FrameType(m) ==
  CASE m.type = "BinaryMessage" -> "binary" [] m.type = "TextMessage" -> "none" [] OTHER -> "text"

\* The context is done, seen with or without a message in hand.
WriterCancelled ==
  /\ writer = "select" /\ ctx = "done"
  /\ WriterEnds("ended")
  /\ \/ UNCHANGED out
     \/ out # <<>> /\ out' = Tail(out)
  /\ UNCHANGED <<peerVars, readVars, slotVars, mainVars, writing, chan, delivered, ctx, hubVars, statVars>>

WriterClosed ==
  /\ writer = "select" /\ out = <<>> /\ chan = "closed"
  /\ WriterEnds("ended")
  /\ UNCHANGED <<peerVars, readVars, slotVars, mainVars, writing, chanVars, ctx, hubVars, statVars>>

\* A message that cannot be serialized is skipped, one without data ends the writer.
WriterTakes ==
  /\ writer = "select" /\ out # <<>> /\ ctx = "live"
  /\ out' = Tail(out)
  /\ LET m == Head(out) IN
       \/ /\ Content(m) = "nothing"
          /\ WriterEnds("ended") /\ UNCHANGED <<writing, counted>>
       \/ /\ Content(m) = "error"
          /\ UNCHANGED <<writer, conn, writing, counted>>
       \/ /\ Content(m) = "bytes"
          /\ writer' = "write" /\ writing' = FrameType(m)
          /\ counted' = counted + 1    \* incrementMessagesSent, before the write
          /\ UNCHANGED conn
  /\ UNCHANGED <<peerVars, readVars, slotVars, mainVars, chan, delivered, ctx, hubVars, received, written, disconnected>>

WriteSkipped == writer' = "select" /\ UNCHANGED conn    \* mutant: continue for return
WriteFailed == WriterEnds("ended")

\* WriteMessage refuses a frame type it does not know; otherwise it may fail,
\* and fails when the connection is closed.
WriterWrites ==
  /\ writer = "write" /\ writing' = "nothing"
  /\ \/ /\ writing = "none"
        /\ WriterEnds("rejected") /\ UNCHANGED written
     \/ /\ writing # "none" /\ conn = "open"
        /\ written' = written + 1 /\ writer' = "select" /\ UNCHANGED conn
     \/ /\ writing # "none"
        /\ WriteFailed /\ UNCHANGED written
  /\ UNCHANGED <<peerVars, readVars, slotVars, mainVars, chanVars, ctx, hubVars, received, counted, disconnected>>

\* A ping that cannot be written, or an OnPing that panics.
PingFails ==
  /\ writer = "select"
  /\ WriterEnds("ended")
  /\ UNCHANGED <<peerVars, readVars, slotVars, mainVars, writing, chanVars, ctx, hubVars, statVars>>
-----------------------------------------------------------------------------
Environment ==
  \/ PeerSends \/ PeerGoes \/ Cancel \/ Disconnect
  \/ HubUnregisters \/ HubRemoves \/ HubContext \/ HubStops \/ HubCloses
  \/ \E m \in Outgoing : HubDelivers(m)

ReadStep == TokenRefused \/ TokenTaken \/ ReadMessage \/ ReadError \/ Deliver \/ DeliverCancelled \/ DeliverLimited

MainStep == MainCancelled \/ MainEnds \/ MainReceives \/ Process
            \/ CleanupCount \/ CleanupRemove \/ CleanupClose \/ CleanupNotify

WriterStep == WriterCancelled \/ WriterClosed \/ WriterTakes \/ WriterWrites \/ PingFails

Next == Environment \/ ReadStep \/ MainStep \/ WriterStep

Spec == Init /\ [][Next]_vars

\* Goroutines are scheduled and callbacks return.  A read of a connection that
\* is closed or lost fails at last (the deadline), and so does a ping to it;
\* nothing is assumed of a peer that is there, nor of the rate limiter.  A Run
\* finishes the removal it has begun; of the hub nothing else is assumed: while
\* its Run is gone, RemoveClient is blocked and MainStep is not enabled.
Fairness ==
  /\ WF_vars(TokenTaken \/ ReadMessage \/ Deliver \/ DeliverCancelled \/ DeliverLimited)
  /\ WF_vars(ReadError /\ (conn = "closed" \/ peer = "gone"))
  /\ WF_vars(MainStep)
  /\ WF_vars(HubRemoves)
  /\ WF_vars(WriterCancelled \/ WriterClosed \/ WriterTakes \/ WriterWrites)
  /\ WF_vars(PingFails /\ (conn = "closed" \/ peer = "gone"))

FairSpec == Spec /\ Fairness
-----------------------------------------------------------------------------
(* Properties                                                              *)

\* Every variable has its type: the reader is closed before it counts more than
\* MaxRateLimitViolations, nothing is handled or delivered that was not sent, and
\* cleanupClient counts a connection as disconnected at most once.
TypeOK ==
  /\ conn \in {"open", "closed"} /\ sent \in 0 .. MaxSent /\ peer \in {"there", "gone"}
  /\ pc \in {"token", "read", "deliver", "limited", "ended"}
  /\ hand \in Item \cup {Empty} /\ taken \in 0 .. MaxSent /\ violations \in 0 .. MaxViolations
  /\ slot \in Item \cup {Empty} /\ messageChan \in {"open", "closed"}
  /\ main \in {"select", "process", "count", "remove", "close", "notify", "ended", "panicked"}
  /\ handled \in 0 .. MaxSent /\ app \in {"untold", "told"}
  /\ writer \in {"select", "write", "ended", "rejected"}
  /\ writing \in {"nothing", "binary", "text", "none"}
  /\ out \in Seq(Outgoing) /\ chan \in {"open", "closed", "abandoned"} /\ delivered \in 0 .. MaxOutgoing
  /\ ctx \in {"live", "done"} /\ client \in {"in", "leaving", "out", "dropped"}
  /\ hub \in {"runs", "gone", "stopped"}
  /\ received \in Nat /\ counted \in Nat /\ written \in Nat /\ disconnected \in 0 .. 1

\* Through two goroutines and a channel, with errors, rate limits, panics and
\* cancellations in between, the handlers see the messages of the peer in order
\* and once each, and none after OnDisconnect.
Events == INSTANCE SessionEvents WITH over <- (app = "told")

EventsInOrder == Events!Spec

\* Whatever ends handleClientRead, a panic of a handler included, the connection
\* is counted as disconnected once, the hub has received the removal of its
\* client, the socket is closed and OnDisconnect has been called; only a stopped
\* hub cuts this short.  A client the hub keeps all the same was received by a
\* Run whose context was cancelled.
CleanupComplete ==
  /\ main = "ended" => client # "in" /\ conn = "closed" /\ app = "told" /\ disconnected = 1
  /\ main = "panicked" => hub = "stopped" /\ disconnected = 1

\* MessagesSent, counted before the write, is ahead of the frames written by at
\* most the one that is being written or that ended the writer.
SentAgree ==
  /\ counted \in {written, written + 1}
  /\ writer = "select" => counted = written

\* A connection that is closed or lost, cancelled, or over its rate limit is
\* cleaned up, and its writer ends, unless the hub is stopped meanwhile, or
\* RemoveClient finds a hub whose Run has returned with Unregister left open.
Over == conn = "closed" \/ peer = "gone" \/ ctx = "done" \/ violations = MaxViolations

StuckInHub == main = "remove" /\ hub = "gone"

ConnectionEnds ==
  Over ~> (main = "ended" /\ writer \in {"ended", "rejected"}) \/ hub = "stopped" \/ StuckInHub

\* The goroutine that reads outlives the connection only when it is left with
\* something to put into a channel that is full and that nobody empties: a
\* message although the context was never cancelled, or the rate limit error.
ReaderEnds ==
  <>[](main = "ended" =>
         \/ pc = "ended"
         \/ slot # Empty /\ (pc = "limited" \/ (pc = "deliver" /\ ctx = "live")))

\* server.go:344 "The message is sent as a websocket.TextMessage": no message is
\* refused by the connection for its type.
TextSent == writer # "rejected"
=============================================================================
