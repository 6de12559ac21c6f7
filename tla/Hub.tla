-------------------------------- MODULE Hub --------------------------------
(***************************************************************************)
(* The event loop of Hub.Run with the goroutines that call into it: the    *)
(* handshake, reader and writer goroutines of every client, the callers of *)
(* BroadcastMessage, SendToClient, Client.Disconnect and Hub.Stop, and the *)
(* goroutines the hub itself spawns to evict slow clients.                 *)
(*                                                                         *)
(* Register, Unregister and Broadcast are unbuffered Go channels: a caller *)
(* blocked in a send is a caller whose program counter says so, and the    *)
(* hub's receive is one joint step.  A send on a closed channel panics.    *)
(* Rooms and the handshake are modelled in their own modules.              *)
(***************************************************************************)
EXTENDS Naturals, Sequences, FiniteSets

CONSTANTS
  Client,        \* the *Client values
  Id,            \* client identifiers, the keys of h.Clients
  IdOf,          \* the identifier of each client
  Broadcaster,   \* goroutines, each of one BroadcastMessage call (and its message)
  Raw,           \* the broadcast messages that carry RawData
  Sender,        \* goroutines, each of one SendToClient call (and its message)
  Disconnecter,  \* goroutines, each of one Client.Disconnect call
  Stopper,       \* goroutines, each of one Hub.Stop call
  ChanCap,       \* MessageChanBufSize
  MayCancel,     \* whether the context given to Run may be cancelled
  NoClient, NoCaller

ASSUME ConstantsAssumption ==
  /\ IdOf \in [Client -> Id]
  /\ Raw \subseteq Broadcaster
  /\ ChanCap \in Nat \ {0}
  /\ MayCancel \in BOOLEAN
  /\ NoClient \notin Client
  /\ NoCaller \notin Broadcaster \cup Sender
  /\ Broadcaster \cap Sender = {}
  /\ Disconnecter \cap Sender = {}

HubChannel == {"Register", "Unregister", "Broadcast"}

VARIABLES
  \* the Hub struct
  running,    \* h.running
  ctxDone,    \* the context of Run is cancelled
  closed,     \* the channels of the hub that Stop has closed
  mu,         \* h.mu: "free", or held by "run" or by "stop"
  clients,    \* h.Clients
  \* the goroutine of Run
  hubPc, hubClient, hubMsg,
  targets,    \* clients the broadcast in progress has still to reach
  failed,     \* clientsToRemove of the broadcast in progress
  \* the clients
  life,       \* handshake goroutine, then reader goroutine
  pump,       \* writer goroutine
  chan, open, \* MessageChan: its buffer, and whether it is not closed
  sock,       \* whether the network connection is open
  connNil,    \* Client.Conn == nil
  cmu,        \* Client.mu is held by a Disconnect
  \* the callers
  call,       \* BroadcastMessage and SendToClient calls
  args,       \* the identifiers a SendToClient call is given
  found,      \* the client it is to deliver to
  evict,      \* RemoveProblematicClients goroutine of each broadcast
  disc,       \* Client.Disconnect goroutines (spawned ones included)
  victim,     \* the client of each Disconnect
  spc,        \* Stop calls
  closing,    \* clients the Stop in progress has still to close
  probed,     \* the one whose empty channel it is about to close
  \* history
  count, pos, last   \* broadcasts accepted, their order, last one written

hubVars    == <<hubPc, hubClient, hubMsg, targets, failed>>
sharedVars == <<running, ctxDone, closed, mu, clients>>
clientVars == <<life, pump, sock, connNil, cmu>>
chanVars   == <<chan, open>>
sendVars   == <<call, args, found>>
discVars   == <<disc, victim>>
stopVars   == <<spc, closing, probed>>
histVars   == <<count, pos, last>>
vars == <<hubVars, sharedVars, clientVars, chanVars, sendVars, evict,
          discVars, stopVars, histVars>>

Disconnecting == Disconnecter \cup Sender

Init ==
  /\ running = FALSE /\ ctxDone = FALSE /\ closed = {} /\ mu = "free"
  /\ clients = [i \in Id |-> NoClient]
  /\ hubPc = "boot" /\ hubClient = NoClient /\ hubMsg = NoCaller
  /\ targets = {} /\ failed = <<>>
  /\ life = [c \in Client |-> "new"] /\ pump = [c \in Client |-> "off"]
  /\ chan = [c \in Client |-> <<>>] /\ open = [c \in Client |-> TRUE]
  /\ sock = [c \in Client |-> TRUE] /\ connNil = [c \in Client |-> FALSE]
  /\ cmu = [c \in Client |-> FALSE]
  /\ call = [b \in Broadcaster \cup Sender |-> "idle"]
  /\ args \in [Sender -> [from : Id, to : Id]]
  /\ found = [s \in Sender |-> NoClient]
  /\ evict = [b \in Broadcaster |-> <<>>]
  /\ disc = [d \in Disconnecting |-> "idle"]
  /\ victim = [d \in Disconnecting |-> NoClient]
  /\ spc = [s \in Stopper |-> "idle"] /\ closing = {} /\ probed = NoClient
  /\ count = 0 /\ pos = [b \in Broadcaster |-> 0] /\ last = [c \in Client |-> 0]

Registered == {clients[i] : i \in Id} \ {NoClient}

FullLate(c) == Len(chan[c]) > ChanCap    \* mutant: one message too many
Full(c) == Len(chan[c]) >= ChanCap

EnqueueFirst(c, m) == chan' = [chan EXCEPT ![c] = <<m>> \o @]    \* mutant: a stack
Enqueue(c, m) == chan' = [chan EXCEPT ![c] = Append(@, m)]

\* safeCloseClientChannel first receives.  A pending message is taken, and then
\* the channel is taken for closed already, as it is when it is closed; only one
\* found open and empty is closed, and a sender may have filled it by then.
TakenForClosed(c) ==
  /\ chan[c] # <<>> \/ ~open[c]
  /\ chan' = [chan EXCEPT ![c] = IF @ = <<>> THEN @ ELSE Tail(@)]

OpenEmpty(c) == open[c] /\ chan[c] = <<>> /\ UNCHANGED chan

CloseChan(c) == open' = [open EXCEPT ![c] = FALSE] /\ UNCHANGED chan

\* AddClient has returned: the client may be listed and known to the application.
Started(c) == life[c] \notin {"new", "adding", "refused"}
-----------------------------------------------------------------------------
(* The goroutine of Run                                                    *)

RunStart == /\ hubPc = "boot" /\ mu = "free"
            /\ running' = TRUE /\ hubPc' = "select"
            /\ UNCHANGED <<ctxDone, closed, mu, clients, hubClient, hubMsg, targets,
                           failed, clientVars, chanVars, sendVars, evict, discVars,
                           stopVars, histVars>>

\* select picks ctx.Done, or the receive from a closed channel.
RunLeave == /\ hubPc = "select" /\ (ctxDone \/ closed # {})
            /\ hubPc' = "exit"
            /\ UNCHANGED <<hubClient, hubMsg, targets, failed, sharedVars, clientVars,
                           chanVars, sendVars, evict, discVars, stopVars, histVars>>

\* The deferred function of Run.
RunExit == /\ hubPc = "exit" /\ mu = "free"
           /\ running' = FALSE /\ hubPc' = "done"
           /\ UNCHANGED <<ctxDone, closed, mu, clients, hubClient, hubMsg, targets,
                          failed, clientVars, chanVars, sendVars, evict, discVars,
                          stopVars, histVars>>

Receive(ch) == hubPc = "select" /\ ch \notin closed

\* AddClient hands its client over and returns to HandleWebSocket.
RunRegister(c) ==
  /\ Receive("Register") /\ life[c] = "adding"
  /\ life' = [life EXCEPT ![c] = "connecting"]
  /\ hubPc' = "register" /\ hubClient' = c
  /\ UNCHANGED <<hubMsg, targets, failed, sharedVars, pump, sock, connNil, cmu, chanVars,
                 sendVars, evict, discVars, stopVars, histVars>>

\* h.Clients is read without h.mu.  An Add to the collection that a Stop has
\* just replaced has the effect of one a moment earlier: the client is lost.
RunAdd ==
  /\ hubPc = "register"
  /\ \/ ctxDone /\ hubPc' = "exit" /\ UNCHANGED clients
     \/ /\ ~ctxDone /\ hubPc' = "select"
        /\ clients' = [clients EXCEPT ![IdOf[hubClient]] = hubClient]
  /\ hubClient' = NoClient
  /\ UNCHANGED <<hubMsg, targets, failed, running, ctxDone, closed, mu, clientVars,
                 chanVars, sendVars, evict, discVars, stopVars, histVars>>

\* RemoveClient is called by cleanupClient, by the goroutine that evicts the
\* slow clients of a broadcast, and by Disconnect.
RunUnregisterCleanup(c) ==
  /\ Receive("Unregister") /\ life[c] = "removing"
  /\ life' = [life EXCEPT ![c] = "removed"]
  /\ hubPc' = "unregister" /\ hubClient' = c
  /\ UNCHANGED <<hubMsg, targets, failed, sharedVars, pump, sock, connNil, cmu,
                 chanVars, sendVars, evict, discVars, stopVars, histVars>>

RunUnregisterEvict(b) ==
  /\ Receive("Unregister") /\ evict[b] # <<>>
  /\ evict' = [evict EXCEPT ![b] = Tail(@)]
  /\ hubPc' = "unregister" /\ hubClient' = Head(evict[b])
  /\ UNCHANGED <<hubMsg, targets, failed, sharedVars, clientVars, chanVars, sendVars,
                 discVars, stopVars, histVars>>

RunUnregisterDisconnect(d) ==
  /\ Receive("Unregister") /\ disc[d] = "removing"
  /\ disc' = [disc EXCEPT ![d] = "closing"]
  /\ hubPc' = "unregister" /\ hubClient' = victim[d]
  /\ UNCHANGED <<hubMsg, targets, failed, sharedVars, clientVars, chanVars, sendVars,
                 evict, victim, stopVars, histVars>>

KeepListed(c) == UNCHANGED clients    \* mutant: its entry is left
RemoveFromClients(c) == clients' = [clients EXCEPT ![IdOf[c]] = NoClient]

\* The client is looked up and removed by its identifier.
RunRemove ==
  /\ hubPc = "unregister"
  /\ \/ ctxDone /\ hubPc' = "exit" /\ hubClient' = NoClient /\ UNCHANGED clients
     \/ /\ ~ctxDone /\ clients[IdOf[hubClient]] = NoClient
        /\ hubPc' = "select" /\ hubClient' = NoClient /\ UNCHANGED clients
     \/ /\ ~ctxDone /\ clients[IdOf[hubClient]] # NoClient
        /\ RemoveFromClients(hubClient) /\ hubPc' = "close" /\ UNCHANGED hubClient
  /\ UNCHANGED <<hubMsg, targets, failed, running, ctxDone, closed, mu, clientVars,
                 chanVars, sendVars, evict, discVars, stopVars, histVars>>

\* safeCloseClientChannel, under h.mu, which the senders to the client do not hold.
RunProbe ==
  /\ hubPc = "close" /\ mu = "free"
  /\ \/ TakenForClosed(hubClient) /\ hubPc' = "select" /\ hubClient' = NoClient /\ UNCHANGED mu
     \/ OpenEmpty(hubClient) /\ hubPc' = "closing" /\ mu' = "run" /\ UNCHANGED hubClient
  /\ UNCHANGED <<hubMsg, targets, failed, running, ctxDone, closed, clients, clientVars, open,
                 sendVars, evict, discVars, stopVars, histVars>>

RunClose == /\ hubPc = "closing"
            /\ CloseChan(hubClient) /\ mu' = "free"
            /\ hubPc' = "select" /\ hubClient' = NoClient
            /\ UNCHANGED <<hubMsg, targets, failed, running, ctxDone, closed, clients, clientVars,
                           sendVars, evict, discVars, stopVars, histVars>>

RunBroadcast(b) ==
  /\ Receive("Broadcast") /\ call[b] = "sending"
  /\ call' = [call EXCEPT ![b] = "returned"]
  /\ hubPc' = "broadcast" /\ hubMsg' = b
  /\ count' = count + 1 /\ pos' = [pos EXCEPT ![b] = count + 1]
  /\ UNCHANGED <<hubClient, targets, failed, sharedVars, clientVars, chanVars, args,
                 found, evict, discVars, stopVars, last>>

\* GetAll, before h.mu is taken.
RunSnapshot ==
  /\ hubPc = "broadcast"
  /\ \/ ctxDone /\ hubPc' = "exit" /\ UNCHANGED targets
     \/ ~ctxDone /\ hubPc' = "lock" /\ targets' = Registered
  /\ UNCHANGED <<hubClient, hubMsg, failed, sharedVars, clientVars, chanVars, sendVars,
                 evict, discVars, stopVars, histVars>>

\* broadcastToClients drops a message that has no RawData.
RunLock ==
  /\ hubPc = "lock" /\ mu = "free"
  /\ \/ hubMsg \in Raw /\ mu' = "run" /\ hubPc' = "fanout" /\ UNCHANGED targets
     \/ hubMsg \notin Raw /\ UNCHANGED mu /\ hubPc' = "select" /\ targets' = {}
  /\ failed' = <<>>
  /\ UNCHANGED <<hubClient, hubMsg, running, ctxDone, closed, clients, clientVars,
                 chanVars, sendVars, evict, discVars, stopVars, histVars>>

\* The clients are visited in map order: any order.
RunSend(c) ==
  /\ hubPc = "fanout" /\ c \in targets
  /\ targets' = targets \ {c}
  /\ IF open[c] /\ ~Full(c)
       THEN Enqueue(c, hubMsg) /\ UNCHANGED failed
       ELSE failed' = Append(failed, c) /\ UNCHANGED chan
  /\ UNCHANGED <<hubPc, hubClient, hubMsg, sharedVars, clientVars, open, sendVars,
                 evict, discVars, stopVars, histVars>>

EvictFirst == [evict EXCEPT ![hubMsg] = SubSeq(failed, 2, Len(failed))]    \* mutant
EvictFailed == [evict EXCEPT ![hubMsg] = failed]

RunUnlock ==
  /\ hubPc = "fanout" /\ targets = {}
  /\ evict' = EvictFailed
  /\ mu' = "free" /\ hubPc' = "select"
  /\ UNCHANGED <<hubClient, hubMsg, targets, failed, running, ctxDone, closed, clients,
                 clientVars, chanVars, sendVars, discVars, stopVars, histVars>>

RunNext ==
  \/ RunStart \/ RunLeave \/ RunExit \/ RunAdd \/ RunRemove \/ RunProbe \/ RunClose
  \/ RunSnapshot \/ RunLock \/ RunUnlock
  \/ \E c \in Client : RunRegister(c) \/ RunUnregisterCleanup(c) \/ RunSend(c)
  \/ \E b \in Broadcaster : RunBroadcast(b) \/ RunUnregisterEvict(b)
  \/ \E d \in Disconnecting : RunUnregisterDisconnect(d)
-----------------------------------------------------------------------------
(* The clients: handshake, writer and reader goroutines                    *)

\* HandleWebSocket reaches AddClient.
Connect(c) == /\ life[c] = "new"
              /\ life' = [life EXCEPT ![c] = "adding"]
              /\ UNCHANGED <<hubVars, sharedVars, pump, sock, connNil, cmu, chanVars,
                             sendVars, evict, discVars, stopVars, histVars>>

\* The panic of AddClient is recovered in HandleWebSocket, that of
\* RemoveClient in cleanupClient; neither closes the connection.
ClientPanics(c) ==
  /\ \/ /\ life[c] = "adding" /\ "Register" \in closed
        /\ life' = [life EXCEPT ![c] = "refused"]
     \/ /\ life[c] = "removing" /\ "Unregister" \in closed
        /\ life' = [life EXCEPT ![c] = "panicked"]
  /\ UNCHANGED <<hubVars, sharedVars, pump, sock, connNil, cmu, chanVars, sendVars,
                 evict, discVars, stopVars, histVars>>

\* OnConnect returns and the writer and the reader start, or it fails and the
\* client is removed, or it panics: the client stays in the hub without them.
OnConnect(c) ==
  /\ life[c] = "connecting"
  /\ \/ life' = [life EXCEPT ![c] = "serving"] /\ pump' = [pump EXCEPT ![c] = "on"]
     \/ life' = [life EXCEPT ![c] = "removing"] /\ UNCHANGED pump
     \/ life' = [life EXCEPT ![c] = "stranded"] /\ UNCHANGED pump
  /\ UNCHANGED <<hubVars, sharedVars, sock, connNil, cmu, chanVars, sendVars, evict,
                 discVars, stopVars, histVars>>

\* handleClientWrite takes the next message and writes it to the socket.
PumpWrite(c) ==
  /\ pump[c] = "on" /\ sock[c] /\ chan[c] # <<>>
  /\ chan' = [chan EXCEPT ![c] = Tail(@)]
  /\ last' = IF Head(chan[c]) \in Broadcaster
               THEN [last EXCEPT ![c] = pos[Head(chan[c])]] ELSE last
  /\ UNCHANGED <<hubVars, sharedVars, clientVars, open, sendVars, evict, discVars,
                 stopVars, count, pos>>

\* A message or a ping cannot be written: the writer closes the connection.
PumpError(c) ==
  /\ pump[c] = "on"
  /\ \/ UNCHANGED chan
     \/ chan[c] # <<>> /\ chan' = [chan EXCEPT ![c] = Tail(@)]
  /\ pump' = [pump EXCEPT ![c] = "ended"] /\ sock' = [sock EXCEPT ![c] = FALSE]
  /\ UNCHANGED <<hubVars, sharedVars, life, connNil, cmu, open, sendVars, evict,
                 discVars, stopVars, histVars>>

\* MessageChan is closed and drained: close frame, then the connection.
PumpClosed(c) ==
  /\ pump[c] = "on" /\ ~open[c] /\ chan[c] = <<>>
  /\ pump' = [pump EXCEPT ![c] = "ended"] /\ sock' = [sock EXCEPT ![c] = FALSE]
  /\ UNCHANGED <<hubVars, sharedVars, life, connNil, cmu, chanVars, sendVars, evict,
                 discVars, stopVars, histVars>>

\* handleClientRead ends, at the latest when the connection is closed, and
\* its deferred cleanupClient calls RemoveClient.
ReaderEnd(c) == /\ life[c] = "serving"
                /\ life' = [life EXCEPT ![c] = "removing"]
                /\ UNCHANGED <<hubVars, sharedVars, pump, sock, connNil, cmu, chanVars,
                               sendVars, evict, discVars, stopVars, histVars>>

\* The rest of cleanupClient, Conn.Close and OnDisconnect, and of a handshake
\* whose OnConnect failed.
CleanupClient(c) ==
  /\ life[c] = "removed"
  /\ life' = [life EXCEPT ![c] = "gone"] /\ sock' = [sock EXCEPT ![c] = FALSE]
  /\ UNCHANGED <<hubVars, sharedVars, pump, connNil, cmu, chanVars, sendVars, evict,
                 discVars, stopVars, histVars>>

ClientNext == \E c \in Client :
  Connect(c) \/ ClientPanics(c) \/ OnConnect(c) \/ PumpWrite(c) \/ PumpError(c) \/ PumpClosed(c)
    \/ ReaderEnd(c) \/ CleanupClient(c)
-----------------------------------------------------------------------------
(* BroadcastMessage and SendToClient                                       *)

BroadcastMessage(b) ==
  /\ call[b] = "idle" /\ call' = [call EXCEPT ![b] = "sending"]
  /\ UNCHANGED <<hubVars, sharedVars, clientVars, chanVars, args, found, evict, discVars,
                 stopVars, histVars>>

BroadcastPanics(b) ==
  /\ call[b] = "sending" /\ "Broadcast" \in closed
  /\ call' = [call EXCEPT ![b] = "panicked"]
  /\ UNCHANGED <<hubVars, sharedVars, clientVars, chanVars, args, found, evict, discVars,
                 stopVars, histVars>>

\* The panic of RemoveClient ends the goroutine and its remaining removals.
EvictPanics(b) ==
  /\ evict[b] # <<>> /\ "Unregister" \in closed
  /\ evict' = [evict EXCEPT ![b] = <<>>]
  /\ UNCHANGED <<hubVars, sharedVars, clientVars, chanVars, sendVars, discVars,
                 stopVars, histVars>>

SendToClient(s) ==
  /\ call[s] = "idle" /\ call' = [call EXCEPT ![s] = "from"]
  /\ UNCHANGED <<hubVars, sharedVars, clientVars, chanVars, args, found, evict, discVars,
                 stopVars, histVars>>

\* GetClient by identifier.
Lookup(s, i, next) ==
  /\ \/ clients[i] = NoClient /\ call' = [call EXCEPT ![s] = "failed"] /\ UNCHANGED found
     \/ /\ clients[i] # NoClient /\ call' = [call EXCEPT ![s] = next]
        /\ found' = [found EXCEPT ![s] = clients[i]]
  /\ UNCHANGED <<hubVars, sharedVars, clientVars, chanVars, args, evict, discVars,
                 stopVars, histVars>>

\* Conn is checked under the mutex of the client that was found.
CheckConn(s, next) ==
  /\ ~cmu[found[s]]
  /\ call' = [call EXCEPT ![s] = IF connNil[found[s]] THEN "failed" ELSE next]
  /\ UNCHANGED <<hubVars, sharedVars, clientVars, chanVars, args, found, evict, discVars,
                 stopVars, histVars>>

SendFrom(s) == call[s] = "from" /\ Lookup(s, args[s].from, "fromConn")
SendFromConn(s) == call[s] = "fromConn"
                   /\ CheckConn(s, IF args[s].from = args[s].to THEN "deliver" ELSE "to")
SendTo(s) == call[s] = "to" /\ Lookup(s, args[s].to, "toConn")
SendToConn(s) == call[s] = "toConn" /\ CheckConn(s, "deliver")

\* The non-blocking send: it panics on a closed channel, and when the buffer
\* is full a goroutine is spawned to disconnect the client.
SendDeliver(s) ==
  /\ call[s] = "deliver"
  /\ LET c == found[s] IN
     \/ /\ ~open[c] /\ call' = [call EXCEPT ![s] = "panicked"]
        /\ UNCHANGED <<chan, disc, victim>>
     \/ /\ open[c] /\ ~Full(c) /\ call' = [call EXCEPT ![s] = "returned"]
        /\ Enqueue(c, s) /\ UNCHANGED <<disc, victim>>
     \/ /\ open[c] /\ Full(c) /\ call' = [call EXCEPT ![s] = "failed"]
        /\ disc' = [disc EXCEPT ![s] = "locking"] /\ victim' = [victim EXCEPT ![s] = c]
        /\ UNCHANGED chan
  /\ UNCHANGED <<hubVars, sharedVars, clientVars, open, args, found, evict, stopVars, histVars>>

SendStep(s) == SendFrom(s) \/ SendFromConn(s) \/ SendTo(s) \/ SendToConn(s) \/ SendDeliver(s)

CallNext == \/ \E b \in Broadcaster : BroadcastMessage(b) \/ BroadcastPanics(b) \/ EvictPanics(b)
            \/ \E s \in Sender : SendToClient(s) \/ SendStep(s)
-----------------------------------------------------------------------------
(* Client.Disconnect                                                       *)

\* The application has the client from OnConnect on.
Disconnect(d, c) ==
  /\ disc[d] = "idle" /\ Started(c)
  /\ disc' = [disc EXCEPT ![d] = "locking"] /\ victim' = [victim EXCEPT ![d] = c]
  /\ UNCHANGED <<hubVars, sharedVars, clientVars, chanVars, sendVars, evict, stopVars,
                 histVars>>

DisconnectLock(d) ==
  /\ disc[d] = "locking" /\ ~cmu[victim[d]]
  /\ cmu' = [cmu EXCEPT ![victim[d]] = TRUE] /\ disc' = [disc EXCEPT ![d] = "removing"]
  /\ UNCHANGED <<hubVars, sharedVars, life, pump, sock, connNil, chanVars, sendVars,
                 evict, victim, stopVars, histVars>>

ReleaseClientMu(d) == cmu' = [cmu EXCEPT ![victim[d]] = FALSE]

\* The deferred Unlock runs; the connection is left as it is.
DisconnectPanics(d) ==
  /\ disc[d] = "removing" /\ "Unregister" \in closed
  /\ ReleaseClientMu(d) /\ disc' = [disc EXCEPT ![d] = "panicked"]
  /\ UNCHANGED <<hubVars, sharedVars, life, pump, sock, connNil, chanVars, sendVars,
                 evict, victim, stopVars, histVars>>

DisconnectClose(d) ==
  /\ disc[d] = "closing"
  /\ ReleaseClientMu(d) /\ disc' = [disc EXCEPT ![d] = "returned"]
  /\ sock' = [sock EXCEPT ![victim[d]] = FALSE]
  /\ connNil' = [connNil EXCEPT ![victim[d]] = TRUE]
  /\ UNCHANGED <<hubVars, sharedVars, life, pump, chanVars, sendVars, evict, victim,
                 stopVars, histVars>>

DisconnectNext ==
  \/ \E d \in Disconnecter, c \in Client : Disconnect(d, c)
  \/ \E d \in Disconnecting : DisconnectLock(d) \/ DisconnectPanics(d) \/ DisconnectClose(d)
-----------------------------------------------------------------------------
(* Hub.Stop and the context of Run                                         *)

StopBegin(s) ==
  /\ spc[s] = "idle" /\ mu = "free"
  /\ \/ ~running /\ spc' = [spc EXCEPT ![s] = "returned"]
        /\ UNCHANGED <<running, mu, closing>>
     \/ running /\ spc' = [spc EXCEPT ![s] = "locked"]
        /\ running' = FALSE /\ mu' = "stop" /\ closing' = Registered
  /\ UNCHANGED <<hubVars, ctxDone, closed, clients, clientVars, chanVars, sendVars,
                 evict, discVars, probed, histVars>>

\* safeCloseClientChannel again, for one client after the other.
StopProbe(s, c) ==
  /\ spc[s] = "locked" /\ probed = NoClient /\ c \in closing
  /\ closing' = closing \ {c}
  /\ \/ TakenForClosed(c) /\ UNCHANGED probed
     \/ OpenEmpty(c) /\ probed' = c
  /\ UNCHANGED <<hubVars, sharedVars, clientVars, open, sendVars, evict, discVars, spc,
                 histVars>>

StopCloseClient(s) ==
  /\ spc[s] = "locked" /\ probed # NoClient
  /\ CloseChan(probed) /\ probed' = NoClient
  /\ UNCHANGED <<hubVars, sharedVars, clientVars, sendVars, evict, discVars, spc, closing,
                 histVars>>

KeepClients == UNCHANGED clients    \* mutant: the old collection is kept
ResetClients == clients' = [i \in Id |-> NoClient]

StopReset(s) ==
  /\ spc[s] = "locked" /\ closing = {} /\ probed = NoClient
  /\ ResetClients /\ mu' = "free"
  /\ spc' = [spc EXCEPT ![s] = "Register"]
  /\ UNCHANGED <<hubVars, running, ctxDone, closed, clientVars, chanVars, sendVars,
                 evict, discVars, closing, probed, histVars>>

SkipUnregister(s) == IF spc[s] = "Register" THEN "Broadcast" ELSE "stopped"    \* mutant
NextClosed(s) == CASE spc[s] = "Register"   -> "Unregister"
                   [] spc[s] = "Unregister" -> "Broadcast"
                   [] spc[s] = "Broadcast"  -> "stopped"

\* safeCloseChannel on Register, Unregister and Broadcast in turn.
StopCloseChannel(s) ==
  /\ spc[s] \in HubChannel
  /\ closed' = closed \cup {spc[s]}
  /\ spc' = [spc EXCEPT ![s] = NextClosed(s)]
  /\ UNCHANGED <<hubVars, running, ctxDone, mu, clients, clientVars, chanVars, sendVars,
                 evict, discVars, closing, probed, histVars>>

Cancel == /\ MayCancel /\ ~ctxDone /\ ctxDone' = TRUE
          /\ UNCHANGED <<hubVars, running, closed, mu, clients, clientVars, chanVars,
                         sendVars, evict, discVars, stopVars, histVars>>

StopNext == \/ Cancel
            \/ \E s \in Stopper : StopBegin(s) \/ StopCloseClient(s) \/ StopReset(s) \/ StopCloseChannel(s)
            \/ \E s \in Stopper, c \in Client : StopProbe(s, c)
-----------------------------------------------------------------------------
Next == RunNext \/ ClientNext \/ CallNext \/ DisconnectNext \/ StopNext

Spec == Init /\ [][Next]_vars

\* Every goroutine that can run is scheduled, a select or a mutex serves its
\* waiters in the end, and a connection that is closed ends its reader.
\* Nobody has to connect, call, stop or cancel, and peers need not leave.
Fairness ==
  /\ WF_vars(RunNext)
  /\ \A c \in Client :
       /\ WF_vars(ClientPanics(c)) /\ WF_vars(CleanupClient(c))
       /\ WF_vars(PumpWrite(c) \/ PumpClosed(c) \/ (chan[c] # <<>> /\ PumpError(c)))
       /\ WF_vars(~sock[c] /\ ReaderEnd(c))
  /\ \A b \in Broadcaster : WF_vars(BroadcastPanics(b)) /\ WF_vars(EvictPanics(b))
  /\ \A s \in Sender : WF_vars(SendStep(s))
  /\ \A d \in Disconnecting :
       SF_vars(DisconnectLock(d)) /\ WF_vars(DisconnectPanics(d) \/ DisconnectClose(d))
  /\ \A s \in Stopper :
       WF_vars(StopCloseClient(s) \/ StopReset(s) \/ StopCloseChannel(s) \/ \E c \in Client : StopProbe(s, c))

FairSpec == Spec /\ Fairness
-----------------------------------------------------------------------------
(* Properties                                                              *)

ClientOrNone == Client \cup {NoClient}

\* Every variable stays within the values its part of the code gives it; in
\* particular no MessageChan holds more than MessageChanBufSize messages.
TypeOK ==
  /\ running \in BOOLEAN /\ ctxDone \in BOOLEAN /\ closed \in SUBSET HubChannel
  /\ mu \in {"free", "run", "stop"} /\ clients \in [Id -> ClientOrNone]
  /\ hubPc \in {"boot", "select", "register", "unregister", "close", "closing", "broadcast",
                "lock", "fanout", "exit", "done"}
  /\ hubClient \in ClientOrNone /\ hubMsg \in Broadcaster \cup {NoCaller}
  /\ targets \in SUBSET Client /\ failed \in Seq(Client)
  /\ life \in [Client -> {"new", "adding", "refused", "connecting", "serving", "stranded",
                          "removing", "removed", "gone", "panicked"}]
  /\ pump \in [Client -> {"off", "on", "ended"}]
  /\ chan \in [Client -> Seq(Broadcaster \cup Sender)]
  /\ \A c \in Client : Len(chan[c]) <= ChanCap
  /\ open \in [Client -> BOOLEAN] /\ sock \in [Client -> BOOLEAN]
  /\ connNil \in [Client -> BOOLEAN] /\ cmu \in [Client -> BOOLEAN]
  /\ call \in [Broadcaster \cup Sender ->
                {"idle", "sending", "from", "fromConn", "to", "toConn", "deliver", "returned", "failed", "panicked"}]
  /\ args \in [Sender -> [from : Id, to : Id]] /\ found \in [Sender -> ClientOrNone]
  /\ evict \in [Broadcaster -> Seq(Client)]
  /\ disc \in [Disconnecting -> {"idle", "locking", "removing", "closing", "returned",
                                 "panicked"}]
  /\ victim \in [Disconnecting -> ClientOrNone]
  /\ spc \in [Stopper -> {"idle", "locked", "stopped", "returned"} \cup HubChannel]
  /\ closing \in SUBSET Client /\ probed \in ClientOrNone
  /\ count \in Nat /\ pos \in [Broadcaster -> Nat] /\ last \in [Client -> Nat]

\* A client the hub still lists can be sent to: its MessageChan is closed only
\* after it has left h.Clients, except inside the critical section of Stop.
RegisteredOpen == \A c \in Registered : open[c] \/ mu = "stop"

\* Why RegisteredOpen holds: only a client whose AddClient has returned is
\* ever referred to by a request to remove it, it is registered once, and it
\* is taken out of h.Clients before its channel is closed.
References ==
  /\ \A i \in Id : clients[i] # NoClient => IdOf[clients[i]] = i /\ Started(clients[i])
  /\ hubPc \in {"register", "unregister", "close", "closing"} => Started(hubClient)
  /\ \A c \in targets \cup closing : Started(c)
  /\ probed # NoClient => Started(probed)
  /\ \A i \in DOMAIN failed : Started(failed[i])
  /\ \A b \in Broadcaster : \A i \in DOMAIN evict[b] : Started(evict[b][i])
  /\ \A d \in Disconnecting : disc[d] # "idle" => Started(victim[d])
  /\ \A s \in Sender : call[s] \in {"fromConn", "toConn", "deliver"} => Started(found[s])

Locking ==
  /\ \A s \in Stopper : spc[s] = "locked" => mu = "stop"
  /\ \A s, t \in Stopper : spc[s] = "locked" /\ spc[t] = "locked" => s = t
  /\ hubPc \in {"fanout", "closing"} => mu = "run"

OpenInv ==
  /\ hubPc = "register" => open[hubClient] /\ hubClient \notin Registered \cup closing \cup {probed}
  /\ hubPc \in {"close", "closing"} => hubClient \notin Registered
  /\ \A c \in Client : ~Started(c) => open[c]
  /\ RegisteredOpen

\* Why OrderedBroadcasts holds: every buffer is sorted by position and lies
\* after what was written, and the broadcast in progress comes last of all.
Reaching(c) == hubPc \in {"broadcast", "lock"} \/ (hubPc = "fanout" /\ c \in targets)

Sorted(q) == \A i, j \in DOMAIN q :
  i < j /\ q[i] \in Broadcaster /\ q[j] \in Broadcaster => pos[q[i]] < pos[q[j]]
Above(q, low) == \A i \in DOMAIN q : q[i] \in Broadcaster => low < pos[q[i]]
Below(q, high) == \A i \in DOMAIN q : q[i] \in Broadcaster => pos[q[i]] < high

OrderInv ==
  /\ \A b \in Broadcaster : pos[b] <= count /\ (call[b] \in {"idle", "sending"} => pos[b] = 0)
  /\ \A c \in Client : last[c] <= count /\ Sorted(chan[c]) /\ Above(chan[c], last[c])
  /\ hubPc \in {"broadcast", "lock", "fanout"} => pos[hubMsg] = count
  /\ \A c \in Client : Reaching(c) => last[c] < count /\ Below(chan[c], count)

\* Broadcasts reach the sockets in one order, the hub's, and at most once.
Delivery == INSTANCE OrderedDelivery WITH Message <- Broadcaster
OrderedBroadcasts == Delivery!Spec

\* A Disconnect that has returned has done what it was called for: SendToClient
\* finds no connection, which is closed, and the hub has removed the client or
\* does so with its next step, unless its context was cancelled meanwhile.
DisconnectEffective ==
  \A d \in Disconnecting : disc[d] = "returned" =>
    /\ connNil[victim[d]] /\ ~sock[victim[d]]
    /\ \/ victim[d] \notin Registered
       \/ hubPc = "unregister" /\ hubClient = victim[d]
       \/ ctxDone

\* A client that missed a broadcast leaves the hub, unless the hub is stopped.
SlowClientEvicted ==
  \A c \in Client :
    (hubPc = "fanout" /\ \E i \in DOMAIN failed : failed[i] = c)
      ~> (c \notin Registered \/ "Unregister" \in closed)

\* Every call that was made comes to an end, be it by a panic: the hub and
\* the mutexes of the clients leave no caller blocked, not even when Stop
\* closes the channels of the hub under them.
EveryCallReturns ==
  <>[](/\ \A c \in Client : life[c] \notin {"adding", "removing"}
       /\ \A b \in Broadcaster : call[b] # "sending" /\ evict[b] = <<>>
       /\ \A s \in Sender : call[s] \in {"idle", "returned", "failed", "panicked"}
       /\ \A d \in Disconnecting : disc[d] \in {"idle", "returned", "panicked"}
       /\ \A s \in Stopper : spc[s] \in {"idle", "stopped", "returned"})
-----------------------------------------------------------------------------
(* What the documentation says and the code does not do                    *)

\* Client.Disconnect (client.go:185-187) removes the client and closes its
\* connection: it does so in the end.
DisconnectReturns == \A d \in Disconnecter : disc[d] = "locking" ~> disc[d] = "returned"
=============================================================================
