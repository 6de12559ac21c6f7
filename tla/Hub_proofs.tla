----------------------------- MODULE Hub_proofs -----------------------------
(***************************************************************************)
(* Theorems about Hub, for any set of clients, identifiers and goroutines  *)
(* and any buffer size.                                                    *)
(***************************************************************************)
EXTENDS Hub, TLAPS, SequenceTheorems

\* What TypeOK needs to be inductive: a goroutine past the step that chooses
\* a client or a message has one.
Finding == {"fromConn", "toConn", "deliver"}

PcOK ==
  /\ hubPc \in {"register", "unregister", "close", "closing"} => hubClient \in Client
  /\ hubPc \in {"broadcast", "lock", "fanout"} => hubMsg \in Broadcaster
  /\ \A s \in Sender : call[s] \in Finding => found[s] \in Client
  /\ \A d \in Disconnecting : disc[d] # "idle" => victim[d] \in Client

TypeInv == TypeOK /\ PcOK

USE ConstantsAssumption
    DEF Finding, Disconnecting, ClientOrNone, HubChannel, hubVars, sharedVars, clientVars,
        chanVars, sendVars, discVars, stopVars, histVars

LEMMA TypeInit == ASSUME Init PROVE TypeInv
<1>1. <<>> \in Seq(Client) /\ <<>> \in Seq(Broadcaster \cup Sender) /\ Len(<<>>) = 0
  OBVIOUS
<1>2. /\ chan \in [Client -> Seq(Broadcaster \cup Sender)] /\ evict \in [Broadcaster -> Seq(Client)]
      /\ \A c \in Client : Len(chan[c]) <= ChanCap
      /\ failed \in Seq(Client)
  BY <1>1 DEF Init
<1>4. TypeOK
  BY <1>2 DEF Init, TypeOK
<1> QED
  BY <1>4 DEF Init, TypeInv, PcOK

\* What the channel operations do to the buffers.
ChanTypes == /\ chan \in [Client -> Seq(Broadcaster \cup Sender)]
             /\ open \in [Client -> BOOLEAN]
             /\ \A c \in Client : Len(chan[c]) <= ChanCap

LEMMA TailTypes ==
  ASSUME ChanTypes, NEW c \in Client, chan[c] # <<>>,
         chan' = [chan EXCEPT ![c] = Tail(@)], open' = open
  PROVE  ChanTypes'
<1> DEFINE S == Broadcaster \cup Sender
<1>1. chan[c] \in Seq(S)
  BY DEF ChanTypes
<1>2. Tail(chan[c]) \in Seq(S) /\ Len(Tail(chan[c])) = Len(chan[c]) - 1
  BY <1>1
<1>3. Len(chan[c]) \in Nat /\ Len(chan[c]) <= ChanCap
  BY <1>1 DEF ChanTypes
<1> HIDE DEF S
<1>4. chan' \in [Client -> Seq(S)]
  BY <1>2 DEF ChanTypes, S
<1>5. \A k \in Client : Len(chan'[k]) <= ChanCap
  BY <1>2, <1>3 DEF ChanTypes
<1> QED
  BY <1>4, <1>5 DEF ChanTypes, S

\* Whatever safeCloseClientChannel finds, at most one message is taken.
LEMMA TakenOne ==
  ASSUME ChanTypes, NEW c \in Client, TakenForClosed(c)
  PROVE  \/ chan' = chan
         \/ chan[c] # <<>> /\ chan' = [chan EXCEPT ![c] = Tail(@)]
BY DEF TakenForClosed, ChanTypes

LEMMA TakenTypes ==
  ASSUME ChanTypes, NEW c \in Client, TakenForClosed(c), open' = open
  PROVE  ChanTypes'
<1>1. CASE chan' = chan
  BY <1>1 DEF ChanTypes
<1>2. CASE chan[c] # <<>> /\ chan' = [chan EXCEPT ![c] = Tail(@)]
  BY <1>2, TailTypes
<1> QED
  BY <1>1, <1>2, TakenOne

LEMMA EnqueueTypes ==
  ASSUME ChanTypes, NEW c \in Client, NEW m \in Broadcaster \cup Sender,
         ~Full(c), Enqueue(c, m), open' = open
  PROVE  ChanTypes'
<1> DEFINE S == Broadcaster \cup Sender
<1>1. chan[c] \in Seq(S) /\ Len(chan[c]) < ChanCap /\ Len(chan[c]) \in Nat
  BY DEF ChanTypes, Full
<1>2. Append(chan[c], m) \in Seq(S) /\ Len(Append(chan[c], m)) = Len(chan[c]) + 1
  BY <1>1
<1> HIDE DEF S
<1>3. chan' = [chan EXCEPT ![c] = Append(chan[c], m)]
  BY DEF Enqueue
<1>4. chan' \in [Client -> Seq(S)]
  BY <1>2, <1>3 DEF ChanTypes, S
<1>5. \A k \in Client : Len(chan'[k]) <= ChanCap
  BY <1>1, <1>2, <1>3 DEF ChanTypes
<1> QED
  BY <1>4, <1>5 DEF ChanTypes, S

LEMMA RunTypes == ASSUME TypeInv, RunNext PROVE TypeInv'
<1> USE DEF TypeInv, TypeOK, PcOK
<1>1. CASE RunStart
  BY <1>1 DEF RunStart
<1>2. CASE RunLeave
  BY <1>2 DEF RunLeave
<1>3. CASE RunExit
  BY <1>3 DEF RunExit
<1>4. CASE RunAdd
  <2>1. clients' \in [Id -> ClientOrNone]
    BY <1>4 DEF RunAdd
  <2> QED
    BY <1>4, <2>1 DEF RunAdd
<1>5. CASE RunRemove
  BY <1>5 DEF RunRemove, RemoveFromClients
<1>6. CASE RunClose
  BY <1>6 DEF RunClose, CloseChan
<1>16. CASE RunProbe
  <2>1. ChanTypes'
    BY <1>16, TakenTypes DEF RunProbe, OpenEmpty, ChanTypes
  <2> QED
    BY SMTT(30), <1>16, <2>1 DEF RunProbe, ChanTypes
<1>7. CASE RunSnapshot
  BY <1>7 DEF RunSnapshot, Registered
<1>8. CASE RunLock
  BY <1>8 DEF RunLock
<1>9. CASE RunUnlock
  BY <1>9 DEF RunUnlock, EvictFailed
<1>10. ASSUME NEW c \in Client, RunSend(c) PROVE TypeInv'
  <2>1. CASE open[c] /\ ~Full(c)
    <3>1. ChanTypes'
      <4>1. hubMsg \in Broadcaster \cup Sender /\ Enqueue(c, hubMsg) /\ open' = open
        BY <1>10, <2>1 DEF RunSend
      <4>2. ChanTypes
        BY DEF ChanTypes
      <4> QED
        BY <2>1, <4>1, <4>2, EnqueueTypes
    <3> QED
      BY <1>10, <2>1, <3>1 DEF ChanTypes, RunSend
  <2>2. CASE ~(open[c] /\ ~Full(c))
    <3>1. failed' \in Seq(Client)
      <4>1. failed' = Append(failed, c)
        BY <1>10, <2>2 DEF RunSend
      <4> QED
        BY <4>1
    <3> QED
      BY <1>10, <2>2, <3>1 DEF RunSend
  <2> QED
    BY <2>1, <2>2
<1>11. ASSUME NEW c \in Client, RunRegister(c) PROVE TypeInv'
  BY <1>11 DEF RunRegister, Receive
<1>12. ASSUME NEW c \in Client, RunUnregisterCleanup(c) PROVE TypeInv'
  BY <1>12 DEF RunUnregisterCleanup, Receive
<1>13. ASSUME NEW b \in Broadcaster, RunBroadcast(b) PROVE TypeInv'
  BY <1>13 DEF RunBroadcast, Receive
<1>14. ASSUME NEW b \in Broadcaster, RunUnregisterEvict(b) PROVE TypeInv'
  <2>1. Head(evict[b]) \in Client /\ Tail(evict[b]) \in Seq(Client)
    BY <1>14 DEF RunUnregisterEvict
  <2>2. evict' = [evict EXCEPT ![b] = Tail(evict[b])] /\ hubClient' = Head(evict[b])
    BY <1>14 DEF RunUnregisterEvict
  <2>3. evict' \in [Broadcaster -> Seq(Client)]
    BY <2>1, <2>2
  <2> QED
    BY <1>14, <2>1, <2>2, <2>3 DEF RunUnregisterEvict, Receive
<1>15. ASSUME NEW d \in Disconnecting, RunUnregisterDisconnect(d) PROVE TypeInv'
  BY <1>15 DEF RunUnregisterDisconnect, Receive
<1> QED
  BY <1>1, <1>2, <1>3, <1>4, <1>5, <1>6, <1>7, <1>8, <1>9, <1>10, <1>11, <1>12, <1>13,
     <1>14, <1>15, <1>16 DEF RunNext

Lives == {"new", "adding", "refused", "connecting", "serving", "stranded", "removing", "removed", "gone",
          "panicked"}

LEMMA ClientTypes == ASSUME TypeInv, ClientNext PROVE TypeInv'
<1> USE DEF TypeInv, TypeOK, PcOK
<1>1. ASSUME NEW c \in Client, Connect(c) PROVE TypeInv'
  BY <1>1 DEF Connect
<1>9. ASSUME NEW c \in Client, OnConnect(c) PROVE TypeInv'
  <2>1. /\ life' \in [Client -> Lives] /\ pump' \in [Client -> {"off", "on", "ended"}]
    BY <1>9 DEF OnConnect, Lives
  <2> QED
    BY SMTT(30), <1>9, <2>1 DEF OnConnect, Lives
<1>2. ASSUME NEW c \in Client, ClientPanics(c) PROVE TypeInv'
  <2>1. life' \in [Client -> Lives]
    <3>1. PICK r \in {"refused", "panicked"} : life' = [life EXCEPT ![c] = r]
      BY <1>2 DEF ClientPanics
    <3>2. life \in [Client -> Lives]
      BY DEF Lives
    <3> HIDE DEF TypeInv, TypeOK, PcOK
    <3> QED
      BY <3>1, <3>2 DEF Lives
  <2> QED
    BY SMTT(30), <1>2, <2>1 DEF ClientPanics, Lives
<1>3. ASSUME NEW c \in Client, chan[c] # <<>>, chan' = [chan EXCEPT ![c] = Tail(@)], open' = open
      PROVE ChanTypes'
  BY <1>3, TailTypes DEF ChanTypes
<1>4. ASSUME NEW c \in Client, PumpWrite(c) PROVE TypeInv'
  <2>1. ChanTypes'
    BY <1>3, <1>4 DEF PumpWrite
  <2>2. last' \in [Client -> Nat]
    BY <1>4 DEF PumpWrite
  <2> QED
    BY SMTT(30), <1>4, <2>1, <2>2 DEF PumpWrite, ChanTypes
<1>5. ASSUME NEW c \in Client, PumpError(c) PROVE TypeInv'
  <2>1. ChanTypes'
    BY <1>3, <1>5 DEF PumpError, ChanTypes
  <2> QED
    BY ZenonT(40), <1>5, <2>1 DEF PumpError, ChanTypes
<1>6. ASSUME NEW c \in Client, PumpClosed(c) PROVE TypeInv'
  BY <1>6 DEF PumpClosed
<1>7. ASSUME NEW c \in Client, ReaderEnd(c) PROVE TypeInv'
  BY <1>7 DEF ReaderEnd
<1>8. ASSUME NEW c \in Client, CleanupClient(c) PROVE TypeInv'
  BY <1>8 DEF CleanupClient
<1> QED
  BY <1>1, <1>2, <1>4, <1>5, <1>6, <1>7, <1>8, <1>9 DEF ClientNext

Calls == {"idle", "sending", "from", "fromConn", "to", "toConn", "deliver", "returned", "failed", "panicked"}

LEMMA CallTypes == ASSUME TypeInv, CallNext PROVE TypeInv'
<1> USE DEF TypeInv, TypeOK, PcOK
<1>1. ASSUME NEW b \in Broadcaster, BroadcastMessage(b) PROVE TypeInv'
  BY <1>1 DEF BroadcastMessage
<1>2. ASSUME NEW b \in Broadcaster, BroadcastPanics(b) PROVE TypeInv'
  BY SMTT(30), <1>2 DEF BroadcastPanics
<1>3. ASSUME NEW b \in Broadcaster, EvictPanics(b) PROVE TypeInv'
  <2>1. evict' \in [Broadcaster -> Seq(Client)]
    BY <1>3 DEF EvictPanics
  <2> QED
    BY SMTT(30), <1>3, <2>1 DEF EvictPanics
<1>4. ASSUME NEW s \in Sender, SendToClient(s) PROVE TypeInv'
  BY <1>4 DEF SendToClient
<1>5. ASSUME NEW s \in Sender, NEW i \in Id, NEW next \in {"fromConn", "toConn"}, Lookup(s, i, next)
      PROVE TypeInv'
  <2>1. found' \in [Sender -> ClientOrNone]
    <3>1. found' = found \/ found' = [found EXCEPT ![s] = clients[i]]
      BY <1>5 DEF Lookup
    <3>2. found \in [Sender -> ClientOrNone] /\ clients[i] \in ClientOrNone
      OBVIOUS
    <3> HIDE DEF TypeInv, TypeOK, PcOK
    <3> QED
      BY <3>1, <3>2
  <2>2. call' \in [Broadcaster \cup Sender -> Calls]
    BY ZenonT(40), <1>5 DEF Lookup, Calls
  <2>3. \A t \in Sender : call'[t] \in Finding => found'[t] \in Client
    <3>1. ASSUME NEW t \in Sender, call'[t] \in Finding PROVE found'[t] \in Client
      <4>1. CASE t = s
        BY <1>5, <3>1, <4>1 DEF Lookup
      <4>2. CASE t # s
        BY <1>5, <3>1, <4>2 DEF Lookup
      <4> QED
        BY <4>1, <4>2
    <3> QED
      BY <3>1
  <2> QED
    BY SMTT(30), <1>5, <2>1, <2>2, <2>3 DEF Lookup, Calls
<1>6. ASSUME NEW s \in Sender, SendFrom(s) \/ SendTo(s) PROVE TypeInv'
  BY <1>5, <1>6 DEF SendFrom, SendTo
<1>7. ASSUME NEW s \in Sender, SendFromConn(s) \/ SendToConn(s) PROVE TypeInv'
  <2>1. PICK r \in {"failed", "to", "deliver"} : call' = [call EXCEPT ![s] = r]
    BY <1>7 DEF SendFromConn, SendToConn, CheckConn
  <2>2. call[s] \in Finding /\ found' = found
    BY <1>7 DEF SendFromConn, SendToConn, CheckConn
  <2>3. call' \in [Broadcaster \cup Sender -> Calls]
    BY <2>1 DEF Calls
  <2>4. \A t \in Sender : call'[t] \in Finding => found'[t] \in Client
    BY <2>1, <2>2
  <2>5. UNCHANGED <<hubVars, sharedVars, clientVars, chanVars, args, found, evict, discVars,
                    stopVars, histVars>>
    BY <1>7 DEF SendFromConn, SendToConn, CheckConn
  <2> QED
    BY SMTT(30), <2>3, <2>4, <2>5 DEF Calls
<1>8. ASSUME NEW s \in Sender, SendDeliver(s) PROVE TypeInv'
  <2>1. found[s] \in Client
    BY <1>8 DEF SendDeliver
  <2>2. ChanTypes'
    BY <1>8, <2>1, EnqueueTypes DEF SendDeliver, ChanTypes
  <2>3. /\ call' \in [Broadcaster \cup Sender -> Calls]
        /\ \A t \in Sender : call'[t] \in Finding => call'[t] = call[t]
    <3>1. PICK r \in {"returned", "failed", "panicked"} : call' = [call EXCEPT ![s] = r]
      BY <1>8 DEF SendDeliver
    <3>2. call \in [Broadcaster \cup Sender -> Calls]
      BY DEF Calls
    <3> HIDE DEF TypeInv, TypeOK, PcOK
    <3> QED
      BY <3>1, <3>2 DEF Calls
  <2>4. /\ disc' \in [Disconnecting -> {"idle", "locking", "removing", "closing",
                                        "returned", "panicked"}]
        /\ victim' \in [Disconnecting -> ClientOrNone]
        /\ \A d \in Disconnecting : disc'[d] # "idle" => victim'[d] \in Client
    <3>1. \/ disc' = disc /\ victim' = victim
          \/ /\ disc' = [disc EXCEPT ![s] = "locking"]
             /\ victim' = [victim EXCEPT ![s] = found[s]]
      BY <1>8 DEF SendDeliver
    <3> QED
      BY ZenonT(40), <2>1, <3>1
  <2> QED
    BY SMTT(30), <1>8, <2>2, <2>3, <2>4 DEF SendDeliver, ChanTypes, Calls
<1> QED
  BY <1>1, <1>2, <1>3, <1>4, <1>6, <1>7, <1>8 DEF CallNext, SendStep

LEMMA DisconnectTypes == ASSUME TypeInv, DisconnectNext PROVE TypeInv'
<1> USE DEF TypeInv, TypeOK, PcOK
<1>1. ASSUME NEW d \in Disconnecter, NEW c \in Client, Disconnect(d, c) PROVE TypeInv'
  BY <1>1 DEF Disconnect
<1>2. ASSUME NEW d \in Disconnecting, DisconnectLock(d) PROVE TypeInv'
  BY <1>2 DEF DisconnectLock
<1>3. ASSUME NEW d \in Disconnecting, DisconnectPanics(d) PROVE TypeInv'
  BY <1>3 DEF DisconnectPanics, ReleaseClientMu
<1>4. ASSUME NEW d \in Disconnecting, DisconnectClose(d) PROVE TypeInv'
  <2>1. /\ cmu' \in [Client -> BOOLEAN] /\ sock' \in [Client -> BOOLEAN]
        /\ connNil' \in [Client -> BOOLEAN]
    BY <1>4 DEF DisconnectClose, ReleaseClientMu
  <2>2. /\ disc' \in [Disconnecting -> {"idle", "locking", "removing", "closing",
                                        "returned", "panicked"}]
        /\ \A e \in Disconnecting : disc'[e] # "idle" => disc[e] # "idle"
    BY <1>4 DEF DisconnectClose
  <2> QED
    BY SMTT(30), <1>4, <2>1, <2>2 DEF DisconnectClose
<1> QED
  BY <1>1, <1>2, <1>3, <1>4 DEF DisconnectNext

LEMMA StopTypes == ASSUME TypeInv, StopNext PROVE TypeInv'
<1> USE DEF TypeInv, TypeOK, PcOK
<1>1. CASE Cancel
  BY <1>1 DEF Cancel
<1>2. ASSUME NEW s \in Stopper, StopBegin(s) PROVE TypeInv'
  <2>1. Registered \subseteq Client
    BY DEF Registered
  <2> QED
    BY ZenonT(40), <1>2, <2>1 DEF StopBegin
<1>3. ASSUME NEW s \in Stopper, StopCloseClient(s) PROVE TypeInv'
  BY <1>3 DEF StopCloseClient, CloseChan
<1>6. ASSUME NEW s \in Stopper, NEW c \in Client, StopProbe(s, c) PROVE TypeInv'
  <2>1. ChanTypes'
    BY <1>6, TakenTypes DEF StopProbe, OpenEmpty, ChanTypes
  <2> QED
    BY SMTT(30), <1>6, <2>1 DEF StopProbe, ChanTypes
<1>4. ASSUME NEW s \in Stopper, StopReset(s) PROVE TypeInv'
  BY <1>4 DEF StopReset, ResetClients
<1>5. ASSUME NEW s \in Stopper, StopCloseChannel(s) PROVE TypeInv'
  BY <1>5 DEF StopCloseChannel, NextClosed
<1> QED
  BY <1>1, <1>2, <1>3, <1>4, <1>5, <1>6 DEF StopNext

LEMMA TypeStep == ASSUME TypeInv, [Next]_vars PROVE TypeInv'
<1>1. CASE UNCHANGED vars
  BY <1>1 DEF vars, TypeInv, TypeOK, PcOK
<1> QED
  BY <1>1, RunTypes, ClientTypes, CallTypes, DisconnectTypes, StopTypes DEF Next

\* The elements of a sequence after Head, Tail and Append.
LEMMA TailElements ==
  ASSUME NEW T, NEW q \in Seq(T), q # <<>>
  PROVE  /\ Head(q) = q[1] /\ 1 \in DOMAIN q /\ Tail(q) \in Seq(T)
         /\ \A i \in DOMAIN Tail(q) : i + 1 \in DOMAIN q /\ Tail(q)[i] = q[i + 1]
<1>1. Len(q) \in Nat /\ Len(q) # 0 /\ DOMAIN q = 1 .. Len(q)
  OBVIOUS
<1>2. Tail(q) \in Seq(T) /\ Len(Tail(q)) = Len(q) - 1
  BY <1>1
<1>3. \A i \in 1 .. Len(q) - 1 : Tail(q)[i] = q[i + 1]
  BY <1>1
<1> QED
  BY <1>1, <1>2, <1>3

LEMMA AppendElements ==
  ASSUME NEW T, NEW q \in Seq(T), NEW x \in T
  PROVE  /\ Append(q, x) \in Seq(T)
         /\ \A i \in DOMAIN Append(q, x) :
              (i \in DOMAIN q /\ Append(q, x)[i] = q[i]) \/ (i = Len(q) + 1 /\ Append(q, x)[i] = x)
<1>1. Append(q, x) \in Seq(T) /\ DOMAIN Append(q, x) = 1 .. Len(q) + 1 /\ DOMAIN q = 1 .. Len(q)
  OBVIOUS
<1>2. Len(q) \in Nat /\ Append(q, x)[Len(q) + 1] = x /\ \A i \in 1 .. Len(q) : Append(q, x)[i] = q[i]
  OBVIOUS
<1> QED
  BY <1>1, <1>2

-----------------------------------------------------------------------------
(* Who may be referred to                                                  *)

LEMMA RegisteredReferences ==
  ASSUME TypeInv, References
  PROVE  Registered \subseteq Client /\ \A c \in Registered : Started(c)
  BY DEF TypeInv, TypeOK, References, Registered

Begun(l) == l \notin {"new", "adding", "refused"}

LEMMA RunReferences == ASSUME TypeInv, References, RunNext PROVE References'
<1> USE DEF TypeInv, TypeOK, PcOK, References, Started, Begun
<1>1. CASE RunStart
  BY <1>1 DEF RunStart
<1>2. CASE RunLeave
  BY <1>2 DEF RunLeave
<1>3. CASE RunExit
  BY <1>3 DEF RunExit
<1>4. CASE RunAdd
  <2>1. hubPc = "register" /\ hubClient \in Client /\ Started(hubClient) /\ hubClient # NoClient
    BY <1>4 DEF RunAdd
  <2>2. clients' = clients \/ clients' = [clients EXCEPT ![IdOf[hubClient]] = hubClient]
    BY <1>4 DEF RunAdd
  <2>3. \A i \in Id : clients'[i] # NoClient =>
          IdOf[clients'[i]] = i /\ Begun(life[clients'[i]])
    BY <2>1, <2>2
  <2> QED
    BY <1>4, <2>3 DEF RunAdd
<1>5. CASE RunRemove
  <2>1. hubPc = "unregister" /\ hubClient \in Client /\ Started(hubClient)
    BY <1>5 DEF RunRemove
  <2>2. clients' = clients \/ clients' = [clients EXCEPT ![IdOf[hubClient]] = NoClient]
    BY <1>5 DEF RunRemove, RemoveFromClients
  <2>3. \A i \in Id : clients'[i] # NoClient => clients'[i] = clients[i]
    BY <2>1, <2>2
  <2> QED
    BY <1>5, <2>1, <2>3 DEF RunRemove
<1>6. CASE RunClose
  BY <1>6 DEF RunClose, CloseChan
<1>16. CASE RunProbe
  BY <1>16 DEF RunProbe
<1>7. CASE RunSnapshot
  BY <1>7, RegisteredReferences DEF RunSnapshot
<1>8. CASE RunLock
  BY <1>8 DEF RunLock
<1>9. CASE RunUnlock
  BY <1>9 DEF RunUnlock, EvictFailed
<1>10. ASSUME NEW c \in Client, RunSend(c) PROVE References'
  <2>1. failed' = failed \/ failed' = Append(failed, c)
    BY <1>10 DEF RunSend
  <2>2. \A i \in DOMAIN failed' : Begun(life[failed'[i]])
    <3>1. life' = life /\ Begun(life[c]) /\ failed \in Seq(Client)
      BY <1>10 DEF RunSend
    <3>2. CASE failed' = failed
      BY <3>1, <3>2
    <3>3. CASE failed' = Append(failed, c)
      <4>1. \A i \in DOMAIN failed' : (i \in DOMAIN failed /\ failed'[i] = failed[i]) \/ failed'[i] = c
        BY <3>1, <3>3, AppendElements
      <4> QED
        BY <3>1, <4>1
    <3> QED
      BY <2>1, <3>2, <3>3
  <2> QED
    BY <1>10, <2>2 DEF RunSend
<1>11. ASSUME NEW c \in Client, RunRegister(c) PROVE References'
  BY <1>11 DEF RunRegister, Receive
<1>12. ASSUME NEW c \in Client, RunUnregisterCleanup(c) PROVE References'
  BY <1>12 DEF RunUnregisterCleanup, Receive
<1>13. ASSUME NEW b \in Broadcaster, RunBroadcast(b) PROVE References'
  BY <1>13 DEF RunBroadcast, Receive
<1>14. ASSUME NEW b \in Broadcaster, RunUnregisterEvict(b) PROVE References'
  <2>1. evict[b] \in Seq(Client) /\ evict[b] # <<>> /\ hubClient' = Head(evict[b])
        /\ evict' = [evict EXCEPT ![b] = Tail(evict[b])] /\ life' = life
    BY <1>14 DEF RunUnregisterEvict
  <2>2. Begun(life[hubClient'])
    BY <2>1, TailElements
  <2>3. \A i \in DOMAIN Tail(evict[b]) : Begun(life[Tail(evict[b])[i]])
    BY <2>1, TailElements
  <2>4. \A a \in Broadcaster : \A i \in DOMAIN evict'[a] : Begun(life[evict'[a][i]])
    BY SMTT(30), <2>1, <2>3
  <2> QED
    BY SMTT(30), <1>14, <2>2, <2>4 DEF RunUnregisterEvict, Receive
<1>15. ASSUME NEW d \in Disconnecting, RunUnregisterDisconnect(d) PROVE References'
  BY <1>15 DEF RunUnregisterDisconnect, Receive
<1> QED
  BY <1>1, <1>2, <1>3, <1>4, <1>5, <1>6, <1>7, <1>8, <1>9, <1>10, <1>11, <1>12, <1>13, <1>14, <1>15, <1>16 DEF RunNext

LEMMA ClientReferences == ASSUME TypeInv, References, ClientNext PROVE References'
<1> USE DEF TypeInv, TypeOK, PcOK, References, Started, Begun
\* A client that has started stays so.
<1>10. ASSUME \A k \in Client : Begun(life[k]) => Begun(life'[k]),
              UNCHANGED <<hubVars, sharedVars, sendVars, evict, discVars, stopVars>>
       PROVE  References'
  <2> DEFINE Ok(x) == x \in Client /\ Begun(life[x])
  <2>1. \A x : Ok(x) => Begun(life'[x])
    BY <1>10
  <2>2. /\ \A i \in Id : clients[i] # NoClient => IdOf[clients[i]] = i /\ Ok(clients[i])
        /\ hubPc \in {"register", "unregister", "close", "closing"} => Ok(hubClient)
        /\ \A c \in targets \cup closing : Ok(c)
        /\ probed # NoClient => Ok(probed)
    OBVIOUS
  <2>3. \A i \in DOMAIN failed : Ok(failed[i])
    OBVIOUS
  <2>4. \A b \in Broadcaster : \A i \in DOMAIN evict[b] : Ok(evict[b][i])
    OBVIOUS
  <2>5. /\ \A d \in Disconnecting : disc[d] # "idle" => Ok(victim[d])
        /\ \A s \in Sender : call[s] \in Finding => Ok(found[s])
    OBVIOUS
  <2> HIDE DEF Ok, TypeInv, TypeOK, PcOK, Begun
  <2>6. References'
    BY <1>10, <2>1, <2>2, <2>3, <2>4, <2>5 DEF Begun
  <2> QED
    BY <2>6
<1>1. ASSUME NEW c \in Client, Connect(c) PROVE References'
  BY <1>1 DEF Connect
<1>9. ASSUME NEW c \in Client, OnConnect(c) PROVE References'
  <2>1. \A k \in Client : Begun(life[k]) => Begun(life'[k])
    BY <1>9 DEF OnConnect
  <2>2. UNCHANGED <<hubVars, sharedVars, sendVars, evict, discVars, stopVars>>
    BY <1>9 DEF OnConnect
  <2> QED
    BY <1>10, <2>1, <2>2
<1>2. ASSUME NEW c \in Client, ClientPanics(c) PROVE References'
  <2>1. \A k \in Client : Begun(life[k]) => Begun(life'[k])
    BY <1>2 DEF ClientPanics
  <2>2. UNCHANGED <<hubVars, sharedVars, sendVars, evict, discVars, stopVars>>
    BY <1>2 DEF ClientPanics
  <2> QED
    BY <1>10, <2>1, <2>2
<1>3. ASSUME NEW c \in Client, PumpWrite(c) PROVE References'
  BY <1>3 DEF PumpWrite
<1>4. ASSUME NEW c \in Client, PumpError(c) PROVE References'
  BY <1>4 DEF PumpError
<1>5. ASSUME NEW c \in Client, PumpClosed(c) PROVE References'
  BY <1>5 DEF PumpClosed
<1>6. ASSUME NEW c \in Client, ReaderEnd(c) PROVE References'
  BY <1>6 DEF ReaderEnd
<1>7. ASSUME NEW c \in Client, CleanupClient(c) PROVE References'
  BY <1>7 DEF CleanupClient
<1> QED
  BY <1>1, <1>2, <1>3, <1>4, <1>5, <1>6, <1>7, <1>9 DEF ClientNext

LEMMA CallReferences == ASSUME TypeInv, References, CallNext PROVE References'
<1> USE DEF TypeInv, TypeOK, PcOK, References, Started, Begun
<1>1. ASSUME NEW b \in Broadcaster, BroadcastMessage(b) PROVE References'
  BY <1>1 DEF BroadcastMessage
<1>2. ASSUME NEW b \in Broadcaster, BroadcastPanics(b) PROVE References'
  BY <1>2 DEF BroadcastPanics
<1>3. ASSUME NEW b \in Broadcaster, EvictPanics(b) PROVE References'
  BY <1>3 DEF EvictPanics
<1>4. ASSUME NEW s \in Sender, SendToClient(s) PROVE References'
  BY <1>4 DEF SendToClient
<1>8. ASSUME NEW s \in Sender, NEW i \in Id, NEW next \in {"fromConn", "toConn"}, Lookup(s, i, next)
      PROVE References'
  <2>1. \/ call' = [call EXCEPT ![s] = "failed"] /\ found' = found
        \/ /\ call' = [call EXCEPT ![s] = next] /\ clients[i] # NoClient
           /\ found' = [found EXCEPT ![s] = clients[i]]
    BY <1>8 DEF Lookup
  <2>2. \A t \in Sender : call'[t] \in Finding => Begun(life[found'[t]])
    BY <1>8, <2>1
  <2> QED
    BY <1>8, <2>2 DEF Lookup
<1>5. ASSUME NEW s \in Sender, SendFrom(s) \/ SendTo(s) PROVE References'
  BY <1>5, <1>8 DEF SendFrom, SendTo
<1>6. ASSUME NEW s \in Sender, SendFromConn(s) \/ SendToConn(s) PROVE References'
  <2>1. PICK r \in {"failed", "to", "deliver"} : call' = [call EXCEPT ![s] = r]
    BY <1>6 DEF SendFromConn, SendToConn, CheckConn
  <2>2. call[s] \in Finding /\ found' = found
    BY <1>6 DEF SendFromConn, SendToConn, CheckConn
  <2>3. \A t \in Sender : call'[t] \in Finding => call[t] \in Finding
    BY <2>1, <2>2
  <2> QED
    BY <1>6, <2>2, <2>3 DEF SendFromConn, SendToConn, CheckConn
<1>7. ASSUME NEW s \in Sender, SendDeliver(s) PROVE References'
  <2>1. PICK r \in {"returned", "failed", "panicked"} : call' = [call EXCEPT ![s] = r]
    BY <1>7 DEF SendDeliver
  <2>2. \/ disc' = disc /\ victim' = victim
        \/ disc' = [disc EXCEPT ![s] = "locking"] /\ victim' = [victim EXCEPT ![s] = found[s]]
    BY <1>7 DEF SendDeliver
  <2>3. found' = found /\ life' = life /\ call[s] = "deliver"
    BY <1>7 DEF SendDeliver
  <2>4. \A d \in Disconnecting : disc'[d] # "idle" => Begun(life'[victim'[d]])
    <3>1. Begun(life[found[s]])
      BY <2>3
    <3>2. CASE disc' = disc /\ victim' = victim
      BY <2>3, <3>2
    <3>3. CASE disc' = [disc EXCEPT ![s] = "locking"] /\ victim' = [victim EXCEPT ![s] = found[s]]
      BY <2>3, <3>1, <3>3
    <3> QED
      BY <2>2, <3>2, <3>3
  <2>5. \A t \in Sender : call'[t] \in Finding => Begun(life'[found'[t]])
    BY <2>1, <2>3
  <2> QED
    BY <1>7, <2>4, <2>5 DEF SendDeliver
<1> QED
  BY <1>1, <1>2, <1>3, <1>4, <1>5, <1>6, <1>7 DEF CallNext, SendStep

LEMMA DisconnectReferences == ASSUME TypeInv, References, DisconnectNext PROVE References'
<1> USE DEF TypeInv, TypeOK, PcOK, References, Started, Begun
<1>1. ASSUME NEW d \in Disconnecter, NEW c \in Client, Disconnect(d, c) PROVE References'
  BY <1>1 DEF Disconnect
<1>2. ASSUME NEW d \in Disconnecting, DisconnectLock(d) PROVE References'
  BY <1>2 DEF DisconnectLock
<1>3. ASSUME NEW d \in Disconnecting, DisconnectPanics(d) PROVE References'
  BY <1>3 DEF DisconnectPanics, ReleaseClientMu
<1>4. ASSUME NEW d \in Disconnecting, DisconnectClose(d) PROVE References'
  BY <1>4 DEF DisconnectClose, ReleaseClientMu
<1> QED
  BY <1>1, <1>2, <1>3, <1>4 DEF DisconnectNext

LEMMA StopReferences == ASSUME TypeInv, References, StopNext PROVE References'
<1> USE DEF TypeInv, TypeOK, PcOK, References, Started, Begun
<1>1. CASE Cancel
  BY <1>1 DEF Cancel
<1>2. ASSUME NEW s \in Stopper, StopBegin(s) PROVE References'
  BY <1>2, RegisteredReferences DEF StopBegin
<1>3. ASSUME NEW s \in Stopper, StopCloseClient(s) PROVE References'
  BY <1>3 DEF StopCloseClient, CloseChan
<1>6. ASSUME NEW s \in Stopper, NEW c \in Client, StopProbe(s, c) PROVE References'
  BY <1>6 DEF StopProbe
<1>4. ASSUME NEW s \in Stopper, StopReset(s) PROVE References'
  BY <1>4 DEF StopReset, ResetClients
<1>5. ASSUME NEW s \in Stopper, StopCloseChannel(s) PROVE References'
  BY <1>5 DEF StopCloseChannel, NextClosed
<1> QED
  BY <1>1, <1>2, <1>3, <1>4, <1>5, <1>6 DEF StopNext

-----------------------------------------------------------------------------
(* h.mu, and the channels of registered clients                            *)

LEMMA RunLocking == ASSUME TypeInv, Locking, RunNext PROVE Locking'
<1> USE DEF TypeInv, TypeOK, PcOK, Locking
<1>1. CASE RunStart
  BY <1>1 DEF RunStart
<1>2. CASE RunLeave
  BY <1>2 DEF RunLeave
<1>3. CASE RunExit
  BY <1>3 DEF RunExit
<1>4. CASE RunAdd
  BY <1>4 DEF RunAdd
<1>5. CASE RunRemove
  BY <1>5 DEF RunRemove, RemoveFromClients
<1>6. CASE RunClose
  BY <1>6 DEF RunClose, CloseChan
<1>16. CASE RunProbe
  BY <1>16 DEF RunProbe
<1>7. CASE RunSnapshot
  BY <1>7 DEF RunSnapshot
<1>8. CASE RunLock
  BY <1>8 DEF RunLock
<1>9. CASE RunUnlock
  BY <1>9 DEF RunUnlock, EvictFailed
<1>10. ASSUME NEW c \in Client, RunSend(c) PROVE Locking'
  BY <1>10 DEF RunSend, Enqueue, Full
<1>11. ASSUME NEW c \in Client, RunRegister(c) PROVE Locking'
  BY <1>11 DEF RunRegister, Receive
<1>12. ASSUME NEW c \in Client, RunUnregisterCleanup(c) PROVE Locking'
  BY <1>12 DEF RunUnregisterCleanup, Receive
<1>13. ASSUME NEW b \in Broadcaster, RunBroadcast(b) PROVE Locking'
  BY <1>13 DEF RunBroadcast, Receive
<1>14. ASSUME NEW b \in Broadcaster, RunUnregisterEvict(b) PROVE Locking'
  BY <1>14 DEF RunUnregisterEvict, Receive
<1>15. ASSUME NEW d \in Disconnecting, RunUnregisterDisconnect(d) PROVE Locking'
  BY <1>15 DEF RunUnregisterDisconnect, Receive
<1> QED
  BY <1>1, <1>2, <1>3, <1>4, <1>5, <1>6, <1>7, <1>8, <1>9, <1>10, <1>11, <1>12, <1>13, <1>14, <1>15, <1>16 DEF RunNext

LEMMA ClientLocking == ASSUME TypeInv, Locking, ClientNext PROVE Locking'
<1> USE DEF TypeInv, TypeOK, PcOK, Locking
<1>1. ASSUME NEW c \in Client, Connect(c) PROVE Locking'
  BY <1>1 DEF Connect
<1>9. ASSUME NEW c \in Client, OnConnect(c) PROVE Locking'
  BY <1>9 DEF OnConnect
<1>2. ASSUME NEW c \in Client, ClientPanics(c) PROVE Locking'
  BY <1>2 DEF ClientPanics
<1>3. ASSUME NEW c \in Client, PumpWrite(c) PROVE Locking'
  BY <1>3 DEF PumpWrite
<1>4. ASSUME NEW c \in Client, PumpError(c) PROVE Locking'
  BY <1>4 DEF PumpError
<1>5. ASSUME NEW c \in Client, PumpClosed(c) PROVE Locking'
  BY <1>5 DEF PumpClosed
<1>6. ASSUME NEW c \in Client, ReaderEnd(c) PROVE Locking'
  BY <1>6 DEF ReaderEnd
<1>7. ASSUME NEW c \in Client, CleanupClient(c) PROVE Locking'
  BY <1>7 DEF CleanupClient
<1> QED
  BY <1>1, <1>2, <1>3, <1>4, <1>5, <1>6, <1>7, <1>9 DEF ClientNext

LEMMA CallLocking == ASSUME TypeInv, Locking, CallNext PROVE Locking'
<1> USE DEF TypeInv, TypeOK, PcOK, Locking
<1>1. ASSUME NEW b \in Broadcaster, BroadcastMessage(b) PROVE Locking'
  BY <1>1 DEF BroadcastMessage
<1>2. ASSUME NEW b \in Broadcaster, BroadcastPanics(b) PROVE Locking'
  BY <1>2 DEF BroadcastPanics
<1>3. ASSUME NEW b \in Broadcaster, EvictPanics(b) PROVE Locking'
  BY <1>3 DEF EvictPanics
<1>4. ASSUME NEW s \in Sender, SendToClient(s) PROVE Locking'
  BY <1>4 DEF SendToClient
<1>5. ASSUME NEW s \in Sender, SendFrom(s) \/ SendTo(s) PROVE Locking'
  BY <1>5 DEF SendFrom, SendTo, Lookup
<1>6. ASSUME NEW s \in Sender, SendFromConn(s) \/ SendToConn(s) PROVE Locking'
  BY <1>6 DEF SendFromConn, SendToConn, CheckConn
<1>7. ASSUME NEW s \in Sender, SendDeliver(s) PROVE Locking'
  BY <1>7 DEF SendDeliver, Enqueue, Full
<1> QED
  BY <1>1, <1>2, <1>3, <1>4, <1>5, <1>6, <1>7 DEF CallNext, SendStep

LEMMA DisconnectLocking == ASSUME TypeInv, Locking, DisconnectNext PROVE Locking'
<1> USE DEF TypeInv, TypeOK, PcOK, Locking
<1>1. ASSUME NEW d \in Disconnecter, NEW c \in Client, Disconnect(d, c) PROVE Locking'
  BY <1>1 DEF Disconnect
<1>2. ASSUME NEW d \in Disconnecting, DisconnectLock(d) PROVE Locking'
  BY <1>2 DEF DisconnectLock
<1>3. ASSUME NEW d \in Disconnecting, DisconnectPanics(d) PROVE Locking'
  BY <1>3 DEF DisconnectPanics, ReleaseClientMu
<1>4. ASSUME NEW d \in Disconnecting, DisconnectClose(d) PROVE Locking'
  BY <1>4 DEF DisconnectClose, ReleaseClientMu
<1> QED
  BY <1>1, <1>2, <1>3, <1>4 DEF DisconnectNext

LEMMA StopLocking == ASSUME TypeInv, Locking, StopNext PROVE Locking'
<1> USE DEF TypeInv, TypeOK, PcOK, Locking
<1>1. CASE Cancel
  BY <1>1 DEF Cancel
<1>2. ASSUME NEW s \in Stopper, StopBegin(s) PROVE Locking'
  BY <1>2 DEF StopBegin
<1>3. ASSUME NEW s \in Stopper, StopCloseClient(s) PROVE Locking'
  BY <1>3 DEF StopCloseClient, CloseChan
<1>6. ASSUME NEW s \in Stopper, NEW c \in Client, StopProbe(s, c) PROVE Locking'
  BY <1>6 DEF StopProbe
<1>4. ASSUME NEW s \in Stopper, StopReset(s) PROVE Locking'
  BY <1>4 DEF StopReset, ResetClients
<1>5. ASSUME NEW s \in Stopper, StopCloseChannel(s) PROVE Locking'
  BY <1>5 DEF StopCloseChannel, NextClosed
<1> QED
  BY <1>1, <1>2, <1>3, <1>4, <1>5, <1>6 DEF StopNext

LEMMA RunOpenInv == ASSUME TypeInv, References, Locking, OpenInv, RunNext PROVE OpenInv'
<1> USE DEF TypeInv, TypeOK, PcOK, References, Locking, OpenInv, RegisteredOpen, Registered, Started
<1>1. CASE RunStart
  BY <1>1 DEF RunStart
<1>2. CASE RunLeave
  BY <1>2 DEF RunLeave
<1>3. CASE RunExit
  BY <1>3 DEF RunExit
<1>4. CASE RunAdd
  BY <1>4 DEF RunAdd
<1>5. CASE RunRemove
  <2>1. /\ hubPc = "unregister" /\ hubClient \in Client
        /\ hubPc' \in {"exit", "select", "close"} /\ (hubPc' = "close" => hubClient' = hubClient)
    BY <1>5 DEF RunRemove
  <2>2. \/ clients' = clients /\ hubPc' # "close"
        \/ clients' = [clients EXCEPT ![IdOf[hubClient]] = NoClient]
    BY <1>5 DEF RunRemove, RemoveFromClients
  <2>3. \A i \in Id : clients'[i] # NoClient => clients'[i] = clients[i]
    BY <2>1, <2>2
  <2>4. ASSUME hubPc' = "close", NEW i \in Id, clients'[i] = hubClient PROVE FALSE
    <3>1. clients' = [clients EXCEPT ![IdOf[hubClient]] = NoClient]
      BY <2>2, <2>4
    <3>2. clients'[i] # NoClient
      BY <2>1, <2>4
    <3>3. clients[i] = hubClient /\ clients[i] # NoClient
      BY <2>3, <2>4, <3>2
    <3>4. IdOf[hubClient] = i
      BY <3>3
    <3> QED
      BY <2>1, <2>4, <3>1, <3>2, <3>4
  <2>5. open' = open /\ mu' = mu /\ life' = life /\ closing' = closing
    BY <1>5 DEF RunRemove
  <2>6. Registered' \subseteq Registered
    BY <2>3
  <2>7. RegisteredOpen'
    BY <2>5, <2>6
  <2>8. hubPc' = "close" => hubClient' \notin Registered'
    BY <2>1, <2>4
  <2> QED
    BY <2>1, <2>5, <2>7, <2>8
<1>6. CASE RunClose
  <2>1. hubClient \in Client /\ Started(hubClient) /\ hubClient \notin Registered
    BY <1>6 DEF RunClose
  <2>2. open' = open \/ open' = [open EXCEPT ![hubClient] = FALSE]
    BY <1>6 DEF RunClose, CloseChan
  <2>3. \A c \in Client : c # hubClient => open'[c] = open[c]
    BY <2>1, <2>2
  <2>4. UNCHANGED <<clients, life, closing, probed>> /\ hubPc' = "select" /\ mu = "run" /\ mu' = "free"
    BY <1>6 DEF RunClose
  <2>5. RegisteredOpen'
    BY <2>1, <2>3, <2>4
  <2>6. \A c \in Client : ~Started(c)' => open'[c]
    BY <2>1, <2>3, <2>4
  <2> QED
    BY <2>4, <2>5, <2>6
<1>16. CASE RunProbe
  <2>1. /\ hubPc = "close" /\ hubPc' \in {"select", "closing"} /\ mu = "free"
        /\ hubPc' = "closing" => hubClient' = hubClient
        /\ UNCHANGED <<open, clients, life, closing, probed>>
    BY <1>16 DEF RunProbe
  <2> QED
    BY <2>1
<1>7. CASE RunSnapshot
  BY <1>7 DEF RunSnapshot
<1>8. CASE RunLock
  BY <1>8 DEF RunLock
<1>9. CASE RunUnlock
  BY <1>9 DEF RunUnlock, EvictFailed
<1>10. ASSUME NEW c \in Client, RunSend(c) PROVE OpenInv'
  BY <1>10 DEF RunSend, Enqueue, Full
<1>11. ASSUME NEW c \in Client, RunRegister(c) PROVE OpenInv'
  BY <1>11 DEF RunRegister, Receive
<1>12. ASSUME NEW c \in Client, RunUnregisterCleanup(c) PROVE OpenInv'
  BY <1>12 DEF RunUnregisterCleanup, Receive
<1>13. ASSUME NEW b \in Broadcaster, RunBroadcast(b) PROVE OpenInv'
  BY <1>13 DEF RunBroadcast, Receive
<1>14. ASSUME NEW b \in Broadcaster, RunUnregisterEvict(b) PROVE OpenInv'
  BY <1>14 DEF RunUnregisterEvict, Receive
<1>15. ASSUME NEW d \in Disconnecting, RunUnregisterDisconnect(d) PROVE OpenInv'
  BY <1>15 DEF RunUnregisterDisconnect, Receive
<1> QED
  BY <1>1, <1>2, <1>3, <1>4, <1>5, <1>6, <1>7, <1>8, <1>9, <1>10, <1>11, <1>12, <1>13, <1>14, <1>15, <1>16 DEF RunNext

LEMMA ClientOpenInv == ASSUME TypeInv, References, Locking, OpenInv, ClientNext PROVE OpenInv'
<1> USE DEF TypeInv, TypeOK, PcOK, References, Locking, OpenInv, RegisteredOpen, Registered, Started
<1>1. ASSUME NEW c \in Client, Connect(c) PROVE OpenInv'
  BY <1>1 DEF Connect
<1>9. ASSUME NEW c \in Client, OnConnect(c) PROVE OpenInv'
  BY <1>9 DEF OnConnect
<1>2. ASSUME NEW c \in Client, ClientPanics(c) PROVE OpenInv'
  BY <1>2 DEF ClientPanics
<1>3. ASSUME NEW c \in Client, PumpWrite(c) PROVE OpenInv'
  BY <1>3 DEF PumpWrite
<1>4. ASSUME NEW c \in Client, PumpError(c) PROVE OpenInv'
  BY <1>4 DEF PumpError
<1>5. ASSUME NEW c \in Client, PumpClosed(c) PROVE OpenInv'
  BY <1>5 DEF PumpClosed
<1>6. ASSUME NEW c \in Client, ReaderEnd(c) PROVE OpenInv'
  BY <1>6 DEF ReaderEnd
<1>7. ASSUME NEW c \in Client, CleanupClient(c) PROVE OpenInv'
  BY <1>7 DEF CleanupClient
<1> QED
  BY <1>1, <1>2, <1>3, <1>4, <1>5, <1>6, <1>7, <1>9 DEF ClientNext

LEMMA CallOpenInv == ASSUME TypeInv, References, Locking, OpenInv, CallNext PROVE OpenInv'
<1> USE DEF TypeInv, TypeOK, PcOK, References, Locking, OpenInv, RegisteredOpen, Registered, Started
<1>1. ASSUME NEW b \in Broadcaster, BroadcastMessage(b) PROVE OpenInv'
  BY <1>1 DEF BroadcastMessage
<1>2. ASSUME NEW b \in Broadcaster, BroadcastPanics(b) PROVE OpenInv'
  BY <1>2 DEF BroadcastPanics
<1>3. ASSUME NEW b \in Broadcaster, EvictPanics(b) PROVE OpenInv'
  BY <1>3 DEF EvictPanics
<1>4. ASSUME NEW s \in Sender, SendToClient(s) PROVE OpenInv'
  BY <1>4 DEF SendToClient
<1>5. ASSUME NEW s \in Sender, SendFrom(s) \/ SendTo(s) PROVE OpenInv'
  BY <1>5 DEF SendFrom, SendTo, Lookup
<1>6. ASSUME NEW s \in Sender, SendFromConn(s) \/ SendToConn(s) PROVE OpenInv'
  BY <1>6 DEF SendFromConn, SendToConn, CheckConn
<1>7. ASSUME NEW s \in Sender, SendDeliver(s) PROVE OpenInv'
  BY <1>7 DEF SendDeliver, Enqueue, Full
<1> QED
  BY <1>1, <1>2, <1>3, <1>4, <1>5, <1>6, <1>7 DEF CallNext, SendStep

LEMMA DisconnectOpenInv == ASSUME TypeInv, References, Locking, OpenInv, DisconnectNext PROVE OpenInv'
<1> USE DEF TypeInv, TypeOK, PcOK, References, Locking, OpenInv, RegisteredOpen, Registered, Started
<1>1. ASSUME NEW d \in Disconnecter, NEW c \in Client, Disconnect(d, c) PROVE OpenInv'
  BY <1>1 DEF Disconnect
<1>2. ASSUME NEW d \in Disconnecting, DisconnectLock(d) PROVE OpenInv'
  BY <1>2 DEF DisconnectLock
<1>3. ASSUME NEW d \in Disconnecting, DisconnectPanics(d) PROVE OpenInv'
  BY <1>3 DEF DisconnectPanics, ReleaseClientMu
<1>4. ASSUME NEW d \in Disconnecting, DisconnectClose(d) PROVE OpenInv'
  BY <1>4 DEF DisconnectClose, ReleaseClientMu
<1> QED
  BY <1>1, <1>2, <1>3, <1>4 DEF DisconnectNext

LEMMA StopOpenInv == ASSUME TypeInv, References, Locking, OpenInv, StopNext PROVE OpenInv'
<1> USE DEF TypeInv, TypeOK, PcOK, References, Locking, OpenInv, RegisteredOpen, Registered, Started
<1>1. CASE Cancel
  BY <1>1 DEF Cancel
<1>2. ASSUME NEW s \in Stopper, StopBegin(s) PROVE OpenInv'
  BY <1>2 DEF StopBegin
<1>3. ASSUME NEW s \in Stopper, StopCloseClient(s) PROVE OpenInv'
  <2>1. probed \in Client /\ mu = "stop" /\ Started(probed) /\ probed' = NoClient
    BY <1>3 DEF StopCloseClient
  <2>2. open' = [open EXCEPT ![probed] = FALSE]
    BY <1>3 DEF StopCloseClient, CloseChan
  <2>3. \A k \in Client : k # probed => open'[k] = open[k]
    BY <2>2
  <2>4. UNCHANGED <<clients, mu, life, hubPc, hubClient, closing>>
    BY <1>3 DEF StopCloseClient
  <2>5. hubPc = "register" => hubClient # probed /\ hubClient \in Client
    BY <2>1
  <2>6. RegisteredOpen'
    BY <2>1, <2>4
  <2>7. \A k \in Client : ~Started(k)' => open'[k]
    BY <2>1, <2>3, <2>4
  <2> QED
    BY <2>1, <2>3, <2>4, <2>5, <2>6, <2>7
<1>6. ASSUME NEW s \in Stopper, NEW c \in Client, StopProbe(s, c) PROVE OpenInv'
  <2>1. /\ c \in closing /\ closing' = closing \ {c} /\ probed' \in {probed, c}
        /\ UNCHANGED <<open, clients, mu, life, hubPc, hubClient>>
    BY <1>6 DEF StopProbe
  <2> QED
    BY <2>1
<1>4. ASSUME NEW s \in Stopper, StopReset(s) PROVE OpenInv'
  BY <1>4 DEF StopReset, ResetClients
<1>5. ASSUME NEW s \in Stopper, StopCloseChannel(s) PROVE OpenInv'
  BY <1>5 DEF StopCloseChannel, NextClosed
<1> QED
  BY <1>1, <1>2, <1>3, <1>4, <1>5, <1>6 DEF StopNext

-----------------------------------------------------------------------------
(* The order of broadcasts                                                 *)

\* What taking the first message, or adding the newest, does to a buffer.
LEMMA TailOrder ==
  ASSUME NEW q \in Seq(Broadcaster \cup Sender), q # <<>>, Sorted(q), NEW low, Above(q, low),
         NEW high, Below(q, high)
  PROVE  /\ Sorted(Tail(q)) /\ Above(Tail(q), low) /\ Below(Tail(q), high)
         /\ Head(q) \in Broadcaster => /\ low < pos[Head(q)] /\ pos[Head(q)] < high
                                       /\ Above(Tail(q), pos[Head(q)])
<1>1. /\ Head(q) = q[1] /\ 1 \in DOMAIN q
      /\ \A i \in DOMAIN Tail(q) : i + 1 \in DOMAIN q /\ Tail(q)[i] = q[i + 1]
  BY TailElements
<1>2. DOMAIN Tail(q) \subseteq Nat \ {0}
  BY TailElements
<1> QED
  BY <1>1, <1>2 DEF Sorted, Above, Below

LEMMA AppendOrder ==
  ASSUME NEW q \in Seq(Broadcaster \cup Sender), NEW m \in Broadcaster \cup Sender,
         Sorted(q), NEW low, Above(q, low),
         m \in Broadcaster => low < pos[m] /\ Below(q, pos[m])
  PROVE  Sorted(Append(q, m)) /\ Above(Append(q, m), low)
<1>1. \A i \in DOMAIN Append(q, m) :
        (i \in DOMAIN q /\ Append(q, m)[i] = q[i]) \/ (i = Len(q) + 1 /\ Append(q, m)[i] = m)
  BY AppendElements
<1>2. DOMAIN q = 1 .. Len(q) /\ Len(q) \in Nat
  OBVIOUS
<1>3. Above(Append(q, m), low)
  BY <1>1 DEF Above
<1>4. ASSUME NEW i \in DOMAIN Append(q, m), NEW j \in DOMAIN Append(q, m), i < j,
             Append(q, m)[i] \in Broadcaster, Append(q, m)[j] \in Broadcaster
      PROVE  pos[Append(q, m)[i]] < pos[Append(q, m)[j]]
  <2>1. i \in DOMAIN q /\ Append(q, m)[i] = q[i]
    BY <1>1, <1>2, <1>4, AppendElements
  <2>2. CASE j \in DOMAIN q /\ Append(q, m)[j] = q[j]
    BY <1>4, <2>1, <2>2 DEF Sorted
  <2>3. CASE Append(q, m)[j] = m
    BY <1>4, <2>1, <2>3 DEF Below
  <2> QED
    BY <1>1, <2>2, <2>3
<1> QED
  BY <1>3, <1>4 DEF Sorted

LEMMA AppendBelow ==
  ASSUME NEW q \in Seq(Broadcaster \cup Sender), NEW m \in Broadcaster \cup Sender,
         NEW high, Below(q, high), m \notin Broadcaster
  PROVE  Below(Append(q, m), high)
BY AppendElements DEF Below

\* A step that takes at most one message from one buffer keeps the order.
LEMMA ShrinkOrder ==
  ASSUME TypeInv, OrderInv, NEW c \in Client,
         \/ chan' = chan
         \/ chan[c] # <<>> /\ chan' = [chan EXCEPT ![c] = Tail(@)],
         UNCHANGED <<pos, count, call, hubMsg, last, targets>>,
         hubPc' = hubPc \/ hubPc' \in {"select", "closing"}
  PROVE  OrderInv'
<1> USE DEF TypeInv, TypeOK
<1>1. chan' \in [Client -> Seq(Broadcaster \cup Sender)] /\ DOMAIN chan = Client
  <2>1. chan[c] # <<>> => Tail(chan[c]) \in Seq(Broadcaster \cup Sender)
    BY TailElements
  <2>2. chan \in [Client -> Seq(Broadcaster \cup Sender)]
    OBVIOUS
  <2> HIDE DEF TypeInv, TypeOK
  <2> QED
    BY <2>1, <2>2
<1>2. ASSUME NEW k \in Client
      PROVE  Sorted(chan'[k]) /\ Above(chan'[k], last[k])
             /\ (Reaching(k) => Below(chan'[k], count))
  <2>1. Sorted(chan[k]) /\ Above(chan[k], last[k]) /\ (Reaching(k) => Below(chan[k], count))
    BY DEF OrderInv
  <2>2. CASE chan'[k] = chan[k]
    BY <2>1, <2>2
  <2>3. CASE chan[k] # <<>> /\ chan'[k] = Tail(chan[k])
    <3>1. Sorted(Tail(chan[k])) /\ Above(Tail(chan[k]), last[k])
      <4>1. Below(chan[k], count + 1)
        BY <2>1 DEF Below, OrderInv
      <4> QED
        BY <2>1, <2>3, <4>1, TailOrder
    <3>2. Reaching(k) => Below(Tail(chan[k]), count)
      BY <2>1, <2>3, TailOrder
    <3> QED
      BY <2>3, <3>1, <3>2
  <2> QED
    BY <2>2, <2>3
<1> HIDE DEF TypeInv, TypeOK
<1>3. ASSUME NEW k \in Client
      PROVE  /\ Sorted(chan[k])' /\ Above(chan[k], last[k])'
             /\ (Reaching(k)' => Reaching(k) /\ Below(chan[k], count)')
  BY <1>2 DEF Sorted, Above, Below, Reaching
<1> QED
  BY <1>3 DEF OrderInv

LEMMA RunOrderInv == ASSUME TypeInv, OrderInv, RunNext PROVE OrderInv'
<1> USE DEF TypeInv, TypeOK, PcOK, OrderInv, Reaching, Sorted, Above, Below
<1>1. CASE RunStart
  BY <1>1 DEF RunStart
<1>2. CASE RunLeave
  BY <1>2 DEF RunLeave
<1>3. CASE RunExit
  BY <1>3 DEF RunExit
<1>4. CASE RunAdd
  BY <1>4 DEF RunAdd
<1>5. CASE RunRemove
  BY <1>5 DEF RunRemove, RemoveFromClients
<1>6. CASE RunClose
  BY <1>6 DEF RunClose, CloseChan
<1>16. CASE RunProbe
  <2>1. \/ chan' = chan
        \/ chan[hubClient] # <<>> /\ chan' = [chan EXCEPT ![hubClient] = Tail(@)]
    BY <1>16, TakenOne DEF RunProbe, OpenEmpty, ChanTypes
  <2>2. /\ UNCHANGED <<pos, count, call, hubMsg, last, targets>> /\ hubClient \in Client
        /\ hubPc' \in {"select", "closing"}
    BY <1>16 DEF RunProbe
  <2> QED
    BY <2>1, <2>2, ShrinkOrder
<1>7. CASE RunSnapshot
  BY <1>7 DEF RunSnapshot
<1>8. CASE RunLock
  BY <1>8 DEF RunLock
<1>9. CASE RunUnlock
  BY <1>9 DEF RunUnlock, EvictFailed
<1>10. ASSUME NEW c \in Client, RunSend(c) PROVE OrderInv'
  <2>1. /\ hubPc = "fanout" /\ c \in targets /\ targets' = targets \ {c}
        /\ UNCHANGED <<pos, count, call, hubPc, hubMsg, last>> /\ hubMsg \in Broadcaster
    BY <1>10 DEF RunSend
  <2>2. CASE chan' = chan
    BY <2>1, <2>2
  <2>3. CASE chan' = [chan EXCEPT ![c] = Append(chan[c], hubMsg)]
    <3>1. Sorted(Append(chan[c], hubMsg)) /\ Above(Append(chan[c], hubMsg), last[c])
      <4>1. pos[hubMsg] = count /\ Reaching(c)
        BY <2>1 DEF OrderInv, Reaching
      <4> QED
        BY <2>1, <4>1, AppendOrder DEF OrderInv
    <3>2. ASSUME NEW k \in Client
          PROVE  /\ Sorted(chan'[k]) /\ Above(chan'[k], last[k])
                 /\ k # c => chan'[k] = chan[k]
      BY <2>3, <3>1 DEF OrderInv
    <3>3. ASSUME NEW k \in Client
          PROVE  /\ Sorted(chan[k])' /\ Above(chan[k], last[k])'
                 /\ Reaching(k)' => last'[k] < count' /\ Below(chan[k], count)'
      BY <2>1, <3>2 DEF Sorted, Above, Below, Reaching, OrderInv
    <3> QED
      BY <2>1, <3>3 DEF OrderInv
  <2> QED
    BY <1>10, <2>2, <2>3 DEF RunSend, Enqueue
<1>11. ASSUME NEW c \in Client, RunRegister(c) PROVE OrderInv'
  BY <1>11 DEF RunRegister, Receive
<1>12. ASSUME NEW c \in Client, RunUnregisterCleanup(c) PROVE OrderInv'
  BY <1>12 DEF RunUnregisterCleanup, Receive
<1>13. ASSUME NEW b \in Broadcaster, RunBroadcast(b) PROVE OrderInv'
  BY SMTT(30), <1>13 DEF RunBroadcast, Receive
<1>14. ASSUME NEW b \in Broadcaster, RunUnregisterEvict(b) PROVE OrderInv'
  BY <1>14 DEF RunUnregisterEvict, Receive
<1>15. ASSUME NEW d \in Disconnecting, RunUnregisterDisconnect(d) PROVE OrderInv'
  BY <1>15 DEF RunUnregisterDisconnect, Receive
<1> QED
  BY <1>1, <1>2, <1>3, <1>4, <1>5, <1>6, <1>7, <1>8, <1>9, <1>10, <1>11, <1>12, <1>13, <1>14, <1>15, <1>16 DEF RunNext

LEMMA ClientOrderInv == ASSUME TypeInv, OrderInv, ClientNext PROVE OrderInv'
<1> USE DEF TypeInv, TypeOK, PcOK, OrderInv, Reaching, Sorted, Above, Below
<1>1. ASSUME NEW c \in Client, Connect(c) PROVE OrderInv'
  BY <1>1 DEF Connect
<1>9. ASSUME NEW c \in Client, OnConnect(c) PROVE OrderInv'
  BY <1>9 DEF OnConnect
<1>2. ASSUME NEW c \in Client, ClientPanics(c) PROVE OrderInv'
  BY <1>2 DEF ClientPanics
<1>3. ASSUME NEW c \in Client, PumpWrite(c) PROVE OrderInv'
  <2>1. /\ chan[c] # <<>> /\ chan' = [chan EXCEPT ![c] = Tail(chan[c])]
        /\ UNCHANGED <<pos, count, call, hubPc, hubMsg, targets>>
    BY <1>3 DEF PumpWrite
  <2>2. CASE last' = last
    BY <2>1, <2>2, ShrinkOrder
  <2>3. CASE Head(chan[c]) \in Broadcaster /\ last' = [last EXCEPT ![c] = pos[Head(chan[c])]]
    <3>1. /\ Sorted(Tail(chan[c])) /\ Above(Tail(chan[c]), pos[Head(chan[c])])
          /\ Reaching(c) => Below(Tail(chan[c]), count) /\ pos[Head(chan[c])] < count
      <4>1. Below(chan[c], count + 1)
        BY DEF Below, OrderInv
      <4> QED
        BY <2>1, <2>3, <4>1, TailOrder DEF OrderInv
    <3>2. ASSUME NEW k \in Client
          PROVE  /\ last'[k] <= count /\ Sorted(chan'[k]) /\ Above(chan'[k], last'[k])
                 /\ Reaching(k) => last'[k] < count /\ Below(chan'[k], count)
      BY <2>1, <2>3, <3>1 DEF OrderInv
    <3>3. ASSUME NEW k \in Client
          PROVE  /\ last'[k] <= count' /\ Sorted(chan[k])' /\ Above(chan[k], last[k])'
                 /\ Reaching(k)' => last'[k] < count' /\ Below(chan[k], count)'
      BY <2>1, <3>2 DEF Sorted, Above, Below, Reaching
    <3> QED
      BY <2>1, <3>3 DEF OrderInv
  <2> QED
    BY <1>3, <2>2, <2>3 DEF PumpWrite
<1>4. ASSUME NEW c \in Client, PumpError(c) PROVE OrderInv'
  BY <1>4, ShrinkOrder DEF PumpError
<1>5. ASSUME NEW c \in Client, PumpClosed(c) PROVE OrderInv'
  BY <1>5 DEF PumpClosed
<1>6. ASSUME NEW c \in Client, ReaderEnd(c) PROVE OrderInv'
  BY <1>6 DEF ReaderEnd
<1>7. ASSUME NEW c \in Client, CleanupClient(c) PROVE OrderInv'
  BY <1>7 DEF CleanupClient
<1> QED
  BY <1>1, <1>2, <1>3, <1>4, <1>5, <1>6, <1>7, <1>9 DEF ClientNext

LEMMA CallOrderInv == ASSUME TypeInv, OrderInv, CallNext PROVE OrderInv'
<1> USE DEF TypeInv, TypeOK, PcOK, OrderInv, Reaching, Sorted, Above, Below
<1>1. ASSUME NEW b \in Broadcaster, BroadcastMessage(b) PROVE OrderInv'
  BY <1>1 DEF BroadcastMessage
<1>2. ASSUME NEW b \in Broadcaster, BroadcastPanics(b) PROVE OrderInv'
  BY <1>2 DEF BroadcastPanics
<1>3. ASSUME NEW b \in Broadcaster, EvictPanics(b) PROVE OrderInv'
  BY <1>3 DEF EvictPanics
<1>4. ASSUME NEW s \in Sender, SendToClient(s) PROVE OrderInv'
  BY <1>4 DEF SendToClient
<1>5. ASSUME NEW s \in Sender, SendFrom(s) \/ SendTo(s) PROVE OrderInv'
  <2>1. /\ UNCHANGED <<pos, count, hubPc, hubMsg, last, targets, chan>> /\ s \notin Broadcaster
        /\ \A b \in Broadcaster : call'[b] = call[b]
    BY <1>5 DEF SendFrom, SendTo, Lookup
  <2> QED
    BY <2>1
<1>6. ASSUME NEW s \in Sender, SendFromConn(s) \/ SendToConn(s) PROVE OrderInv'
  BY <1>6 DEF SendFromConn, SendToConn, CheckConn
<1>7. ASSUME NEW s \in Sender, SendDeliver(s) PROVE OrderInv'
  <2>1. /\ UNCHANGED <<pos, count, hubPc, hubMsg, last, targets>> /\ s \notin Broadcaster
        /\ \A b \in Broadcaster : call'[b] = call[b]
    BY <1>7 DEF SendDeliver
  <2>2. CASE chan' = chan
    BY <2>1, <2>2
  <2>3. ASSUME NEW c \in Client, chan' = [chan EXCEPT ![c] = Append(chan[c], s)]
        PROVE OrderInv'
    <3>1. Sorted(Append(chan[c], s)) /\ Above(Append(chan[c], s), last[c])
      BY <2>1, AppendOrder DEF OrderInv
    <3>2. Reaching(c) => Below(Append(chan[c], s), count)
      BY <2>1, AppendBelow DEF OrderInv
    <3>3. ASSUME NEW k \in Client
          PROVE  /\ Sorted(chan'[k]) /\ Above(chan'[k], last[k])
                 /\ Reaching(k) => last[k] < count /\ Below(chan'[k], count)
      BY SMTT(30), <2>3, <3>1, <3>2 DEF OrderInv
    <3>4. ASSUME NEW k \in Client
          PROVE  /\ Sorted(chan[k])' /\ Above(chan[k], last[k])'
                 /\ Reaching(k)' => last'[k] < count' /\ Below(chan[k], count)'
      BY <2>1, <3>3 DEF Sorted, Above, Below, Reaching
    <3> QED
      BY <2>1, <3>4 DEF OrderInv
  <2> QED
    BY <1>7, <2>2, <2>3 DEF SendDeliver, Enqueue
<1> QED
  BY <1>1, <1>2, <1>3, <1>4, <1>5, <1>6, <1>7 DEF CallNext, SendStep

LEMMA DisconnectOrderInv == ASSUME TypeInv, OrderInv, DisconnectNext PROVE OrderInv'
<1> USE DEF TypeInv, TypeOK, PcOK, OrderInv, Reaching, Sorted, Above, Below
<1>1. ASSUME NEW d \in Disconnecter, NEW c \in Client, Disconnect(d, c) PROVE OrderInv'
  BY <1>1 DEF Disconnect
<1>2. ASSUME NEW d \in Disconnecting, DisconnectLock(d) PROVE OrderInv'
  BY <1>2 DEF DisconnectLock
<1>3. ASSUME NEW d \in Disconnecting, DisconnectPanics(d) PROVE OrderInv'
  BY <1>3 DEF DisconnectPanics, ReleaseClientMu
<1>4. ASSUME NEW d \in Disconnecting, DisconnectClose(d) PROVE OrderInv'
  BY <1>4 DEF DisconnectClose, ReleaseClientMu
<1> QED
  BY <1>1, <1>2, <1>3, <1>4 DEF DisconnectNext

LEMMA StopOrderInv == ASSUME TypeInv, OrderInv, StopNext PROVE OrderInv'
<1> USE DEF TypeInv, TypeOK, PcOK, OrderInv, Reaching, Sorted, Above, Below
<1>1. CASE Cancel
  BY <1>1 DEF Cancel
<1>2. ASSUME NEW s \in Stopper, StopBegin(s) PROVE OrderInv'
  BY <1>2 DEF StopBegin
<1>3. ASSUME NEW s \in Stopper, StopCloseClient(s) PROVE OrderInv'
  BY <1>3 DEF StopCloseClient, CloseChan
<1>6. ASSUME NEW s \in Stopper, NEW c \in Client, StopProbe(s, c) PROVE OrderInv'
  <2>1. \/ chan' = chan
        \/ chan[c] # <<>> /\ chan' = [chan EXCEPT ![c] = Tail(@)]
    BY <1>6, TakenOne DEF StopProbe, OpenEmpty, ChanTypes
  <2> QED
    BY <1>6, <2>1, ShrinkOrder DEF StopProbe
<1>4. ASSUME NEW s \in Stopper, StopReset(s) PROVE OrderInv'
  BY <1>4 DEF StopReset, ResetClients
<1>5. ASSUME NEW s \in Stopper, StopCloseChannel(s) PROVE OrderInv'
  BY <1>5 DEF StopCloseChannel, NextClosed
<1> QED
  BY <1>1, <1>2, <1>3, <1>4, <1>5, <1>6 DEF StopNext

-----------------------------------------------------------------------------
(* Disconnect                                                              *)

\* Once the hub has received the Unregister of a Disconnect, its client is out of
\* h.Clients, or about to be, and never the client that is being added.
DiscInv ==
  /\ \A d \in Disconnecting : disc[d] \in {"closing", "returned"} =>
       /\ \/ victim[d] \notin Registered
          \/ hubPc = "unregister" /\ hubClient = victim[d]
          \/ ctxDone
       /\ hubPc = "register" => hubClient # victim[d]
  /\ \A d \in Disconnecting : disc[d] = "returned" => connNil[victim[d]] /\ ~sock[victim[d]]

LEMMA RunDisc == ASSUME TypeInv, References, DiscInv, RunNext PROVE DiscInv'
<1> USE DEF TypeInv, TypeOK, PcOK, DiscInv, Registered
<1>1. CASE RunStart
  BY <1>1 DEF RunStart
<1>2. CASE RunLeave
  BY <1>2 DEF RunLeave
<1>3. CASE RunExit
  BY <1>3 DEF RunExit
<1>4. CASE RunAdd
  BY <1>4 DEF RunAdd
<1>5. CASE RunRemove
  <2>1. /\ hubPc = "unregister" /\ hubPc' \in {"exit", "select", "close"}
        /\ UNCHANGED <<disc, victim, connNil, sock, ctxDone>>
    BY <1>5 DEF RunRemove
  <2>2. \A i \in Id : clients'[i] \in {clients[i], NoClient}
    BY <1>5 DEF RunRemove, RemoveFromClients
  <2>3. Registered' \subseteq Registered
    BY <2>2 DEF Registered
  \* The client the hub has received is listed under no other identifier than its own.
  <2>4. ctxDone \/ hubClient \notin Registered'
    <3>1. hubClient \in Client /\ IdOf[hubClient] \in Id
      BY <2>1
    <3>2. \A i \in Id : clients[i] = hubClient => i = IdOf[hubClient]
      BY <3>1 DEF References
    <3>3. ctxDone \/ clients'[IdOf[hubClient]] = NoClient
      BY <1>5, <3>1 DEF RunRemove, RemoveFromClients
    <3> QED BY <2>2, <3>1, <3>2, <3>3 DEF Registered
  <2>5. ASSUME NEW d \in Disconnecting, disc[d] \in {"closing", "returned"}
        PROVE  victim[d] \notin Registered' \/ ctxDone
    BY <2>3, <2>4, <2>5 DEF DiscInv
  <2> QED BY <2>1, <2>5 DEF DiscInv
<1>6. CASE RunClose
  BY <1>6 DEF RunClose, CloseChan
<1>16. CASE RunProbe
  BY <1>16 DEF RunProbe
<1>7. CASE RunSnapshot
  BY <1>7 DEF RunSnapshot
<1>8. CASE RunLock
  BY <1>8 DEF RunLock
<1>9. CASE RunUnlock
  BY <1>9 DEF RunUnlock, EvictFailed
<1>10. ASSUME NEW c \in Client, RunSend(c) PROVE DiscInv'
  BY <1>10 DEF RunSend, Enqueue, Full
<1>11. ASSUME NEW c \in Client, RunRegister(c) PROVE DiscInv'
  <2>1. life[c] = "adding" /\ hubClient' = c /\ UNCHANGED <<disc, victim, connNil, sock, ctxDone, clients>>
    BY <1>11 DEF RunRegister, Receive
  <2>2. \A d \in Disconnecting : disc[d] # "idle" => victim[d] # c
    BY <2>1 DEF References, Started
  <2>3. \A d \in Disconnecting : ~ (hubPc = "unregister" /\ hubClient = victim[d])
    BY <1>11 DEF RunRegister, Receive
  <2> QED BY <2>1, <2>2, <2>3
<1>12. ASSUME NEW c \in Client, RunUnregisterCleanup(c) PROVE DiscInv'
  BY <1>12 DEF RunUnregisterCleanup, Receive
<1>13. ASSUME NEW b \in Broadcaster, RunBroadcast(b) PROVE DiscInv'
  BY <1>13 DEF RunBroadcast, Receive
<1>14. ASSUME NEW b \in Broadcaster, RunUnregisterEvict(b) PROVE DiscInv'
  BY <1>14 DEF RunUnregisterEvict, Receive
<1>15. ASSUME NEW d \in Disconnecting, RunUnregisterDisconnect(d) PROVE DiscInv'
  BY <1>15 DEF RunUnregisterDisconnect, Receive
<1> QED
  BY <1>1, <1>2, <1>3, <1>4, <1>5, <1>6, <1>7, <1>8, <1>9, <1>10, <1>11, <1>12, <1>13, <1>14, <1>15, <1>16 DEF RunNext

LEMMA ClientDisc == ASSUME TypeInv, References, DiscInv, ClientNext PROVE DiscInv'
<1> USE DEF TypeInv, TypeOK, PcOK, DiscInv, Registered
<1>1. ASSUME NEW c \in Client, Connect(c) PROVE DiscInv'
  BY <1>1 DEF Connect
<1>9. ASSUME NEW c \in Client, OnConnect(c) PROVE DiscInv'
  BY <1>9 DEF OnConnect
<1>2. ASSUME NEW c \in Client, ClientPanics(c) PROVE DiscInv'
  BY <1>2 DEF ClientPanics
<1>3. ASSUME NEW c \in Client, PumpWrite(c) PROVE DiscInv'
  BY <1>3 DEF PumpWrite
<1>4. ASSUME NEW c \in Client, PumpError(c) PROVE DiscInv'
  BY <1>4 DEF PumpError
<1>5. ASSUME NEW c \in Client, PumpClosed(c) PROVE DiscInv'
  BY <1>5 DEF PumpClosed
<1>6. ASSUME NEW c \in Client, ReaderEnd(c) PROVE DiscInv'
  BY <1>6 DEF ReaderEnd
<1>7. ASSUME NEW c \in Client, CleanupClient(c) PROVE DiscInv'
  BY <1>7 DEF CleanupClient
<1> QED
  BY <1>1, <1>2, <1>3, <1>4, <1>5, <1>6, <1>7, <1>9 DEF ClientNext

LEMMA CallDisc == ASSUME TypeInv, References, DiscInv, CallNext PROVE DiscInv'
<1> USE DEF TypeInv, TypeOK, PcOK, DiscInv, Registered
<1>1. ASSUME NEW b \in Broadcaster, BroadcastMessage(b) PROVE DiscInv'
  BY <1>1 DEF BroadcastMessage
<1>2. ASSUME NEW b \in Broadcaster, BroadcastPanics(b) PROVE DiscInv'
  BY <1>2 DEF BroadcastPanics
<1>3. ASSUME NEW b \in Broadcaster, EvictPanics(b) PROVE DiscInv'
  BY <1>3 DEF EvictPanics
<1>4. ASSUME NEW s \in Sender, SendToClient(s) PROVE DiscInv'
  BY <1>4 DEF SendToClient
<1>5. ASSUME NEW s \in Sender, SendFrom(s) \/ SendTo(s) PROVE DiscInv'
  BY <1>5 DEF SendFrom, SendTo, Lookup
<1>6. ASSUME NEW s \in Sender, SendFromConn(s) \/ SendToConn(s) PROVE DiscInv'
  BY <1>6 DEF SendFromConn, SendToConn, CheckConn
<1>7. ASSUME NEW s \in Sender, SendDeliver(s) PROVE DiscInv'
  <2>1. UNCHANGED <<hubPc, hubClient, connNil, sock, ctxDone, clients>>
    BY <1>7 DEF SendDeliver
  <2>2. \A d \in Disconnecting : disc'[d] \in {"closing", "returned"} => disc'[d] = disc[d] /\ victim'[d] = victim[d]
    <3>1. CASE UNCHANGED <<disc, victim>>
      BY <3>1
    <3>2. CASE disc' = [disc EXCEPT ![s] = "locking"] /\ victim' = [victim EXCEPT ![s] = found[s]]
      BY <3>2
    <3> QED BY <1>7, <3>1, <3>2 DEF SendDeliver
  <2> QED BY <2>1, <2>2
<1> QED
  BY <1>1, <1>2, <1>3, <1>4, <1>5, <1>6, <1>7 DEF CallNext, SendStep

LEMMA DisconnectDisc == ASSUME TypeInv, References, DiscInv, DisconnectNext PROVE DiscInv'
<1> USE DEF TypeInv, TypeOK, PcOK, DiscInv, Registered
<1>1. ASSUME NEW d \in Disconnecter, NEW c \in Client, Disconnect(d, c) PROVE DiscInv'
  BY <1>1 DEF Disconnect
<1>2. ASSUME NEW d \in Disconnecting, DisconnectLock(d) PROVE DiscInv'
  BY <1>2 DEF DisconnectLock
<1>3. ASSUME NEW d \in Disconnecting, DisconnectPanics(d) PROVE DiscInv'
  BY <1>3 DEF DisconnectPanics, ReleaseClientMu
<1>4. ASSUME NEW d \in Disconnecting, DisconnectClose(d) PROVE DiscInv'
  BY <1>4 DEF DisconnectClose, ReleaseClientMu
<1> QED
  BY <1>1, <1>2, <1>3, <1>4 DEF DisconnectNext

LEMMA StopDisc == ASSUME TypeInv, References, DiscInv, StopNext PROVE DiscInv'
<1> USE DEF TypeInv, TypeOK, PcOK, DiscInv, Registered
<1>1. CASE Cancel
  BY <1>1 DEF Cancel
<1>2. ASSUME NEW s \in Stopper, StopBegin(s) PROVE DiscInv'
  BY <1>2 DEF StopBegin
<1>3. ASSUME NEW s \in Stopper, StopCloseClient(s) PROVE DiscInv'
  BY <1>3 DEF StopCloseClient, CloseChan
<1>6. ASSUME NEW s \in Stopper, NEW c \in Client, StopProbe(s, c) PROVE DiscInv'
  BY <1>6 DEF StopProbe
<1>4. ASSUME NEW s \in Stopper, StopReset(s) PROVE DiscInv'
  BY <1>4 DEF StopReset, ResetClients
<1>5. ASSUME NEW s \in Stopper, StopCloseChannel(s) PROVE DiscInv'
  BY <1>5 DEF StopCloseChannel, NextClosed
<1> QED
  BY <1>1, <1>2, <1>3, <1>4, <1>5, <1>6 DEF StopNext

-----------------------------------------------------------------------------
(* The inductive invariant and the theorems                                *)

IInv == TypeInv /\ References /\ Locking /\ OpenInv /\ OrderInv /\ DiscInv

LEMMA InitInv == ASSUME Init PROVE IInv
<1>1. TypeInv
  BY TypeInit
<1>2. References
  BY DEF Init, References, Started
<1>3. Locking
  BY DEF Init, Locking
<1>4. OpenInv
  BY DEF Init, OpenInv, RegisteredOpen, Registered, Started
<1>5. OrderInv
  BY DEF Init, OrderInv, Reaching, Sorted, Above, Below
<1>6. DiscInv
  BY DEF Init, DiscInv
<1> QED
  BY <1>1, <1>2, <1>3, <1>4, <1>5, <1>6 DEF IInv

LEMMA StepInv == ASSUME IInv, [Next]_vars PROVE IInv'
<1> USE DEF IInv
<1>1. CASE UNCHANGED vars
  <2> USE <1>1 DEF vars
  <2>1. TypeInv'
    BY TypeStep
  <2>2. References'
    BY DEF References, Started
  <2>3. Locking'
    BY DEF Locking
  <2>4. OpenInv'
    BY DEF OpenInv, RegisteredOpen, Registered, Started
  <2>5. OrderInv'
    BY DEF OrderInv, Reaching, Sorted, Above, Below
  <2>6. DiscInv'
    BY DEF DiscInv, Registered
  <2> QED
    BY <2>1, <2>2, <2>3, <2>4, <2>5, <2>6
<1>2. CASE RunNext
  BY <1>2, RunTypes, RunReferences, RunLocking, RunOpenInv, RunOrderInv, RunDisc
<1>3. CASE ClientNext
  BY <1>3, ClientTypes, ClientReferences, ClientLocking, ClientOpenInv, ClientOrderInv, ClientDisc
<1>4. CASE CallNext
  BY <1>4, CallTypes, CallReferences, CallLocking, CallOpenInv, CallOrderInv, CallDisc
<1>5. CASE DisconnectNext
  BY <1>5, DisconnectTypes, DisconnectReferences, DisconnectLocking, DisconnectOpenInv,
     DisconnectOrderInv, DisconnectDisc
<1>6. CASE StopNext
  BY <1>6, StopTypes, StopReferences, StopLocking, StopOpenInv, StopOrderInv, StopDisc
<1> QED
  BY <1>1, <1>2, <1>3, <1>4, <1>5, <1>6 DEF Next

LEMMA Invariance == Spec => []IInv
  BY InitInv, StepInv, PTL DEF Spec

\* The hub, its callers and the client channels keep the types of TypeOK; no
\* MessageChan ever holds more than its capacity.
THEOREM TypeCorrect == Spec => []TypeOK
<1>1. IInv => TypeOK
  BY DEF IInv, TypeInv
<1> QED
  BY <1>1, Invariance, PTL

\* A client listed in h.Clients has an open MessageChan, whatever the
\* interleaving of evictions, disconnections, Stop calls and cancellation,
\* and even when clients share an identifier; only Stop, while it holds h.mu,
\* closes the channels of clients it has not removed yet.
THEOREM RegisteredClientsOpen == Spec => []RegisteredOpen
<1>1. IInv => RegisteredOpen
  BY DEF IInv, OpenInv
<1> QED
  BY <1>1, Invariance, PTL

\* A Disconnect that has returned leaves a client that nobody can send to and
\* that the hub does not list, however it was interleaved with registrations,
\* evictions, cleanups and Stop, and even when clients share an identifier.
THEOREM DisconnectsEffective == Spec => []DisconnectEffective
<1>1. IInv => DisconnectEffective
  BY DEF IInv, DiscInv, DisconnectEffective
<1> QED
  BY <1>1, Invariance, PTL

\* Every step of the hub is a step of OrderedDelivery or leaves it alone.
LEMMA DeliveryStep ==
  ASSUME IInv, [Next]_vars
  PROVE  [Delivery!Next]_(Delivery!vars)
<1> USE DEF IInv, Delivery!vars
<1>1. ASSUME NEW b \in Broadcaster, RunBroadcast(b) PROVE Delivery!Accept(b)
  BY <1>1 DEF RunBroadcast, OrderInv, Delivery!Accept
<1>2. ASSUME NEW c \in Client, PumpWrite(c), Head(chan[c]) \in Broadcaster
      PROVE  Delivery!Deliver(c, Head(chan[c]))
  <2>1. chan[c] \in Seq(Broadcaster \cup Sender) /\ chan[c] # <<>>
    BY <1>2 DEF PumpWrite, TypeInv, TypeOK
  <2>2. 1 \in DOMAIN chan[c] /\ Head(chan[c]) = chan[c][1]
    BY <2>1, TailElements
  <2>3. last[c] < pos[Head(chan[c])]
    BY <1>2, <2>2 DEF OrderInv, Above
  <2> QED
    BY <1>2, <2>3 DEF PumpWrite, TypeInv, TypeOK, Delivery!Deliver
<1>3. ASSUME NEW c \in Client, PumpWrite(c), Head(chan[c]) \notin Broadcaster
      PROVE  UNCHANGED <<count, pos, last>>
  BY <1>3 DEF PumpWrite
<1>4. CASE UNCHANGED vars
  BY <1>4 DEF vars
<1>5. CASE RunNext
  <2>1. (\E b \in Broadcaster : RunBroadcast(b)) \/ UNCHANGED <<count, pos, last>>
    BY <1>5 DEF RunNext, RunStart, RunLeave, RunExit, RunAdd, RunRemove, RunProbe,
       RunClose, RunSnapshot, RunLock, RunUnlock, RunSend, RunRegister, RunUnregisterCleanup,
       RunUnregisterEvict, RunUnregisterDisconnect
  <2> QED
    BY <1>1, <2>1 DEF Delivery!Next
<1>6. CASE ClientNext
  <2>1. (\E c \in Client : PumpWrite(c)) \/ UNCHANGED <<count, pos, last>>
    BY <1>6 DEF ClientNext, Connect, ClientPanics, OnConnect, PumpError, PumpClosed, ReaderEnd,
       CleanupClient
  <2> QED
    BY <1>2, <1>3, <2>1 DEF Delivery!Next
<1>7. CASE CallNext
  BY <1>7 DEF CallNext, SendStep, BroadcastMessage, BroadcastPanics, EvictPanics, SendToClient,
     SendStep, SendFrom, SendTo, Lookup, SendFromConn, SendToConn, CheckConn, SendDeliver
<1>8. CASE DisconnectNext
  BY <1>8 DEF DisconnectNext, Disconnect, DisconnectLock, DisconnectPanics, DisconnectClose
<1>9. CASE StopNext
  BY <1>9 DEF StopNext, Cancel, StopBegin, StopProbe, StopCloseClient, StopReset, StopCloseChannel
<1> QED
  BY <1>4, <1>5, <1>6, <1>7, <1>8, <1>9 DEF Next

\* Broadcasts are written to every socket in the order in which the hub took
\* them and at most once: the hub implements OrderedDelivery.
THEOREM BroadcastsOrdered == Spec => OrderedBroadcasts
<1>1. Init => Delivery!Init
  BY DEF Init, Delivery!Init
<1> QED
  BY <1>1, Invariance, DeliveryStep, PTL DEF Spec, OrderedBroadcasts, Delivery!Spec
=============================================================================
