------------------------ MODULE RoomBroadcast_proofs ------------------------
(***************************************************************************)
(* Theorems about RoomBroadcast, for any set of clients and calls and any  *)
(* buffer size.                                                            *)
(***************************************************************************)
EXTENDS RoomBroadcast, TLAPS

USE NamesAssumption DEF roomVars, hubVars, chanVars, callVars, histVars

\* What Tail does to a buffer.
LEMMA TailFacts ==
  ASSUME NEW S, NEW s \in Seq(S), s # <<>>
  PROVE  /\ Len(s) \in Nat /\ Len(s) >= 1 /\ Head(s) = s[1] /\ Head(s) \in S
         /\ Tail(s) \in Seq(S) /\ Len(Tail(s)) = Len(s) - 1
         /\ \A i \in 1..Len(Tail(s)) : i + 1 \in 1..Len(s) /\ Tail(s)[i] = s[i + 1]
  OBVIOUS

\* What Append does to a buffer.
LEMMA AppendFacts ==
  ASSUME NEW S, NEW s \in Seq(S), NEW e \in S
  PROVE  /\ Append(s, e) \in Seq(S) /\ Len(s) \in Nat /\ Len(Append(s, e)) = Len(s) + 1
         /\ \A i \in 1..Len(s) : Append(s, e)[i] = s[i]
         /\ Append(s, e)[Len(s) + 1] = e
  OBVIOUS
-----------------------------------------------------------------------------
(* Types                                                                   *)

\* What TypeOK says of the buffers.
ChanTypes == /\ chan \in [Client -> Seq(Caller)] /\ open \in [Client -> BOOLEAN]
             /\ \A c \in Client : Len(chan[c]) <= ChanCap

\* The client that Run has in hand, if it has one.
InHand == hubPc \in {"unregister", "close", "rooms"} => hubClient \in Client

TypeInv == TypeOK /\ InHand

LEMMA TailTypes ==
  ASSUME ChanTypes, NEW c \in Client, chan[c] # <<>>,
         chan' = [chan EXCEPT ![c] = Tail(@)], open' = open
  PROVE  ChanTypes'
<1>1. Tail(chan[c]) \in Seq(Caller) /\ Len(Tail(chan[c])) <= ChanCap
  <2>1. chan[c] \in Seq(Caller) /\ Len(chan[c]) <= ChanCap
    BY DEF ChanTypes
  <2> QED
    BY <2>1, TailFacts
<1>2. chan' \in [Client -> Seq(Caller)]
  BY <1>1 DEF ChanTypes
<1> QED
  BY <1>1, <1>2 DEF ChanTypes

LEMMA SafeCloseTypes ==
  ASSUME ChanTypes, NEW c \in Client, SafeClose(c)
  PROVE  ChanTypes'
<1>1. CASE chan[c] = <<>>
  BY <1>1 DEF ChanTypes, SafeClose
<1>2. CASE chan[c] # <<>>
  BY <1>2, TailTypes DEF SafeClose
<1> QED
  BY <1>1, <1>2

LEMMA AppendTypes ==
  ASSUME ChanTypes, NEW c \in Client, NEW b \in Caller, ~Full(c),
         chan' = [chan EXCEPT ![c] = Append(@, b)], open' = open
  PROVE  ChanTypes'
<1>1. Append(chan[c], b) \in Seq(Caller) /\ Len(Append(chan[c], b)) <= ChanCap
  <2>1. chan[c] \in Seq(Caller) /\ Len(chan[c]) < ChanCap
    BY DEF ChanTypes, Full
  <2> QED
    BY <2>1, AppendFacts
<1>2. chan' \in [Client -> Seq(Caller)]
  BY <1>1 DEF ChanTypes
<1> QED
  BY <1>1, <1>2 DEF ChanTypes

LEMMA InitTypes == ASSUME Init PROVE TypeInv
<1>1. chan \in [Client -> Seq(Caller)] /\ \A c \in Client : Len(chan[c]) <= ChanCap
  BY DEF Init
<1> QED
  BY <1>1 DEF Init, TypeInv, TypeOK, InHand

LEMMA RoomTypes == ASSUME TypeInv, RoomNext PROVE TypeInv'
<1> USE DEF TypeInv, TypeOK, InHand
<1>1. CASE DeleteRoom
  BY <1>1 DEF DeleteRoom
<1>2. ASSUME NEW c \in Client, Join(c) PROVE TypeInv'
  <2>1. eligible' \in [Caller -> SUBSET Client]
    BY <1>2 DEF Join
  <2> QED
    BY <1>2, <2>1 DEF Join
<1>3. ASSUME NEW c \in Client, Leave(c) PROVE TypeInv'
  BY <1>3 DEF Leave
<1> QED
  BY <1>1, <1>2, <1>3 DEF RoomNext

LEMMA CallTypes ==
  ASSUME TypeInv, NEW b \in Caller, Lookup(b) \/ BroadcastToRoom(b) PROVE TypeInv'
<1> USE DEF TypeInv, TypeOK, InHand
<1>1. CASE Lookup(b)
  <2>1. Returned \subseteq Caller
    BY DEF Returned
  <2>2. /\ eligible' \in [Caller -> SUBSET Client] /\ before' \in [Caller -> SUBSET Caller]
        /\ pc' \in [Caller -> {"idle", "unknown", "found", "fanout", "returned"}]
    <3>1. CASE listed
      <4>1. /\ eligible' = [eligible EXCEPT ![b] = members] /\ before' = [before EXCEPT ![b] = Returned]
            /\ pc' = [pc EXCEPT ![b] = "found"]
        BY <1>1, <3>1 DEF Lookup
      <4>2. members \in SUBSET Client /\ Returned \in SUBSET Caller
        BY <2>1
      <4> QED
        BY <4>1, <4>2
    <3>2. CASE ~listed
      BY <1>1, <3>2 DEF Lookup
    <3> QED
      BY <3>1, <3>2
  <2> QED
    BY <1>1, <2>2 DEF Lookup
<1>2. CASE Snapshot(b)
  BY <1>2 DEF Snapshot, Members
<1>3. CASE Return(b)
  BY <1>3 DEF Return
<1>4. CASE EvictPanics(b)
  BY <1>4 DEF EvictPanics
<1>5. ASSUME NEW c \in Client, Send(b, c) PROVE TypeInv'
  <2>1. ChanTypes'
    <3>1. CASE open[c] /\ ~Full(c)
      BY <1>5, <3>1, AppendTypes DEF Send, ChanTypes
    <3>2. CASE ~(open[c] /\ ~Full(c))
      BY <1>5, <3>2 DEF Send, ChanTypes
    <3> QED
      BY <3>1, <3>2
  <2>2. targets' \in [Caller -> SUBSET Client]
    BY <1>5 DEF Send
  <2>3. failed' \in [Caller -> SUBSET Client]
    <3>1. failed' = failed \/ failed' = [failed EXCEPT ![b] = failed[b] \cup {c}]
      BY <1>5 DEF Send, Failed
    <3>2. failed[b] \cup {c} \in SUBSET Client
      BY <1>5
    <3> QED
      BY <3>1, <3>2
  <2> QED
    BY <1>5, <2>1, <2>2, <2>3 DEF Send, ChanTypes
<1> QED
  BY <1>1, <1>2, <1>3, <1>4, <1>5 DEF BroadcastToRoom

LEMMA RunTypes == ASSUME TypeInv, RunNext PROVE TypeInv'
<1> USE DEF TypeInv, TypeOK, InHand
<1>1. CASE RunRemove
  BY <1>1 DEF RunRemove
<1>2. CASE RunClose
  <2>1. ChanTypes'
    BY <1>2, SafeCloseTypes DEF RunClose, ChanTypes
  <2> QED
    BY <1>2, <2>1 DEF RunClose, ChanTypes
<1>3. CASE RunLeaveRooms
  BY <1>3 DEF RunLeaveRooms
<1>4. CASE RunLeave
  BY <1>4 DEF RunLeave
<1>5. ASSUME NEW c \in Client, RunUnregisterCleanup(c) PROVE TypeInv'
  BY <1>5 DEF RunUnregisterCleanup, Receive
<1>6. ASSUME NEW c \in Client, NEW b \in Caller, RunUnregisterEvict(b, c) PROVE TypeInv'
  BY <1>6 DEF RunUnregisterEvict, Receive
<1> QED
  BY <1>1, <1>2, <1>3, <1>4, <1>5, <1>6 DEF RunNext

LEMMA StopTypes == ASSUME TypeInv, StopBegin \/ StopNext PROVE TypeInv'
<1> USE DEF TypeInv, TypeOK, InHand
<1>1. CASE StopBegin
  BY <1>1 DEF StopBegin
<1>2. CASE StopReset
  BY <1>2 DEF StopReset
<1>3. CASE StopCloseChannels
  BY <1>3 DEF StopCloseChannels
<1>4. ASSUME NEW c \in Client, StopClose(c) PROVE TypeInv'
  <2>1. ChanTypes'
    BY <1>4, SafeCloseTypes DEF StopClose, ChanTypes
  <2> QED
    BY <1>4, <2>1 DEF StopClose, ChanTypes
<1> QED
  BY <1>1, <1>2, <1>3, <1>4 DEF StopNext

LEMMA ClientTypes == ASSUME TypeInv, ClientNext PROVE TypeInv'
<1> USE DEF TypeInv, TypeOK, InHand
<1>1. ASSUME NEW c \in Client, PumpWrite(c) PROVE TypeInv'
  <2>1. ChanTypes'
    BY <1>1, TailTypes DEF PumpWrite, ChanTypes
  <2>2. Head(chan[c]) \in Caller
    BY <1>1, TailFacts DEF PumpWrite
  <2>3. got' \in [Client -> [Caller -> Nat]]
    BY <1>1, <2>2 DEF PumpWrite
  <2> QED
    BY <1>1, <2>1, <2>3 DEF PumpWrite, ChanTypes
<1>2. ASSUME NEW c \in Client, PumpDrop(c) PROVE TypeInv'
  <2>1. ChanTypes'
    BY <1>2, TailTypes DEF PumpDrop, ChanTypes
  <2> QED
    BY <1>2, <2>1 DEF PumpDrop, ChanTypes
<1> QED
  BY <1>1, <1>2 DEF ClientNext

LEMMA TypeStep == ASSUME TypeInv, [Next]_vars PROVE TypeInv'
<1>1. CASE UNCHANGED vars
  BY <1>1 DEF vars, TypeInv, TypeOK, InHand
<1> QED
  BY <1>1, RoomTypes, CallTypes, RunTypes, StopTypes, ClientTypes DEF Next

LEMMA TypeInvariance == Spec => []TypeInv
<1> QED
  BY InitTypes, TypeStep, PTL DEF Spec

\* Every variable has its type and no buffer ever exceeds its capacity, with any
\* number of broadcasts that send to it at a time.
THEOREM RoomTypesCorrect == Spec => []TypeOK
<1>1. TypeInv => TypeOK
  BY DEF TypeInv
<1> QED
  BY <1>1, TypeInvariance, PTL
-----------------------------------------------------------------------------
(* Clients that missed a broadcast                                         *)

\* MissedEvicted is inductive with the types: a client passes from the fan-out
\* to the goroutine, to Run and out of the hub, and no step loses it.
LEMMA MissedStep == ASSUME TypeInv, MissedEvicted, [Next]_vars PROVE MissedEvicted'
<1> USE DEF TypeInv, TypeOK, MissedEvicted
<1>1. CASE UNCHANGED vars
  BY <1>1 DEF vars
<1>2. CASE RoomNext
  BY <1>2 DEF RoomNext, DeleteRoom, Join, Leave
<1>3. ASSUME NEW b \in Caller, Lookup(b) PROVE MissedEvicted'
  BY <1>3 DEF Lookup
<1>4. ASSUME NEW b \in Caller, Snapshot(b) PROVE MissedEvicted'
  BY <1>4 DEF Snapshot
<1>5. ASSUME NEW b \in Caller, Return(b) PROVE MissedEvicted'
  BY <1>5 DEF Return
<1>6. ASSUME NEW b \in Caller, EvictPanics(b) PROVE MissedEvicted'
  BY <1>6 DEF EvictPanics
<1>7. ASSUME NEW b \in Caller, NEW c \in Client, Send(b, c) PROVE MissedEvicted'
  <2>1. failed' = failed \/ failed' = [failed EXCEPT ![b] = failed[b] \cup {c}]
    BY <1>7 DEF Send, Failed
  <2>2. pc[b] = "fanout" /\ UNCHANGED <<pc, evict, hubPc, hubClient, registered, hub>>
    BY <1>7 DEF Send
  <2> QED
    BY <2>1, <2>2
<1>8. CASE RunRemove
  BY <1>8 DEF RunRemove
<1>9. CASE RunClose \/ RunLeaveRooms \/ RunLeave
  BY <1>9 DEF RunClose, RunLeaveRooms, RunLeave
<1>10. ASSUME NEW c \in Client, RunUnregisterCleanup(c) PROVE MissedEvicted'
  BY <1>10 DEF RunUnregisterCleanup, Receive
<1>11. ASSUME NEW c \in Client, NEW b \in Caller, RunUnregisterEvict(b, c) PROVE MissedEvicted'
  BY <1>11 DEF RunUnregisterEvict, Receive
<1>12. CASE StopBegin
  BY <1>12 DEF StopBegin
<1>13. CASE StopNext
  BY <1>13 DEF StopNext, StopReset, StopCloseChannels, StopClose
<1>14. CASE ClientNext
  BY <1>14 DEF ClientNext, PumpWrite, PumpDrop
<1> QED
  BY <1>1, <1>2, <1>3, <1>4, <1>5, <1>6, <1>7, <1>8, <1>9, <1>10, <1>11, <1>12, <1>13, <1>14
     DEF Next, BroadcastToRoom, RunNext

\* A client that missed a room broadcast is being evicted or out of the hub,
\* whoever else removes clients and whenever Stop comes.
THEOREM MissedClientsEvicted == Spec => []MissedEvicted
<1>1. Init => MissedEvicted
  BY DEF Init, MissedEvicted
<1> QED
  BY <1>1, MissedStep, TypeInvariance, PTL DEF Spec
-----------------------------------------------------------------------------
(* Delivery                                                                *)

\* What the calls know of the room.
CallInv ==
  /\ \A b \in Called : members \subseteq eligible[b]
  /\ \A b \in Caller : targets[b] \subseteq eligible[b]
  /\ \A b \in Caller : before[b] \subseteq Returned
  /\ \A b \in Caller : pc[b] # "fanout" => targets[b] = {}

\* What has been written to a socket: nothing twice, nothing that is still to be
\* sent, nothing of a call that has not begun its fan-out.
GotInv ==
  \A c \in Client, b \in Caller :
    /\ got[c][b] \in {0, 1}
    /\ got[c][b] # 0 => c \notin targets[b] /\ pc[b] \in {"fanout", "returned"}

\* What waits in a buffer q of c: sent once, to an eligible client, not written
\* yet, and in an order that agrees with the order of the calls.
QueueInv(c, q) ==
  /\ \A i \in 1..Len(q) :
       /\ c \in eligible[q[i]] /\ c \notin targets[q[i]] /\ got[c][q[i]] = 0
       /\ pc[q[i]] \in {"fanout", "returned"}
       /\ \A x \in Caller : got[c][x] # 0 => q[i] \notin before[x]
  /\ \A i, j \in 1..Len(q) : i < j => q[i] # q[j] /\ q[j] \notin before[q[i]]

IInv == TypeInv /\ CallInv /\ GotInv /\ \A c \in Client : QueueInv(c, chan[c])

LEMMA QueueTail ==
  ASSUME NEW c \in Client, NEW q \in Seq(Caller), q # <<>>, QueueInv(c, q)
  PROVE  QueueInv(c, Tail(q))
<1> DEFINE t == Tail(q)
<1>1. /\ Len(q) \in Nat /\ Len(t) = Len(q) - 1
      /\ \A i \in 1..Len(t) : i + 1 \in 1..Len(q) /\ t[i] = q[i + 1]
  BY TailFacts
<1> HIDE DEF t
<1>2. \A i, j \in 1..Len(t) : i < j => t[i] # t[j] /\ t[j] \notin before[t[i]]
  BY <1>1 DEF QueueInv
<1> QED
  BY <1>1, <1>2 DEF QueueInv, t

LEMMA InitDelivery == ASSUME Init PROVE IInv
<1>1. \A c \in Client : Len(chan[c]) = 0
  BY DEF Init
<1> QED
  BY <1>1, InitTypes DEF Init, IInv, CallInv, GotInv, QueueInv, Called

LEMMA RoomDelivers == ASSUME IInv, RoomNext PROVE IInv'
<1> USE DEF IInv, TypeInv, TypeOK
<1>1. UNCHANGED <<pc, targets, before, got, chan>>
  BY DEF RoomNext, DeleteRoom, Join, Leave
<1>2. \A b \in Caller : eligible[b] \subseteq eligible'[b]
  <2>1. ASSUME NEW c \in Client, Join(c), NEW b \in Caller
        PROVE  eligible'[b] = eligible[b] \/ eligible'[b] = eligible[b] \cup {c}
    BY <2>1 DEF Join
  <2>2. CASE \E c \in Client : Join(c)
    BY <2>1, <2>2
  <2>3. CASE eligible' = eligible
    BY <2>3
  <2> QED
    BY <2>2, <2>3 DEF RoomNext, DeleteRoom, Leave
<1>3. \A b \in Called' : members' \subseteq eligible'[b]
  BY <1>1 DEF RoomNext, DeleteRoom, Join, Leave, CallInv, Called
<1>4. TypeInv'
  BY RoomTypes
<1>5. CallInv' /\ GotInv'
  BY <1>1, <1>2, <1>3 DEF CallInv, GotInv, Returned
<1>6. ASSUME NEW c \in Client PROVE QueueInv(c, chan[c])'
  <2>1. \A i \in 1..Len(chan[c]) : chan[c][i] \in Caller
    OBVIOUS
  <2> QED
    BY <1>1, <1>2, <2>1 DEF QueueInv
<1> QED
  BY <1>4, <1>5, <1>6

\* A step that lets members go or takes messages out of buffers, and is neither
\* a step of a call nor a write.
LEMMA QuietDelivers ==
  ASSUME IInv, TypeInv', members' \subseteq members, UNCHANGED <<pc, targets, eligible, before, got>>,
         \A c \in Client : chan'[c] = chan[c] \/ (chan[c] # <<>> /\ chan'[c] = Tail(chan[c]))
  PROVE  IInv'
<1>1. CallInv' /\ GotInv'
  BY DEF IInv, CallInv, GotInv, Called, Returned
<1>2. ASSUME NEW c \in Client PROVE QueueInv(c, chan[c])'
  <2>1. chan[c] \in Seq(Caller) /\ QueueInv(c, chan[c])
    BY DEF IInv, TypeInv, TypeOK
  <2>2. QueueInv(c, chan'[c])
    BY <2>1, QueueTail
  <2> QED
    BY <2>2 DEF QueueInv
<1> QED
  BY <1>1, <1>2 DEF IInv

LEMMA SafeCloseTakes ==
  ASSUME TypeOK, NEW c \in Client, SafeClose(c)
  PROVE  \A k \in Client : chan'[k] = chan[k] \/ (chan[k] # <<>> /\ chan'[k] = Tail(chan[k]))
<1> QED
  BY DEF SafeClose, TypeOK

LEMMA RunDelivers == ASSUME IInv, RunNext PROVE IInv'
<1> DEFINE Taken == \A c \in Client : chan'[c] = chan[c] \/ (chan[c] # <<>> /\ chan'[c] = Tail(chan[c]))
<1>1. TypeOK /\ TypeInv' /\ InHand
  BY RunTypes DEF IInv, TypeInv
<1>2. UNCHANGED <<pc, targets, eligible, before, got>> /\ members' \subseteq members
  BY DEF RunNext, RunRemove, RunClose, RunLeaveRooms, RunLeave, RunUnregisterCleanup, RunUnregisterEvict
<1>3. Taken
  <2>1. CASE RunClose
    BY <1>1, <2>1, SafeCloseTakes DEF RunClose, InHand
  <2>2. CASE ~RunClose
    BY <2>2 DEF RunNext, RunRemove, RunLeaveRooms, RunLeave, RunUnregisterCleanup, RunUnregisterEvict
  <2> QED
    BY <2>1, <2>2
<1> QED
  BY <1>1, <1>2, <1>3, QuietDelivers

LEMMA StopDelivers == ASSUME IInv, StopBegin \/ StopNext PROVE IInv'
<1> DEFINE Taken == \A c \in Client : chan'[c] = chan[c] \/ (chan[c] # <<>> /\ chan'[c] = Tail(chan[c]))
<1>1. TypeOK /\ TypeInv'
  BY StopTypes DEF IInv, TypeInv
<1>2. UNCHANGED <<pc, targets, eligible, before, got, members>>
  BY DEF StopBegin, StopNext, StopReset, StopCloseChannels, StopClose
<1>3. Taken
  <2>1. ASSUME NEW c \in Client, StopClose(c) PROVE Taken
    BY <1>1, <2>1, SafeCloseTakes DEF StopClose
  <2>2. CASE StopBegin \/ StopReset \/ StopCloseChannels
    BY <2>2 DEF StopBegin, StopReset, StopCloseChannels
  <2> QED
    BY <2>1, <2>2 DEF StopNext
<1> QED
  BY <1>1, <1>2, <1>3, QuietDelivers

LEMMA ClientDelivers == ASSUME IInv, ClientNext PROVE IInv'
<1> USE DEF IInv, TypeInv, TypeOK
<1>1. TypeInv'
  BY ClientTypes
<1>2. ASSUME NEW c \in Client, PumpDrop(c) PROVE IInv'
  <2>1. \A k \in Client : chan'[k] = chan[k] \/ (chan[k] # <<>> /\ chan'[k] = Tail(chan[k]))
    BY <1>2 DEF PumpDrop
  <2> QED
    BY <1>1, <1>2, <2>1, QuietDelivers DEF PumpDrop
<1>3. ASSUME NEW c \in Client, PumpWrite(c) PROVE IInv'
  <2> DEFINE b == Head(chan[c])
             t == Tail(chan[c])
  <2>1. /\ chan[c] \in Seq(Caller) /\ chan[c] # <<>> /\ QueueInv(c, chan[c])
        /\ UNCHANGED <<pc, targets, eligible, before, members>>
        /\ chan' = [chan EXCEPT ![c] = t]
        /\ got' = [got EXCEPT ![c][b] = @ + 1]
    BY <1>3 DEF PumpWrite
  <2>2. /\ Len(chan[c]) \in Nat /\ Len(chan[c]) >= 1 /\ b = chan[c][1] /\ b \in Caller
        /\ t \in Seq(Caller) /\ Len(t) = Len(chan[c]) - 1
        /\ \A i \in 1..Len(t) : i + 1 \in 1..Len(chan[c]) /\ t[i] = chan[c][i + 1]
    BY <2>1, TailFacts
  <2> HIDE DEF b, t
  <2>3. c \notin targets[b] /\ pc[b] \in {"fanout", "returned"} /\ got[c][b] = 0
    BY <2>1, <2>2 DEF QueueInv
  <2>4. /\ \A x \in Caller : got'[c][x] = IF x = b THEN 1 ELSE got[c][x]
        /\ \A k \in Client : k # c => got'[k] = got[k] /\ chan'[k] = chan[k]
        /\ chan'[c] = t
    BY <2>1, <2>2, <2>3
  <2>5. CallInv' /\ GotInv'
    BY <2>1, <2>2, <2>3, <2>4 DEF CallInv, GotInv, Called, Returned
  <2>6. QueueInv(c, t)
    BY <2>1, QueueTail DEF t
  <2>7. \A i \in 1..Len(t) : t[i] # b /\ t[i] \notin before[b] /\ t[i] \in Caller
    <3>1. ASSUME NEW i \in 1..Len(t) PROVE t[i] # b /\ t[i] \notin before[b] /\ t[i] \in Caller
      <4>1. 1 \in 1..Len(chan[c]) /\ i + 1 \in 1..Len(chan[c]) /\ 1 < i + 1 /\ t[i] = chan[c][i + 1]
        BY <2>2
      <4>2. chan[c][1] # chan[c][i + 1] /\ chan[c][i + 1] \notin before[chan[c][1]]
        BY <2>1, <4>1 DEF QueueInv
      <4> QED
        BY <2>2, <4>1, <4>2
    <3> QED
      BY <3>1
  <2>8. QueueInv(c, chan[c])'
    BY <2>1, <2>4, <2>6, <2>7 DEF QueueInv
  <2>9. ASSUME NEW k \in Client, k # c PROVE QueueInv(k, chan[k])'
    BY <2>1, <2>4, <2>9 DEF QueueInv
  <2> QED
    BY <1>1, <2>5, <2>8, <2>9
<1> QED
  BY <1>2, <1>3 DEF ClientNext

\* A buffer that a step leaves alone, of calls that keep what they know.
LEMMA QueueKeep ==
  ASSUME NEW c \in Client, NEW q \in Seq(Caller), QueueInv(c, q), GotInv, UNCHANGED got,
         \A x \in Caller : pc[x] \in {"fanout", "returned"} =>
           /\ eligible'[x] = eligible[x] /\ targets'[x] \subseteq targets[x] /\ before'[x] = before[x]
           /\ pc'[x] \in {"fanout", "returned"}
  PROVE  QueueInv(c, q)'
<1>1. \A i \in 1..Len(q) : q[i] \in Caller
  OBVIOUS
<1>2. ASSUME NEW i \in 1..Len(q)
      PROVE  /\ c \in eligible'[q[i]] /\ c \notin targets'[q[i]] /\ got'[c][q[i]] = 0
             /\ pc'[q[i]] \in {"fanout", "returned"}
             /\ \A x \in Caller : got'[c][x] # 0 => q[i] \notin before'[x]
  <2>1. /\ q[i] \in Caller /\ c \in eligible[q[i]] /\ c \notin targets[q[i]] /\ got[c][q[i]] = 0
        /\ pc[q[i]] \in {"fanout", "returned"}
        /\ \A x \in Caller : got[c][x] # 0 => q[i] \notin before[x]
    BY <1>1 DEF QueueInv
  <2> QED
    BY <2>1 DEF GotInv
<1>3. ASSUME NEW i \in 1..Len(q), NEW j \in 1..Len(q), i < j
      PROVE  q[i] # q[j] /\ q[j] \notin before'[q[i]]
  BY <1>1, <1>3 DEF QueueInv
<1> QED
  BY <1>2, <1>3 DEF QueueInv

\* The copy of the members is made after they were found eligible; a message is
\* sent at most once; a call that has returned is before all that begin now.
LEMMA CallDelivers ==
  ASSUME IInv, NEW b \in Caller, Lookup(b) \/ BroadcastToRoom(b) PROVE IInv'
<1>1. TypeInv'
  BY CallTypes DEF IInv
<1>2. /\ CallInv /\ GotInv
      /\ \A c \in Client : QueueInv(c, chan[c]) /\ chan[c] \in Seq(Caller)
      /\ pc \in [Caller -> {"idle", "unknown", "found", "fanout", "returned"}]
      /\ targets \in [Caller -> SUBSET Client] /\ eligible \in [Caller -> SUBSET Client]
      /\ before \in [Caller -> SUBSET Caller] /\ chan \in [Client -> Seq(Caller)]
  BY DEF IInv, TypeInv, TypeOK
<1>3. CASE Lookup(b)
  <2>1. /\ pc[b] = "idle" /\ UNCHANGED <<members, targets, chan, got>>
        /\ \A x \in Caller : x # b => pc'[x] = pc[x] /\ eligible'[x] = eligible[x] /\ before'[x] = before[x]
    BY <1>2, <1>3 DEF Lookup
  <2>2. \/ pc'[b] = "unknown" /\ eligible'[b] = eligible[b] /\ before'[b] = before[b]
        \/ pc'[b] = "found" /\ eligible'[b] = members /\ before'[b] = Returned
    BY <1>2, <1>3 DEF Lookup
  <2>3. targets[b] = {}
    BY <1>2, <2>1 DEF CallInv
  <2>4. Returned' = Returned
    BY <2>1, <2>2 DEF Returned
  <2>5. CallInv'
    BY <1>2, <2>1, <2>2, <2>3, <2>4 DEF CallInv, Called
  <2>6. GotInv'
    BY <1>2, <2>1, <2>2 DEF GotInv
  <2>7. \A c \in Client : QueueInv(c, chan[c])'
    <3>1. \A x \in Caller : pc[x] \in {"fanout", "returned"} =>
            /\ eligible'[x] = eligible[x] /\ targets'[x] \subseteq targets[x] /\ before'[x] = before[x]
            /\ pc'[x] \in {"fanout", "returned"}
      BY <2>1
    <3>2. ASSUME NEW c \in Client PROVE QueueInv(c, chan[c])'
      <4>1. /\ QueueInv(c, chan'[c]) /\ chan'[c] \in Seq(Caller)
        BY <1>2, <2>1
      <4> QED
        BY <1>2, <2>1, <3>1, <4>1, QueueKeep DEF QueueInv
    <3> QED
      BY <3>2
  <2> QED
    BY <1>1, <2>5, <2>6, <2>7 DEF IInv
<1>4. CASE Snapshot(b)
  <2>1. /\ pc[b] = "found" /\ UNCHANGED <<members, eligible, before, chan, got>>
        /\ \A x \in Caller : x # b => pc'[x] = pc[x] /\ targets'[x] = targets[x]
    BY <1>2, <1>4 DEF Snapshot
  <2>2. \/ pc'[b] = "fanout" /\ targets'[b] = members
        \/ pc'[b] = "returned" /\ targets'[b] = targets[b]
    BY <1>2, <1>4 DEF Snapshot, Members
  <2>3. /\ targets[b] = {} /\ members \subseteq eligible[b]
        /\ \A c \in Client : got[c][b] = 0
    BY <1>2, <2>1 DEF CallInv, GotInv, Called
  <2>4. Returned \subseteq Returned' /\ Called' \subseteq Called
    BY <2>1, <2>2 DEF Returned, Called
  <2>5. CallInv'
    BY <1>2, <2>1, <2>2, <2>3, <2>4 DEF CallInv
  <2>6. GotInv'
    BY <1>2, <2>1, <2>2, <2>3 DEF GotInv
  <2>7. \A c \in Client : QueueInv(c, chan[c])'
    <3>1. \A x \in Caller : pc[x] \in {"fanout", "returned"} =>
            targets'[x] = targets[x] /\ pc'[x] = pc[x]
      BY <2>1
    <3> QED
      BY <1>2, <2>1, <3>1, QueueKeep DEF QueueInv
  <2> QED
    BY <1>1, <2>5, <2>6, <2>7 DEF IInv
<1>5. CASE Return(b)
  <2>1. /\ pc[b] = "fanout" /\ targets[b] = {} /\ UNCHANGED <<members, targets, eligible, before, chan, got>>
        /\ pc'[b] = "returned" /\ \A x \in Caller : x # b => pc'[x] = pc[x]
    BY <1>2, <1>5 DEF Return
  <2>2. Returned \subseteq Returned' /\ Called' \subseteq Called
    BY <2>1 DEF Returned, Called
  <2>3. CallInv'
    BY <1>2, <2>1, <2>2 DEF CallInv
  <2>4. GotInv'
    BY <1>2, <2>1 DEF GotInv
  <2>5. \A x \in Caller : pc[x] \in {"fanout", "returned"} => pc'[x] \in {"fanout", "returned"}
    BY <2>1
  <2>6. \A c \in Client : QueueInv(c, chan[c])'
    BY <1>2, <2>1, <2>5, QueueKeep DEF QueueInv
  <2> QED
    BY <1>1, <2>3, <2>4, <2>6 DEF IInv
<1>6. CASE EvictPanics(b)
  BY <1>1, <1>6, QuietDelivers DEF EvictPanics
<1>7. ASSUME NEW c \in Client, Send(b, c) PROVE IInv'
  <2>1. /\ pc[b] = "fanout" /\ c \in targets[b] /\ UNCHANGED <<members, pc, eligible, before, got>>
        /\ targets' = [targets EXCEPT ![b] = targets[b] \ {c}]
        /\ chan' = chan \/ chan' = [chan EXCEPT ![c] = Append(chan[c], b)]
    BY <1>7 DEF Send
  <2>2. /\ targets'[b] = targets[b] \ {c}
        /\ \A x \in Caller : x # b => targets'[x] = targets[x]
    BY <1>2, <2>1
  <2>3. /\ c \in eligible[b] /\ got[c][b] = 0
        /\ \A x \in Caller : b \notin before[x]
    BY <1>2, <2>1 DEF CallInv, GotInv, Returned
  <2>4. CallInv'
    BY <1>2, <2>1, <2>2 DEF CallInv, Called, Returned
  <2>5. GotInv'
    BY <1>2, <2>1, <2>2 DEF GotInv
  <2>6. \A k \in Client : QueueInv(k, chan[k]) /\ chan[k] \in Seq(Caller)
    BY <1>2
  <2>7. \A x \in Caller : targets'[x] \subseteq targets[x]
    BY <2>2
  <2>8. ASSUME NEW k \in Client, chan'[k] = chan[k] PROVE QueueInv(k, chan[k])'
    <3>1. QueueInv(k, chan'[k]) /\ chan'[k] \in Seq(Caller)
      BY <2>6, <2>8
    <3> QED
      BY <1>2, <2>1, <2>7, <3>1, QueueKeep DEF QueueInv
  <2>9. CASE chan' = [chan EXCEPT ![c] = Append(chan[c], b)]
    <3> DEFINE q == chan[c]
               s == Append(q, b)
    <3>1. /\ Len(q) \in Nat /\ Len(s) = Len(q) + 1
          /\ \A i \in 1..Len(q) : s[i] = q[i]
          /\ s[Len(q) + 1] = b
      BY <2>6, AppendFacts
    <3>2. chan'[c] = s /\ \A k \in Client : k # c => chan'[k] = chan[k]
      BY <1>2, <2>9
    <3>3. /\ QueueInv(c, q) /\ q \in Seq(Caller)
          /\ \A i \in 1..Len(q) : q[i] \in Caller /\ q[i] # b
      <4>1. QueueInv(c, q) /\ q \in Seq(Caller)
        BY <2>6
      <4>2. \A i \in 1..Len(q) : q[i] \in Caller
        BY <4>1
      <4>3. \A i \in 1..Len(q) : c \notin targets[q[i]]
        BY <4>1 DEF QueueInv
      <4> QED
        BY <2>1, <4>1, <4>2, <4>3
    <3> HIDE DEF q, s
    <3>4. ASSUME NEW i \in 1..Len(q)
          PROVE  /\ c \in eligible[q[i]] /\ c \notin targets'[q[i]] /\ got[c][q[i]] = 0
                 /\ pc[q[i]] \in {"fanout", "returned"}
                 /\ \A x \in Caller : got[c][x] # 0 => q[i] \notin before[x]
      <4>1. /\ c \in eligible[q[i]] /\ c \notin targets[q[i]] /\ got[c][q[i]] = 0
            /\ pc[q[i]] \in {"fanout", "returned"}
            /\ \A x \in Caller : got[c][x] # 0 => q[i] \notin before[x]
        BY <3>3 DEF QueueInv
      <4>2. q[i] \in Caller /\ q[i] # b
        BY <3>3
      <4> QED
        BY <2>7, <4>1, <4>2
    <3>5. \A i, j \in 1..Len(q) : i < j => q[i] # q[j] /\ q[j] \notin before[q[i]]
      BY <3>3 DEF QueueInv
    <3>6. ASSUME NEW i \in 1..Len(s)
          PROVE  /\ c \in eligible[s[i]] /\ c \notin targets'[s[i]] /\ got[c][s[i]] = 0
                 /\ pc[s[i]] \in {"fanout", "returned"}
                 /\ \A x \in Caller : got[c][x] # 0 => s[i] \notin before[x]
      <4>1. CASE i \in 1..Len(q)
        <5>1. s[i] = q[i]
          BY <3>1, <4>1
        <5> QED
          BY <3>4, <4>1, <5>1
      <4>2. CASE i = Len(q) + 1
        <5>1. s[i] = b
          BY <3>1, <4>2
        <5> QED
          BY <2>1, <2>2, <2>3, <5>1
      <4> QED
        BY <3>1, <4>1, <4>2
    <3>7. ASSUME NEW i \in 1..Len(s), NEW j \in 1..Len(s), i < j
          PROVE  s[i] # s[j] /\ s[j] \notin before[s[i]]
      <4>1. i \in 1..Len(q) /\ s[i] = q[i] /\ q[i] \in Caller /\ q[i] # b
        <5>1. i \in 1..Len(q)
          BY <3>1, <3>7
        <5> QED
          BY <3>1, <3>3, <5>1
      <4>2. CASE j \in 1..Len(q)
        <5>1. s[j] = q[j]
          BY <3>1, <4>2
        <5> QED
          BY <3>5, <3>7, <4>1, <4>2, <5>1
      <4>3. CASE j = Len(q) + 1
        <5>1. s[j] = b
          BY <3>1, <4>3
        <5> QED
          BY <2>3, <4>1, <5>1
      <4> QED
        BY <3>1, <4>2, <4>3
    <3>8. QueueInv(c, chan[c])'
      BY <2>1, <3>2, <3>6, <3>7 DEF QueueInv
    <3> QED
      BY <1>1, <2>4, <2>5, <2>8, <3>2, <3>8 DEF IInv
  <2>10. CASE chan' = chan
    BY <1>1, <2>4, <2>5, <2>8, <2>10 DEF IInv
  <2> QED
    BY <2>1, <2>9, <2>10
<1> QED
  BY <1>3, <1>4, <1>5, <1>6, <1>7 DEF BroadcastToRoom

LEMMA DeliveryInvariant == ASSUME IInv, [Next]_vars PROVE IInv'
<1>1. CASE UNCHANGED vars
  <2>1. TypeInv'
    BY <1>1, TypeStep DEF IInv
  <2> QED
    BY <1>1, <2>1, QuietDelivers DEF vars
<1> QED
  BY <1>1, RoomDelivers, CallDelivers, RunDelivers, StopDelivers, ClientDelivers DEF Next

\* Every step is a step of RoomDelivery or leaves its variables as they are.
LEMMA DeliveryStep == ASSUME IInv, [Next]_vars PROVE [Delivery!Next]_(Delivery!vars)
<1> DEFINE status == [b \in Caller |-> IF b \in Called THEN "called"
                                       ELSE IF pc[b] = "returned" THEN "returned" ELSE "idle"]
<1> USE DEF Delivery!Next, Delivery!vars, Called
<1>1. ASSUME NEW c \in Client, Join(c) PROVE Delivery!Join(c)
  BY <1>1 DEF Join, Delivery!Join
<1>2. ASSUME NEW c \in Client, Leave(c) PROVE Delivery!Leave(c)
  BY <1>2 DEF Leave, Delivery!Leave
<1>3. ASSUME NEW b \in Caller, Lookup(b) PROVE Delivery!Call(b) \/ UNCHANGED Delivery!vars
  <2>1. CASE listed
    <3>1. Returned = {x \in Caller : status[x] = "returned"}
      BY DEF Returned
    <3>2. status' = [status EXCEPT ![b] = "called"] /\ status[b] = "idle"
      BY <1>3, <2>1 DEF Lookup, IInv, TypeInv, TypeOK
    <3> QED
      BY <1>3, <2>1, <3>1, <3>2 DEF Lookup, Delivery!Call
  <2>2. CASE ~listed
    <3>1. status' = status
      BY <1>3, <2>2 DEF Lookup, IInv, TypeInv, TypeOK
    <3> QED
      BY <1>3, <2>2, <3>1 DEF Lookup
  <2> QED
    BY <2>1, <2>2
<1>4. ASSUME NEW b \in Caller, Snapshot(b) PROVE Delivery!Return(b) \/ UNCHANGED Delivery!vars
  <2>1. /\ status[b] = "called"
        /\ status' = status \/ status' = [status EXCEPT ![b] = "returned"]
    BY <1>4 DEF Snapshot, IInv, TypeInv, TypeOK
  <2> QED
    BY <1>4, <2>1 DEF Snapshot, Delivery!Return
<1>5. ASSUME NEW b \in Caller, Return(b) PROVE Delivery!Return(b)
  <2>1. status[b] = "called" /\ status' = [status EXCEPT ![b] = "returned"]
    BY <1>5 DEF Return, IInv, TypeInv, TypeOK
  <2> QED
    BY <1>5, <2>1 DEF Return, Delivery!Return
<1>6. ASSUME NEW c \in Client, PumpWrite(c) PROVE Delivery!Deliver(Head(chan[c]), c) /\ Head(chan[c]) \in Caller
  <2>1. chan[c] \in Seq(Caller) /\ chan[c] # <<>> /\ QueueInv(c, chan[c]) /\ got \in [Client -> [Caller -> Nat]]
    BY <1>6 DEF PumpWrite, IInv, TypeInv, TypeOK
  <2>2. Head(chan[c]) \in Caller /\ Head(chan[c]) = chan[c][1] /\ 1 \in 1..Len(chan[c])
    BY <2>1, TailFacts
  <2>3. /\ c \in eligible[Head(chan[c])] /\ got[c][Head(chan[c])] = 0
        /\ \A x \in Caller : got[c][x] # 0 => Head(chan[c]) \notin before[x]
    BY <2>1, <2>2 DEF QueueInv
  <2>4. got' = [got EXCEPT ![c][Head(chan[c])] = 1]
    BY <1>6, <2>1, <2>2, <2>3 DEF PumpWrite
  <2> QED
    BY <1>6, <2>2, <2>3, <2>4 DEF PumpWrite, Delivery!Deliver
<1>7. CASE RunNext
  <2>1. CASE RunLeaveRooms
    <3>1. hubClient \in Client
      BY <2>1 DEF RunLeaveRooms, IInv, TypeInv, InHand
    <3>2. Delivery!Leave(hubClient) \/ UNCHANGED Delivery!vars
      BY <2>1 DEF RunLeaveRooms, Delivery!Leave
    <3> QED
      BY <3>1, <3>2
  <2>2. CASE ~RunLeaveRooms
    BY <1>7, <2>2 DEF RunNext, RunRemove, RunClose, RunLeave, RunUnregisterCleanup, RunUnregisterEvict
  <2> QED
    BY <2>1, <2>2
<1>8. CASE StopBegin \/ StopNext
  BY <1>8 DEF StopBegin, StopNext, StopReset, StopCloseChannels, StopClose
<1>9. ASSUME NEW b \in Caller, EvictPanics(b) \/ \E c \in Client : Send(b, c) PROVE UNCHANGED Delivery!vars
  BY <1>9 DEF EvictPanics, Send
<1>10. ASSUME NEW c \in Client, PumpDrop(c) PROVE UNCHANGED Delivery!vars
  BY <1>10 DEF PumpDrop
<1>11. CASE DeleteRoom
  BY <1>11 DEF DeleteRoom
<1>12. CASE UNCHANGED vars
  BY <1>12 DEF vars
<1> QED
  BY <1>1, <1>2, <1>3, <1>4, <1>5, <1>6, <1>7, <1>8, <1>9, <1>10, <1>11, <1>12
     DEF Next, RoomNext, BroadcastToRoom, ClientNext

\* BroadcastToRoom implements RoomDelivery: whatever joins, leaves, evictions and
\* Stop come between, a client is written a broadcast at most once, only if it
\* was a member during the call, and never after a later call.
THEOREM DeliveredOnlyToMembers == Spec => DeliveredToMembers
<1>1. Init => Delivery!Init
  <2>1. ASSUME Init
        PROVE [b \in Caller |-> IF b \in Called THEN "called"
                                ELSE IF pc[b] = "returned" THEN "returned" ELSE "idle"]
              = [b \in Caller |-> "idle"]
    BY <2>1 DEF Init, Called
  <2> QED
    BY <2>1 DEF Init, Delivery!Init
<1> QED
  BY <1>1, InitDelivery, DeliveryInvariant, DeliveryStep, PTL DEF Spec, DeliveredToMembers, Delivery!Spec
=============================================================================
