---------------------------- MODULE RoomBroadcast ----------------------------
(***************************************************************************)
(* BroadcastToRoom: any number of goroutines send to the members of one    *)
(* room, each from a copy of the members it made itself and without a lock,*)
(* while clients join and leave, the room is deleted, Run removes clients  *)
(* and closes their channels, and the hub is stopped.  Clients that are    *)
(* full or closed are evicted by a goroutine of their broadcast.  Of Hub   *)
(* and Rooms what meets here is kept: h.Clients, the removal of a client,  *)
(* and one room.                                                           *)
(***************************************************************************)
EXTENDS Naturals, Sequences

CONSTANTS
  Client, Caller,
  ChanCap,    \* MessageChanBufSize
  NoClient

ASSUME NamesAssumption == NoClient \notin Client /\ ChanCap \in Nat \ {0}

VARIABLES
  listed, members,                \* the room: whether Rooms has it, its clients
  registered, hub,                \* h.Clients; Stop
  hubPc, hubClient, closing,      \* Run, and the clients Stop has still to close
  leaving,                        \* the clients whose reader has not removed them yet
  chan, open,                     \* the MessageChan of each client
  pc, targets, failed, evict,     \* of each call; its eviction goroutine
  eligible, before, got           \* history: see RoomDelivery

roomVars   == <<listed, members>>
hubVars    == <<registered, hub, hubPc, hubClient, closing>>
chanVars   == <<chan, open>>
callVars   == <<pc, targets, failed>>
histVars   == <<eligible, before, got>>
vars == <<roomVars, hubVars, leaving, chanVars, callVars, evict, histVars>>

Init ==
  /\ listed = TRUE /\ members = {}
  /\ registered = Client /\ hub = "runs" /\ hubPc = "select" /\ hubClient = NoClient /\ closing = {}
  /\ leaving = Client
  /\ chan = [c \in Client |-> <<>>] /\ open = [c \in Client |-> TRUE]
  /\ pc = [b \in Caller |-> "idle"] /\ targets = [b \in Caller |-> {}]
  /\ failed = [b \in Caller |-> {}] /\ evict = [b \in Caller |-> {}]
  /\ eligible = [b \in Caller |-> {}] /\ before = [b \in Caller |-> {}]
  /\ got = [c \in Client |-> [b \in Caller |-> 0]]

Called == {b \in Caller : pc[b] \in {"found", "fanout"}}
Returned == {b \in Caller : pc[b] = "returned"}
-----------------------------------------------------------------------------
(* The room                                                                *)

\* JoinRoom may have found the room before it was deleted.
Join(c) ==
  /\ members' = members \cup {c}
  /\ eligible' = [b \in Caller |-> IF b \in Called THEN eligible[b] \cup {c} ELSE eligible[b]]
  /\ UNCHANGED <<listed, hubVars, leaving, chanVars, callVars, evict, before, got>>

\* LeaveRoom, or DeleteRoom on its way through the members.
Leave(c) ==
  /\ c \in members /\ members' = members \ {c}
  /\ UNCHANGED <<listed, hubVars, leaving, chanVars, callVars, evict, histVars>>

DeleteRoom ==
  /\ listed /\ listed' = FALSE
  /\ UNCHANGED <<members, hubVars, leaving, chanVars, callVars, evict, histVars>>
-----------------------------------------------------------------------------
(* BroadcastToRoom and broadcastToClients                                  *)

Lookup(b) ==
  /\ pc[b] = "idle"
  /\ pc' = [pc EXCEPT ![b] = IF listed THEN "found" ELSE "unknown"]
  /\ IF listed THEN /\ eligible' = [eligible EXCEPT ![b] = members]
                    /\ before' = [before EXCEPT ![b] = Returned]
               ELSE UNCHANGED <<eligible, before>>
  /\ UNCHANGED <<roomVars, hubVars, leaving, chanVars, targets, failed, evict, got>>

AllClients == registered    \* mutant: the copy is made of h.Clients
Members == members

Snapshot(b) ==
  /\ pc[b] = "found"
  /\ \/ /\ pc' = [pc EXCEPT ![b] = "fanout"]
        /\ targets' = [targets EXCEPT ![b] = Members]
     \/ /\ pc' = [pc EXCEPT ![b] = "returned"]    \* a message without RawData
        /\ UNCHANGED targets
  /\ UNCHANGED <<roomVars, hubVars, leaving, chanVars, failed, evict, histVars>>

FullLate(c) == Len(chan[c]) > ChanCap    \* mutant: one message too many
Full(c) == Len(chan[c]) >= ChanCap

Failed(b, c) == failed' = [failed EXCEPT ![b] = @ \cup {c}]

\* The clients are visited in map order.  A full channel takes the default, a
\* send on a closed one panics and is recovered.
Send(b, c) ==
  /\ pc[b] = "fanout" /\ c \in targets[b]
  /\ targets' = [targets EXCEPT ![b] = @ \ {c}]
  /\ IF open[c] /\ ~Full(c)
     THEN chan' = [chan EXCEPT ![c] = Append(@, b)] /\ UNCHANGED failed
     ELSE Failed(b, c) /\ UNCHANGED chan
  /\ UNCHANGED <<roomVars, hubVars, leaving, open, pc, evict, histVars>>

Return(b) ==
  /\ pc[b] = "fanout" /\ targets[b] = {}
  /\ pc' = [pc EXCEPT ![b] = "returned"]
  /\ evict' = [evict EXCEPT ![b] = failed[b]]
  /\ UNCHANGED <<roomVars, hubVars, leaving, chanVars, targets, failed, histVars>>

\* RemoveClient panics once Unregister is closed, which ends the goroutine.
EvictPanics(b) ==
  /\ evict[b] # {} /\ hub = "stopped"
  /\ evict' = [evict EXCEPT ![b] = {}]
  /\ UNCHANGED <<roomVars, hubVars, leaving, chanVars, callVars, histVars>>
-----------------------------------------------------------------------------
(* Run and Stop                                                            *)

SafeClose(c) ==
  IF chan[c] # <<>> THEN chan' = [chan EXCEPT ![c] = Tail(@)] /\ UNCHANGED open
                    ELSE open' = [open EXCEPT ![c] = FALSE] /\ UNCHANGED chan

Receive(c) ==
  /\ hubPc = "select" /\ hub # "stopped"
  /\ hubPc' = "unregister" /\ hubClient' = c
  /\ UNCHANGED <<registered, hub, closing>>

RunUnregisterFirst(b, c) ==    \* mutant: the goroutine ends after one client
  /\ c \in evict[b] /\ Receive(c)
  /\ evict' = [evict EXCEPT ![b] = {}]
  /\ UNCHANGED <<roomVars, leaving, chanVars, callVars, histVars>>

\* The goroutine of a broadcast hands its clients over one at a time.
RunUnregisterEvict(b, c) ==
  /\ c \in evict[b] /\ Receive(c)
  /\ evict' = [evict EXCEPT ![b] = @ \ {c}]
  /\ UNCHANGED <<roomVars, leaving, chanVars, callVars, histVars>>

\* cleanupClient, once, whenever the reader of the client has ended.
RunUnregisterCleanup(c) ==
  /\ c \in leaving /\ Receive(c)
  /\ leaving' = leaving \ {c}
  /\ UNCHANGED <<roomVars, chanVars, callVars, evict, histVars>>

RunRemove ==
  /\ hubPc = "unregister"
  /\ registered' = registered \ {hubClient}
  /\ IF hubClient \in registered THEN hubPc' = "close" /\ UNCHANGED hubClient
                                 ELSE hubPc' = "select" /\ hubClient' = NoClient
  /\ UNCHANGED <<roomVars, hub, closing, leaving, chanVars, callVars, evict, histVars>>

\* With h.mu, which Stop holds while it closes.
RunClose ==
  /\ hubPc = "close" /\ hub # "closing"
  /\ SafeClose(hubClient)
  /\ hubPc' = "rooms"
  /\ UNCHANGED <<roomVars, registered, hub, hubClient, closing, leaving, callVars, evict, histVars>>

\* removeClientFromAllRoomsUnsafe lists the rooms of the client by name and looks
\* them up by id: it leaves this one only if name and id are the same.
RunLeaveRooms ==
  /\ hubPc = "rooms"
  /\ \/ listed /\ members' = members \ {hubClient}
     \/ UNCHANGED members
  /\ hubPc' = "select" /\ hubClient' = NoClient
  /\ UNCHANGED <<listed, registered, hub, closing, leaving, chanVars, callVars, evict, histVars>>

RunLeave ==
  /\ hubPc = "select" /\ hub = "stopped"
  /\ hubPc' = "ended"
  /\ UNCHANGED <<roomVars, registered, hub, hubClient, closing, leaving, chanVars, callVars, evict, histVars>>

StopBegin ==
  /\ hub = "runs"
  /\ hub' = "closing" /\ closing' = registered
  /\ UNCHANGED <<roomVars, registered, hubPc, hubClient, leaving, chanVars, callVars, evict, histVars>>

StopClose(c) ==
  /\ c \in closing /\ closing' = closing \ {c}
  /\ SafeClose(c)
  /\ UNCHANGED <<roomVars, registered, hub, hubPc, hubClient, leaving, callVars, evict, histVars>>

\* Clients and Rooms are replaced by empty collections, h.mu is released.
StopReset ==
  /\ hub = "closing" /\ closing = {}
  /\ registered' = {} /\ listed' = FALSE
  /\ hub' = "reset"
  /\ UNCHANGED <<members, hubPc, hubClient, closing, leaving, chanVars, callVars, evict, histVars>>

StopCloseChannels ==
  /\ hub = "reset" /\ hub' = "stopped"
  /\ UNCHANGED <<roomVars, registered, hubPc, hubClient, closing, leaving, chanVars, callVars, evict, histVars>>
-----------------------------------------------------------------------------
(* The clients                                                             *)

\* handleClientWrite, which may end at any message.
PumpWrite(c) ==
  /\ chan[c] # <<>>
  /\ chan' = [chan EXCEPT ![c] = Tail(@)]
  /\ got' = [got EXCEPT ![c][Head(chan[c])] = @ + 1]
  /\ UNCHANGED <<roomVars, hubVars, leaving, open, callVars, evict, eligible, before>>

\* The message in its hand when it ends.
PumpDrop(c) ==
  /\ chan[c] # <<>>
  /\ chan' = [chan EXCEPT ![c] = Tail(@)]
  /\ UNCHANGED <<roomVars, hubVars, leaving, open, callVars, evict, histVars>>
-----------------------------------------------------------------------------
RoomNext == DeleteRoom \/ \E c \in Client : Join(c) \/ Leave(c)

BroadcastToRoom(b) == Snapshot(b) \/ Return(b) \/ EvictPanics(b) \/ \E c \in Client : Send(b, c)

RunNext ==
  \/ RunRemove \/ RunClose \/ RunLeaveRooms \/ RunLeave
  \/ \E c \in Client : RunUnregisterCleanup(c) \/ \E b \in Caller : RunUnregisterEvict(b, c)

StopNext == StopReset \/ StopCloseChannels \/ \E c \in Client : StopClose(c)

ClientNext == \E c \in Client : PumpWrite(c) \/ PumpDrop(c)

Next ==
  \/ RoomNext \/ RunNext \/ StopBegin \/ StopNext \/ ClientNext
  \/ \E b \in Caller : Lookup(b) \/ BroadcastToRoom(b)

Spec == Init /\ [][Next]_vars

-----------------------------------------------------------------------------
(* Properties                                                              *)

\* Every variable has its type, and no buffer exceeds its capacity however many
\* broadcasts send to it at a time.
TypeOK ==
  /\ listed \in BOOLEAN /\ members \subseteq Client
  /\ registered \subseteq Client /\ hub \in {"runs", "closing", "reset", "stopped"} /\ closing \subseteq Client
  /\ hubPc \in {"select", "unregister", "close", "rooms", "ended"} /\ hubClient \in Client \cup {NoClient}
  /\ leaving \subseteq Client
  /\ chan \in [Client -> Seq(Caller)] /\ open \in [Client -> BOOLEAN]
  /\ pc \in [Caller -> {"idle", "unknown", "found", "fanout", "returned"}]
  /\ targets \in [Caller -> SUBSET Client] /\ failed \in [Caller -> SUBSET Client]
  /\ evict \in [Caller -> SUBSET Client]
  /\ eligible \in [Caller -> SUBSET Client] /\ before \in [Caller -> SUBSET Caller]
  /\ got \in [Client -> [Caller -> Nat]]
  /\ \A c \in Client : Len(chan[c]) <= ChanCap

\* Although every broadcast works on its own copy of the members and nothing
\* orders them, a socket is written a broadcast at most once, only if its client
\* was in the room during the call, and never after one that began when it had
\* returned.
Delivery == INSTANCE RoomDelivery WITH
  member <- members,
  status <- [b \in Caller |-> IF b \in Called THEN "called"
                              ELSE IF pc[b] = "returned" THEN "returned" ELSE "idle"]

DeliveredToMembers == Delivery!Spec

\* A client that missed a room broadcast is on its way out of the hub, or out:
\* its eviction is waiting, in the hands of Run, or done, however many
\* broadcasts, its own reader and Stop compete to remove it.
MissedEvicted ==
  \A b \in Caller : \A c \in failed[b] :
    \/ pc[b] = "fanout" \/ c \in evict[b] \/ (hubPc = "unregister" /\ hubClient = c)
    \/ c \notin registered \/ hub = "stopped"
=============================================================================
