------------------------------- MODULE Rooms -------------------------------
(***************************************************************************)
(* The rooms of a hub.  h.Rooms and the members of every room are          *)
(* SharedCollections: each operation on one of them is atomic, but the     *)
(* methods of Hub are sequences of such operations without a lock around   *)
(* them.  CreateRoom, JoinRoom, LeaveRoom, DeleteRoom, LeaveAllFromRoom    *)
(* and DeleteEmptyRooms run in goroutines of the application; the hub's    *)
(* goroutine takes unregistered clients out of their rooms, and Stop       *)
(* replaces the collection.                                                *)
(*                                                                         *)
(* A Room value is named by the CreateRoom call that makes it, a client by *)
(* its identifier.                                                         *)
(***************************************************************************)
EXTENDS Naturals

CONSTANTS
  Client, RoomId,
  Name,       \* names of rooms; names and ids are both strings
  Creator,    \* CreateRoom calls
  Joiner, Leaver,
  Deleter,    \* DeleteRoom calls
  Emptier,    \* LeaveAllFromRoom calls
  Sweeper,    \* DeleteEmptyRooms and DeleteEmptyRoomsExcluding calls
  None

Room == Creator
Remover == Deleter \cup Emptier \cup Sweeper
Caller == Creator \cup Joiner \cup Leaver \cup Remover
Watcher == Leaver \cup Deleter

ASSUME RoomsAssumption ==
  /\ None \notin Client \cup RoomId \cup Room
  /\ Creator \cap (Joiner \cup Leaver \cup Remover) = {}
  /\ Joiner \cap (Leaver \cup Remover) = {} /\ Leaver \cap Remover = {}
  /\ Deleter \cap (Emptier \cup Sweeper) = {} /\ Emptier \cap Sweeper = {}

VARIABLES
  rooms,      \* h.Rooms
  id, name,   \* the fields of each Room
  members,    \* its clients
  pc, client, roomId, room,   \* the locals of each call
  victims,    \* clients LeaveAllFromRoom has still to remove
  unvisited,  \* rooms ForEach has still to visit, of each Sweeper
  hub, unvisitedByHub, toLeave, hubRoom, \* the removal in progress of an unregistered client
  removed,    \* clients taken out of their rooms by the hub
  stopped,    \* Stop has replaced h.Rooms
  joined      \* history: what joined since each call began

roomVars == <<rooms, id, name, members>>
callVars == <<pc, client, roomId, room, victims, unvisited>>
hubVars  == <<hub, unvisitedByHub, toLeave, hubRoom, removed>>
vars == <<roomVars, callVars, hubVars, stopped, joined>>

Init ==
  /\ rooms = [i \in RoomId |-> None]
  /\ id = [o \in Room |-> None] /\ name = [o \in Room |-> None]
  /\ members = [o \in Room |-> {}]
  /\ pc = [x \in Caller |-> "idle"] /\ client = [x \in Caller |-> None]
  /\ roomId = [x \in Caller |-> None] /\ room = [x \in Caller |-> None]
  /\ victims = [d \in Remover |-> {}] /\ unvisited = [w \in Sweeper |-> {}]
  /\ hub = None /\ unvisitedByHub = {} /\ toLeave = {} /\ hubRoom = None /\ removed = {}
  /\ stopped = FALSE /\ joined = [x \in Watcher |-> {}]

Goto(x, label) == pc' = [pc EXCEPT ![x] = label]
Listed == {rooms[i] : i \in RoomId} \ {None}

\* Rooms.Get, the first step of every call: the room, or the error path.
Lookup(x, found, missing) ==
  IF rooms[roomId[x]] = None
    THEN Goto(x, missing) /\ UNCHANGED room
    ELSE Goto(x, found) /\ room' = [room EXCEPT ![x] = rooms[roomId[x]]]

ForgetRemoval(o, c) == UNCHANGED members    \* mutant
RemoveMember(o, c) == members' = [members EXCEPT ![o] = @ \ {c}]
-----------------------------------------------------------------------------
(* CreateRoom, JoinRoom, LeaveRoom                                         *)

SwapFields(k, i, n) == id' = [id EXCEPT ![k] = n] /\ name' = [name EXCEPT ![k] = i]  \* mutant
NewRoom(k, i, n) == id' = [id EXCEPT ![k] = i] /\ name' = [name EXCEPT ![k] = n]

\* The id is the caller's, or one that was free when it was generated.
CreateRoom(k, i, n) ==
  /\ pc[k] = "idle" /\ Goto(k, "lookup")
  /\ roomId' = [roomId EXCEPT ![k] = i] /\ NewRoom(k, i, n)
  /\ UNCHANGED <<rooms, members, client, room, victims, unvisited, hubVars, stopped, joined>>

CreateLookup(k) ==
  /\ pc[k] = "lookup" /\ Lookup(k, "failed", "adding")
  /\ UNCHANGED <<roomVars, client, roomId, victims, unvisited, hubVars, stopped, joined>>

\* Rooms.Add puts the room in place of whatever is there by now.
CreateAdd(k) ==
  /\ pc[k] = "adding" /\ Goto(k, "returned") /\ rooms' = [rooms EXCEPT ![roomId[k]] = k]
  /\ UNCHANGED <<id, name, members, client, roomId, room, victims, unvisited, hubVars,
                 stopped, joined>>

\* A JoinRoom or LeaveRoom call.
Enter(x, c, i) ==
  /\ pc[x] = "idle" /\ Goto(x, "lookup")
  /\ client' = [client EXCEPT ![x] = c] /\ roomId' = [roomId EXCEPT ![x] = i]
  /\ UNCHANGED <<roomVars, room, victims, unvisited, hubVars, stopped, joined>>

JoinLookup(j) ==
  /\ pc[j] = "lookup" /\ Lookup(j, "adding", "failed")
  /\ UNCHANGED <<roomVars, client, roomId, victims, unvisited, hubVars, stopped, joined>>

\* What each LeaveRoom and DeleteRoom in progress or completed has to allow for.
NoteJoin(o, c) ==
  joined' = [x \in Watcher |-> IF pc[x] # "idle" THEN joined[x] \cup {<<o, c>>} ELSE {}]

JoinAdd(j) ==
  /\ pc[j] = "adding" /\ Goto(j, "returned")
  /\ members' = [members EXCEPT ![room[j]] = @ \cup {client[j]}]
  /\ NoteJoin(room[j], client[j])
  /\ UNCHANGED <<rooms, id, name, client, roomId, room, victims, unvisited, hubVars, stopped>>

LeaveLookup(x) ==
  /\ pc[x] = "lookup" /\ Lookup(x, "leaving", "returned")
  /\ UNCHANGED <<roomVars, client, roomId, victims, unvisited, hubVars, stopped, joined>>

LeaveRemove(x) ==
  /\ pc[x] = "leaving" /\ Goto(x, "returned") /\ RemoveMember(room[x], client[x])
  /\ UNCHANGED <<rooms, id, name, client, roomId, room, victims, unvisited, hubVars,
                 stopped, joined>>
-----------------------------------------------------------------------------
(* LeaveAllFromRoom, DeleteRoom, DeleteEmptyRooms                          *)

Remove(d, i) ==
  /\ pc[d] = "idle" /\ Goto(d, "lookup") /\ roomId' = [roomId EXCEPT ![d] = i]
  /\ UNCHANGED <<roomVars, client, room, victims, unvisited, hubVars, stopped, joined>>

\* A sweep takes a failing DeleteRoom in its stride.
RemoveLookup(d) ==
  /\ pc[d] = "lookup" /\ Lookup(d, "clients", IF d \in Sweeper THEN "sweeping" ELSE "failed")
  /\ UNCHANGED <<roomVars, client, roomId, victims, unvisited, hubVars, stopped, joined>>

RemoveClients(d) ==
  /\ pc[d] = "clients" /\ Goto(d, "evicting")
  /\ victims' = [victims EXCEPT ![d] = members[room[d]]]
  /\ UNCHANGED <<roomVars, client, roomId, room, unvisited, hubVars, stopped, joined>>

RemoveEvict(d, c) ==
  /\ pc[d] = "evicting" /\ c \in victims[d]
  /\ victims' = [victims EXCEPT ![d] = @ \ {c}] /\ RemoveMember(room[d], c)
  /\ UNCHANGED <<rooms, id, name, pc, client, roomId, room, unvisited, hubVars, stopped,
                 joined>>

StopEvicting(d) == TRUE    \* mutant: the rest of the clients stay
Evicted(d) == victims[d] = {}

\* Rooms.Remove takes out whatever room has the id by now.
RemoveRoom(d) ==
  /\ pc[d] = "evicting" /\ Evicted(d)
  /\ IF d \in Emptier THEN UNCHANGED rooms
                      ELSE rooms' = [rooms EXCEPT ![roomId[d]] = None]
  /\ Goto(d, IF d \in Sweeper THEN "sweeping" ELSE "returned")
  /\ UNCHANGED <<id, name, members, client, roomId, room, victims, unvisited, hubVars,
                 stopped, joined>>

\* Rooms.ForEach copies the collection, without the excluded rooms here.
Sweep(w, exclude) ==
  /\ pc[w] = "idle" /\ Goto(w, "sweeping")
  /\ unvisited' = [unvisited EXCEPT ![w] = {o \in Listed : id[o] \notin exclude}]
  /\ UNCHANGED <<roomVars, client, roomId, room, victims, hubVars, stopped, joined>>

SweepVisit(w, o) ==
  /\ pc[w] = "sweeping" /\ o \in unvisited[w]
  /\ unvisited' = [unvisited EXCEPT ![w] = @ \ {o}]
  /\ IF members[o] = {}
       THEN Goto(w, "lookup") /\ roomId' = [roomId EXCEPT ![w] = id[o]]
       ELSE UNCHANGED <<pc, roomId>>
  /\ UNCHANGED <<roomVars, client, room, victims, hubVars, stopped, joined>>

SweepEnd(w) ==
  /\ pc[w] = "sweeping" /\ unvisited[w] = {} /\ Goto(w, "returned")
  /\ UNCHANGED <<roomVars, client, roomId, room, victims, unvisited, hubVars, stopped, joined>>
-----------------------------------------------------------------------------
(* removeClientFromAllRoomsUnsafe in the hub's goroutine, and Stop         *)

HubBegin(c) ==
  /\ hub = None /\ c \notin removed
  /\ hub' = c /\ unvisitedByHub' = Listed
  /\ UNCHANGED <<roomVars, callVars, toLeave, hubRoom, removed, stopped, joined>>

InRoom(o) == hub \in members[o]

HubVisit(o) ==
  /\ hub # None /\ o \in unvisitedByHub
  /\ unvisitedByHub' = unvisitedByHub \ {o}
  /\ toLeave' = IF InRoom(o) THEN toLeave \cup {o} ELSE toLeave
  /\ UNCHANGED <<roomVars, callVars, hub, hubRoom, removed, stopped, joined>>

\* LeaveRoom is called for each room collected: Rooms.Get, then the removal.
\* What it is given, and looks up, is the name of the room, not its id.
HubLookup(o) ==
  /\ hub # None /\ unvisitedByHub = {} /\ hubRoom = None /\ o \in toLeave
  /\ toLeave' = toLeave \ {o}
  /\ hubRoom' = IF name[o] \in RoomId THEN rooms[name[o]] ELSE None
  /\ UNCHANGED <<roomVars, callVars, hub, unvisitedByHub, removed, stopped, joined>>

HubRemove ==
  /\ hubRoom # None /\ hubRoom' = None /\ RemoveMember(hubRoom, hub)
  /\ UNCHANGED <<rooms, id, name, callVars, hub, unvisitedByHub, toLeave, removed, stopped,
                 joined>>

HubEnd ==
  /\ hub # None /\ unvisitedByHub = {} /\ toLeave = {} /\ hubRoom = None
  /\ hub' = None /\ removed' = removed \cup {hub}
  /\ UNCHANGED <<roomVars, callVars, unvisitedByHub, toLeave, hubRoom, stopped, joined>>

Stop == /\ ~stopped /\ stopped' = TRUE
        /\ rooms' = [i \in RoomId |-> None]
        /\ UNCHANGED <<id, name, members, callVars, hubVars, joined>>
-----------------------------------------------------------------------------
CreateNext == \E k \in Creator :
  \/ \E i \in RoomId, n \in Name : CreateRoom(k, i, n)
  \/ CreateLookup(k) \/ CreateAdd(k)

MemberNext ==
  \/ \E x \in Joiner \cup Leaver, c \in Client, i \in RoomId : Enter(x, c, i)
  \/ \E j \in Joiner : JoinLookup(j) \/ JoinAdd(j)
  \/ \E x \in Leaver : LeaveLookup(x) \/ LeaveRemove(x)

RemoveNext ==
  \/ \E d \in Deleter \cup Emptier, i \in RoomId : Remove(d, i)
  \/ \E d \in Remover : RemoveLookup(d) \/ RemoveClients(d) \/ RemoveRoom(d)
  \/ \E d \in Remover, c \in Client : RemoveEvict(d, c)
  \/ \E w \in Sweeper, exclude \in SUBSET RoomId : Sweep(w, exclude)
  \/ \E w \in Sweeper, o \in Room : SweepVisit(w, o)
  \/ \E w \in Sweeper : SweepEnd(w)

HubNext == \/ \E c \in Client : HubBegin(c)
           \/ \E o \in Room : HubVisit(o) \/ HubLookup(o)
           \/ HubRemove \/ HubEnd

Next == CreateNext \/ MemberNext \/ RemoveNext \/ HubNext \/ Stop

Spec == Init /\ [][Next]_vars
-----------------------------------------------------------------------------
(* Properties                                                              *)

OrNone(S) == S \cup {None}

\* Every variable stays within the values its part of the code gives it, and
\* a room is listed under its own id.
TypeOK ==
  /\ rooms \in [RoomId -> OrNone(Room)]
  /\ id \in [Room -> OrNone(RoomId)] /\ name \in [Room -> OrNone(Name)]
  /\ members \in [Room -> SUBSET Client]
  /\ pc \in [Caller -> {"idle", "lookup", "adding", "leaving", "clients", "evicting",
                         "sweeping", "returned", "failed"}]
  /\ client \in [Caller -> OrNone(Client)] /\ roomId \in [Caller -> OrNone(RoomId)]
  /\ room \in [Caller -> OrNone(Room)]
  /\ victims \in [Remover -> SUBSET Client] /\ unvisited \in [Sweeper -> SUBSET Room]
  /\ hub \in OrNone(Client) /\ unvisitedByHub \in SUBSET Room /\ toLeave \in SUBSET Room
  /\ hubRoom \in OrNone(Room) /\ removed \in SUBSET Client
  /\ stopped \in BOOLEAN /\ joined \in [Watcher -> SUBSET (Room \X Client)]
  /\ \A i \in RoomId : rooms[i] # None => id[rooms[i]] = i

\* When LeaveRoom returns, the client is not in the room with that id unless
\* it joined while the call was under way or later, whatever else is created,
\* deleted or emptied meanwhile.
LeaveEffective ==
  \A x \in Leaver, o \in Room :
    pc[x] = "returned" /\ rooms[roomId[x]] = o /\ client[x] \in members[o]
      => <<o, client[x]>> \in joined[x]

\* When DeleteRoom returns without an error, the room it found is no longer
\* listed, nor ever again, and holds only clients that joined meanwhile.
DeleteEffective ==
  \A d \in Deleter : pc[d] = "returned" =>
    /\ room[d] \notin Listed
    /\ \A c \in members[room[d]] : <<room[d], c>> \in joined[d]
-----------------------------------------------------------------------------
(* Why they hold                                                           *)

\* The locals of a call are set by the time they are used.
LocalsSet ==
  /\ \A k \in Creator : pc[k] \in {"lookup", "adding", "returned"} =>
       roomId[k] \in RoomId /\ id[k] = roomId[k]
  /\ \A x \in Joiner \cup Leaver : pc[x] # "idle" => client[x] \in Client
  /\ \A x \in Joiner \cup Leaver \cup Deleter \cup Emptier :
       pc[x] # "idle" => roomId[x] \in RoomId
  /\ \A w \in Sweeper : pc[w] \in {"lookup", "clients", "evicting"} => roomId[w] \in RoomId
  /\ \A x \in Joiner \cup Leaver \cup Remover :
       pc[x] \in {"adding", "leaving", "clients", "evicting"} => room[x] \in Room

\* Nobody refers to a room, nor has anyone joined it, before it is listed.
Created(o) == pc[o] = "returned"

KnownCreated ==
  /\ \A x \in Caller : room[x] # None => Created(room[x])
  /\ \A o \in Listed \cup unvisitedByHub \cup toLeave : Created(o)
  /\ \A w \in Sweeper : \A o \in unvisited[w] : Created(o)
  /\ hubRoom # None => Created(hubRoom) /\ hub # None
  /\ unvisitedByHub # {} => hub # None
  /\ \A o \in Room : members[o] # {} => Created(o)

LeaveInv ==
  \A x \in Leaver, o \in Room :
    pc[x] \in {"leaving", "returned"} /\ rooms[roomId[x]] = o /\ client[x] \in members[o]
      => <<o, client[x]>> \in joined[x] \/ (pc[x] = "leaving" /\ room[x] = o)

DeleteInv ==
  \A d \in Deleter :
    /\ pc[d] \in {"clients", "evicting", "returned"} =>
         room[d] \in Room /\ id[room[d]] = roomId[d]
    /\ pc[d] = "returned" => victims[d] = {} /\ room[d] \notin Listed
    /\ pc[d] \in {"evicting", "returned"} =>
         \A c \in members[room[d]] : c \in victims[d] \/ <<room[d], c>> \in joined[d]
=============================================================================
