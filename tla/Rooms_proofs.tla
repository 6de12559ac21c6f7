---------------------------- MODULE Rooms_proofs ----------------------------
(***************************************************************************)
(* Theorems about Rooms, for any set of clients, identifiers, names and    *)
(* concurrent calls.                                                       *)
(***************************************************************************)
EXTENDS Rooms, TLAPS

USE RoomsAssumption
    DEF Room, Remover, Caller, Watcher, OrNone, roomVars, callVars, hubVars
-----------------------------------------------------------------------------
(* The type invariant                                                      *)

\* The steps of a CreateRoom call keep every variable within its type.
LEMMA CreateTypeOK ==
  ASSUME TypeOK, LocalsSet, KnownCreated, CreateNext
  PROVE TypeOK'
<1> USE DEF TypeOK, LocalsSet, Listed
<1>1. ASSUME NEW k \in Creator, NEW i \in RoomId, NEW n \in Name, CreateRoom(k, i, n) PROVE TypeOK'
  <2>1. /\ pc[k] = "idle" /\ pc' = [pc EXCEPT ![k] = "lookup"]
        /\ roomId' = [roomId EXCEPT ![k] = i]
        /\ id' = [id EXCEPT ![k] = i] /\ name' = [name EXCEPT ![k] = n]
        /\ UNCHANGED <<rooms, members, client, room, victims, unvisited, hubVars, stopped, joined>>
    BY <1>1 DEF CreateRoom, Goto, NewRoom
  <2>2. \A j \in RoomId : rooms'[j] # None => id'[rooms'[j]] = j
    BY <2>1 DEF KnownCreated, Created
  <2> QED BY <2>1, <2>2
<1>2. ASSUME NEW k \in Creator, CreateLookup(k) PROVE TypeOK'
  <2>1. roomId[k] \in RoomId
    BY <1>2 DEF CreateLookup
  <2>2. /\ pc' = [pc EXCEPT ![k] = "failed"] \/ pc' = [pc EXCEPT ![k] = "adding"]
        /\ room' = room \/ room' = [room EXCEPT ![k] = rooms[roomId[k]]]
    BY <1>2 DEF CreateLookup, Lookup, Goto
  <2>3. pc' \in [Caller -> {"idle", "lookup", "adding", "leaving", "clients", "evicting",
                              "sweeping", "returned", "failed"}]
    BY <2>2
  <2>4. room' \in [Caller -> OrNone(Room)]
    BY <2>1, <2>2
  <2> QED BY <1>2, <2>3, <2>4 DEF CreateLookup
<1>3. ASSUME NEW k \in Creator, CreateAdd(k) PROVE TypeOK'
  BY <1>3 DEF CreateAdd, Goto
<1> QED
  BY <1>1, <1>2, <1>3 DEF CreateNext

\* The steps of JoinRoom and LeaveRoom calls keep every variable within its type.
LEMMA MemberTypeOK ==
  ASSUME TypeOK, LocalsSet, MemberNext
  PROVE TypeOK'
<1> USE DEF TypeOK, LocalsSet, Listed
<1>1. ASSUME NEW x \in Joiner \cup Leaver, NEW c \in Client, NEW i \in RoomId, Enter(x, c, i) PROVE TypeOK'
  BY <1>1 DEF Enter, Goto
<1>2. ASSUME NEW j \in Joiner, JoinLookup(j) PROVE TypeOK'
  BY <1>2 DEF JoinLookup, Lookup, Goto
<1>3. ASSUME NEW j \in Joiner, JoinAdd(j) PROVE TypeOK'
  <2>1. room[j] \in Room /\ client[j] \in Client
    BY <1>3 DEF JoinAdd
  <2>2. joined' \in [Watcher -> SUBSET (Room \X Client)]
    <3>1. <<room[j], client[j]>> \in Room \X Client
      BY <2>1
    <3>2. joined' = [x \in Watcher |->
                      IF pc[x] # "idle" THEN joined[x] \cup {<<room[j], client[j]>>} ELSE {}]
      BY <1>3 DEF JoinAdd, NoteJoin
    <3> QED BY <3>1, <3>2
  <2>3. members' \in [Room -> SUBSET Client]
    BY <1>3, <2>1 DEF JoinAdd
  <2>4. pc' = [pc EXCEPT ![j] = "returned"]
    BY <1>3 DEF JoinAdd, Goto
  <2> QED BY <1>3, <2>2, <2>3, <2>4 DEF JoinAdd
<1>4. ASSUME NEW x \in Leaver, LeaveLookup(x) PROVE TypeOK'
  <2>1. roomId[x] \in RoomId
    BY <1>4 DEF LeaveLookup
  <2>2. /\ pc' = [pc EXCEPT ![x] = "leaving"] \/ pc' = [pc EXCEPT ![x] = "returned"]
        /\ room' = room \/ room' = [room EXCEPT ![x] = rooms[roomId[x]]]
    BY <1>4 DEF LeaveLookup, Lookup, Goto
  <2>3. pc' \in [Caller -> {"idle", "lookup", "adding", "leaving", "clients", "evicting",
                              "sweeping", "returned", "failed"}]
    BY <2>2
  <2>4. room' \in [Caller -> OrNone(Room)]
    BY <2>1, <2>2
  <2> QED BY <1>4, <2>3, <2>4 DEF LeaveLookup
<1>5. ASSUME NEW x \in Leaver, LeaveRemove(x) PROVE TypeOK'
  BY <1>5 DEF LeaveRemove, Goto, RemoveMember
<1> QED
  BY <1>1, <1>2, <1>3, <1>4, <1>5 DEF MemberNext

\* The steps of LeaveAllFromRoom, DeleteRoom and DeleteEmptyRooms calls keep every variable within its type.
LEMMA RemoveTypeOK ==
  ASSUME TypeOK, LocalsSet, RemoveNext
  PROVE TypeOK'
<1> USE DEF TypeOK, LocalsSet, Listed
<1>1. ASSUME NEW d \in Deleter \cup Emptier, NEW i \in RoomId, Remove(d, i) PROVE TypeOK'
  BY <1>1 DEF Remove, Goto
<1>2. ASSUME NEW d \in Remover, RemoveLookup(d) PROVE TypeOK'
  <2>1. roomId[d] \in RoomId
    BY <1>2 DEF RemoveLookup
  <2>2. /\ pc' = [pc EXCEPT ![d] = "clients"] \/ pc' = [pc EXCEPT ![d] = "sweeping"]
           \/ pc' = [pc EXCEPT ![d] = "failed"]
        /\ room' = room \/ room' = [room EXCEPT ![d] = rooms[roomId[d]]]
    BY <1>2 DEF RemoveLookup, Lookup, Goto
  <2>3. pc' \in [Caller -> {"idle", "lookup", "adding", "leaving", "clients", "evicting",
                              "sweeping", "returned", "failed"}]
    BY <2>2
  <2>4. room' \in [Caller -> OrNone(Room)]
    BY <2>1, <2>2
  <2> QED BY <1>2, <2>3, <2>4 DEF RemoveLookup
<1>3. ASSUME NEW d \in Remover, RemoveClients(d) PROVE TypeOK'
  <2>1. members[room[d]] \in SUBSET Client
    BY <1>3 DEF RemoveClients
  <2>2. victims' \in [Remover -> SUBSET Client]
    BY <1>3, <2>1 DEF RemoveClients
  <2>3. pc' = [pc EXCEPT ![d] = "evicting"]
    BY <1>3 DEF RemoveClients, Goto
  <2> QED BY <1>3, <2>2, <2>3 DEF RemoveClients
<1>4. ASSUME NEW d \in Remover, NEW c \in Client, RemoveEvict(d, c) PROVE TypeOK'
  <2>1. victims' \in [Remover -> SUBSET Client] /\ members' \in [Room -> SUBSET Client]
    BY <1>4 DEF RemoveEvict, RemoveMember
  <2> QED BY <1>4, <2>1 DEF RemoveEvict
<1>5. ASSUME NEW d \in Remover, RemoveRoom(d) PROVE TypeOK'
  <2>1. rooms' \in [RoomId -> OrNone(Room)]
    BY <1>5 DEF RemoveRoom
  <2>2. \A i \in RoomId : rooms'[i] # None => id[rooms'[i]] = i
    BY <1>5 DEF RemoveRoom
  <2>3. pc' = [pc EXCEPT ![d] = "sweeping"] \/ pc' = [pc EXCEPT ![d] = "returned"]
    BY <1>5 DEF RemoveRoom, Goto
  <2> QED BY <1>5, <2>1, <2>2, <2>3 DEF RemoveRoom
<1>6. ASSUME NEW w \in Sweeper, NEW exclude \in SUBSET RoomId, Sweep(w, exclude) PROVE TypeOK'
  BY <1>6 DEF Sweep, Goto
<1>7. ASSUME NEW w \in Sweeper, NEW o \in Room, SweepVisit(w, o) PROVE TypeOK'
  <2>1. unvisited' \in [Sweeper -> SUBSET Room]
    BY <1>7 DEF SweepVisit
  <2>2. \/ UNCHANGED <<pc, roomId>>
        \/ pc' = [pc EXCEPT ![w] = "lookup"] /\ roomId' = [roomId EXCEPT ![w] = id[o]]
    BY <1>7 DEF SweepVisit, Goto
  <2> QED BY <1>7, <2>1, <2>2 DEF SweepVisit
<1>8. ASSUME NEW w \in Sweeper, SweepEnd(w) PROVE TypeOK'
  BY <1>8 DEF SweepEnd, Goto
<1> QED
  BY <1>1, <1>2, <1>3, <1>4, <1>5, <1>6, <1>7, <1>8 DEF RemoveNext

\* The hub's removal of a client keeps every variable within its type.
LEMMA HubTypeOK ==
  ASSUME TypeOK, LocalsSet, HubNext
  PROVE TypeOK'
<1> USE DEF TypeOK, LocalsSet, Listed
<1>1. ASSUME NEW c \in Client, HubBegin(c) PROVE TypeOK'
  BY <1>1 DEF HubBegin
<1>2. ASSUME NEW o \in Room, HubVisit(o) PROVE TypeOK'
  BY <1>2 DEF HubVisit, InRoom
<1>3. ASSUME NEW o \in Room, HubLookup(o) PROVE TypeOK'
  BY <1>3 DEF HubLookup
<1>4. CASE HubRemove
  BY <1>4 DEF HubRemove, RemoveMember
<1>5. CASE HubEnd
  BY <1>5 DEF HubEnd
<1> QED
  BY <1>1, <1>2, <1>3, <1>4, <1>5 DEF HubNext
-----------------------------------------------------------------------------
(* The locals of a call                                                    *)

\* The steps of a CreateRoom call use no local of a call before it is set.
LEMMA CreateLocalsSet ==
  ASSUME TypeOK, LocalsSet, KnownCreated, CreateNext
  PROVE LocalsSet'
<1> USE DEF TypeOK, LocalsSet, KnownCreated, Created
<1>1. ASSUME NEW k \in Creator, NEW i \in RoomId, NEW n \in Name, CreateRoom(k, i, n) PROVE LocalsSet'
  BY <1>1 DEF CreateRoom, Goto, NewRoom
<1>2. ASSUME NEW k \in Creator, CreateLookup(k) PROVE LocalsSet'
  BY <1>2 DEF CreateLookup, Lookup, Goto
<1>3. ASSUME NEW k \in Creator, CreateAdd(k) PROVE LocalsSet'
  BY <1>3 DEF CreateAdd, Goto
<1> QED
  BY <1>1, <1>2, <1>3 DEF CreateNext

\* The steps of JoinRoom and LeaveRoom calls use no local of a call before it is set.
LEMMA MemberLocalsSet ==
  ASSUME TypeOK, LocalsSet, KnownCreated, MemberNext
  PROVE LocalsSet'
<1> USE DEF TypeOK, LocalsSet, KnownCreated, Created
<1>1. ASSUME NEW x \in Joiner \cup Leaver, NEW c \in Client, NEW i \in RoomId, Enter(x, c, i) PROVE LocalsSet'
  BY <1>1 DEF Enter, Goto
<1>2. ASSUME NEW j \in Joiner, JoinLookup(j) PROVE LocalsSet'
  BY <1>2 DEF JoinLookup, Lookup, Goto
<1>3. ASSUME NEW j \in Joiner, JoinAdd(j) PROVE LocalsSet'
  BY <1>3 DEF JoinAdd, Goto, NoteJoin
<1>4. ASSUME NEW x \in Leaver, LeaveLookup(x) PROVE LocalsSet'
  BY <1>4 DEF LeaveLookup, Lookup, Goto
<1>5. ASSUME NEW x \in Leaver, LeaveRemove(x) PROVE LocalsSet'
  BY <1>5 DEF LeaveRemove, Goto, RemoveMember
<1> QED
  BY <1>1, <1>2, <1>3, <1>4, <1>5 DEF MemberNext

\* The steps of LeaveAllFromRoom, DeleteRoom and DeleteEmptyRooms calls use no local of a call before it is set.
LEMMA RemoveLocalsSet ==
  ASSUME TypeOK, LocalsSet, KnownCreated, RemoveNext
  PROVE LocalsSet'
<1> USE DEF TypeOK, LocalsSet, KnownCreated, Created
<1>1. ASSUME NEW d \in Deleter \cup Emptier, NEW i \in RoomId, Remove(d, i) PROVE LocalsSet'
  BY <1>1 DEF Remove, Goto
<1>2. ASSUME NEW d \in Remover, RemoveLookup(d) PROVE LocalsSet'
  BY <1>2 DEF RemoveLookup, Lookup, Goto
<1>3. ASSUME NEW d \in Remover, RemoveClients(d) PROVE LocalsSet'
  BY <1>3 DEF RemoveClients, Goto
<1>4. ASSUME NEW d \in Remover, NEW c \in Client, RemoveEvict(d, c) PROVE LocalsSet'
  BY <1>4 DEF RemoveEvict, RemoveMember
<1>5. ASSUME NEW d \in Remover, RemoveRoom(d) PROVE LocalsSet'
  BY <1>5 DEF RemoveRoom, Goto, Evicted
<1>6. ASSUME NEW w \in Sweeper, NEW exclude \in SUBSET RoomId, Sweep(w, exclude) PROVE LocalsSet'
  BY <1>6 DEF Sweep, Goto
<1>7. ASSUME NEW w \in Sweeper, NEW o \in Room, SweepVisit(w, o) PROVE LocalsSet'
  BY <1>7 DEF SweepVisit, Goto
<1>8. ASSUME NEW w \in Sweeper, SweepEnd(w) PROVE LocalsSet'
  BY <1>8 DEF SweepEnd, Goto
<1> QED
  BY <1>1, <1>2, <1>3, <1>4, <1>5, <1>6, <1>7, <1>8 DEF RemoveNext

\* The hub's removal of a client uses no local of a call before it is set.
LEMMA HubLocalsSet ==
  ASSUME TypeOK, LocalsSet, KnownCreated, HubNext
  PROVE LocalsSet'
<1> USE DEF TypeOK, LocalsSet, KnownCreated, Created
<1>1. ASSUME NEW c \in Client, HubBegin(c) PROVE LocalsSet'
  BY <1>1 DEF HubBegin
<1>2. ASSUME NEW o \in Room, HubVisit(o) PROVE LocalsSet'
  BY <1>2 DEF HubVisit, InRoom
<1>3. ASSUME NEW o \in Room, HubLookup(o) PROVE LocalsSet'
  BY <1>3 DEF HubLookup
<1>4. CASE HubRemove
  BY <1>4 DEF HubRemove, RemoveMember
<1>5. CASE HubEnd
  BY <1>5 DEF HubEnd
<1> QED
  BY <1>1, <1>2, <1>3, <1>4, <1>5 DEF HubNext
-----------------------------------------------------------------------------
(* Rooms are listed before anyone refers to them                           *)

\* The steps of a CreateRoom call let nothing refer to a room before it is listed.
LEMMA CreateKnownCreated ==
  ASSUME TypeOK, LocalsSet, KnownCreated, CreateNext
  PROVE KnownCreated'
<1> USE DEF TypeOK, LocalsSet, KnownCreated, Listed, Created
<1>1. ASSUME NEW k \in Creator, NEW i \in RoomId, NEW n \in Name, CreateRoom(k, i, n) PROVE KnownCreated'
  BY <1>1 DEF CreateRoom, Goto, NewRoom
<1>2. ASSUME NEW k \in Creator, CreateLookup(k) PROVE KnownCreated'
  <2>1. roomId[k] \in RoomId /\ pc[k] = "lookup"
    BY <1>2 DEF CreateLookup
  <2>2. /\ pc' = [pc EXCEPT ![k] = "failed"] \/ pc' = [pc EXCEPT ![k] = "adding"]
        /\ room' = room \/ (rooms[roomId[k]] # None /\ room' = [room EXCEPT ![k] = rooms[roomId[k]]])
    BY <1>2 DEF CreateLookup, Lookup, Goto
  <2> QED BY SMTT(30), <1>2, <2>1, <2>2 DEF CreateLookup
<1>3. ASSUME NEW k \in Creator, CreateAdd(k) PROVE KnownCreated'
  BY <1>3 DEF CreateAdd, Goto
<1> QED
  BY <1>1, <1>2, <1>3 DEF CreateNext

\* The steps of JoinRoom and LeaveRoom calls let nothing refer to a room before it is listed.
LEMMA MemberKnownCreated ==
  ASSUME TypeOK, LocalsSet, KnownCreated, MemberNext
  PROVE KnownCreated'
<1> USE DEF TypeOK, LocalsSet, KnownCreated, Listed, Created
<1>1. ASSUME NEW x \in Joiner \cup Leaver, NEW c \in Client, NEW i \in RoomId, Enter(x, c, i) PROVE KnownCreated'
  BY <1>1 DEF Enter, Goto
<1>2. ASSUME NEW j \in Joiner, JoinLookup(j) PROVE KnownCreated'
  BY <1>2 DEF JoinLookup, Lookup, Goto
<1>3. ASSUME NEW j \in Joiner, JoinAdd(j) PROVE KnownCreated'
  BY <1>3 DEF JoinAdd, Goto, NoteJoin
<1>4. ASSUME NEW x \in Leaver, LeaveLookup(x) PROVE KnownCreated'
  BY <1>4 DEF LeaveLookup, Lookup, Goto
<1>5. ASSUME NEW x \in Leaver, LeaveRemove(x) PROVE KnownCreated'
  BY <1>5 DEF LeaveRemove, Goto, RemoveMember
<1> QED
  BY <1>1, <1>2, <1>3, <1>4, <1>5 DEF MemberNext

\* The steps of LeaveAllFromRoom, DeleteRoom and DeleteEmptyRooms calls let nothing refer to a room before it is listed.
LEMMA RemoveKnownCreated ==
  ASSUME TypeOK, LocalsSet, KnownCreated, RemoveNext
  PROVE KnownCreated'
<1> USE DEF TypeOK, LocalsSet, KnownCreated, Listed, Created
<1>1. ASSUME NEW d \in Deleter \cup Emptier, NEW i \in RoomId, Remove(d, i) PROVE KnownCreated'
  BY <1>1 DEF Remove, Goto
<1>2. ASSUME NEW d \in Remover, RemoveLookup(d) PROVE KnownCreated'
  BY <1>2 DEF RemoveLookup, Lookup, Goto
<1>3. ASSUME NEW d \in Remover, RemoveClients(d) PROVE KnownCreated'
  BY <1>3 DEF RemoveClients, Goto
<1>4. ASSUME NEW d \in Remover, NEW c \in Client, RemoveEvict(d, c) PROVE KnownCreated'
  BY <1>4 DEF RemoveEvict, RemoveMember
<1>5. ASSUME NEW d \in Remover, RemoveRoom(d) PROVE KnownCreated'
  BY <1>5 DEF RemoveRoom, Goto, Evicted
<1>6. ASSUME NEW w \in Sweeper, NEW exclude \in SUBSET RoomId, Sweep(w, exclude) PROVE KnownCreated'
  BY <1>6 DEF Sweep, Goto
<1>7. ASSUME NEW w \in Sweeper, NEW o \in Room, SweepVisit(w, o) PROVE KnownCreated'
  BY <1>7 DEF SweepVisit, Goto
<1>8. ASSUME NEW w \in Sweeper, SweepEnd(w) PROVE KnownCreated'
  BY <1>8 DEF SweepEnd, Goto
<1> QED
  BY <1>1, <1>2, <1>3, <1>4, <1>5, <1>6, <1>7, <1>8 DEF RemoveNext

\* The hub's removal of a client lets nothing refer to a room before it is listed.
LEMMA HubKnownCreated ==
  ASSUME TypeOK, LocalsSet, KnownCreated, HubNext
  PROVE KnownCreated'
<1> USE DEF TypeOK, LocalsSet, KnownCreated, Listed, Created
<1>1. ASSUME NEW c \in Client, HubBegin(c) PROVE KnownCreated'
  BY <1>1 DEF HubBegin
<1>2. ASSUME NEW o \in Room, HubVisit(o) PROVE KnownCreated'
  BY <1>2 DEF HubVisit, InRoom
<1>3. ASSUME NEW o \in Room, HubLookup(o) PROVE KnownCreated'
  BY <1>3 DEF HubLookup
<1>4. CASE HubRemove
  BY <1>4 DEF HubRemove, RemoveMember
<1>5. CASE HubEnd
  BY <1>5 DEF HubEnd
<1> QED
  BY <1>1, <1>2, <1>3, <1>4, <1>5 DEF HubNext
-----------------------------------------------------------------------------
(* LeaveRoom                                                               *)

\* What JoinRoom adds to a room is noted by all that is under way.
LEMMA JoinNoted ==
  ASSUME TypeOK, LocalsSet, NEW j \in Joiner, JoinAdd(j)
  PROVE  /\ room[j] \in Room /\ client[j] \in Client
         /\ \A x \in Leaver \cup Deleter : pc[x] # "idle" =>
              joined[x] \subseteq joined'[x] /\ <<room[j], client[j]>> \in joined'[x]
         /\ \A o \in Room : members'[o] =
              IF o = room[j] THEN members[o] \cup {client[j]} ELSE members[o]
<1>1. room[j] \in Room /\ client[j] \in Client
  BY DEF JoinAdd, LocalsSet
<1>2. ASSUME NEW x \in Leaver \cup Deleter, pc[x] # "idle"
      PROVE  joined[x] \subseteq joined'[x] /\ <<room[j], client[j]>> \in joined'[x]
  <2>1. x \in Watcher
    OBVIOUS
  <2> QED BY <1>2, <2>1 DEF JoinAdd, NoteJoin
<1>3. \A o \in Room : members'[o] =
        IF o = room[j] THEN members[o] \cup {client[j]} ELSE members[o]
  BY DEF JoinAdd, TypeOK
<1> QED BY <1>1, <1>2, <1>3

\* The steps of a CreateRoom call undo no LeaveRoom but by a join it must allow for.
LEMMA CreateLeaveInv ==
  ASSUME TypeOK, LocalsSet, KnownCreated, LeaveInv, CreateNext
  PROVE LeaveInv'
<1> USE DEF TypeOK, LocalsSet, KnownCreated, Listed, Created, LeaveInv
<1>1. ASSUME NEW k \in Creator, NEW i \in RoomId, NEW n \in Name, CreateRoom(k, i, n) PROVE LeaveInv'
  BY <1>1 DEF CreateRoom, Goto, NewRoom
<1>2. ASSUME NEW k \in Creator, CreateLookup(k) PROVE LeaveInv'
  BY <1>2 DEF CreateLookup, Lookup, Goto
<1>3. ASSUME NEW k \in Creator, CreateAdd(k) PROVE LeaveInv'
  BY <1>3 DEF CreateAdd, Goto
<1> QED
  BY <1>1, <1>2, <1>3 DEF CreateNext

\* The steps of JoinRoom and LeaveRoom calls undo no LeaveRoom but by a join it must allow for.
LEMMA MemberLeaveInv ==
  ASSUME TypeOK, LocalsSet, KnownCreated, LeaveInv, MemberNext
  PROVE LeaveInv'
<1> USE DEF TypeOK, LocalsSet, KnownCreated, Listed, Created, LeaveInv
<1>1. ASSUME NEW x \in Joiner \cup Leaver, NEW c \in Client, NEW i \in RoomId, Enter(x, c, i) PROVE LeaveInv'
  BY <1>1 DEF Enter, Goto
<1>2. ASSUME NEW j \in Joiner, JoinLookup(j) PROVE LeaveInv'
  BY <1>2 DEF JoinLookup, Lookup, Goto
<1>3. ASSUME NEW j \in Joiner, JoinAdd(j) PROVE LeaveInv'
  <2> SUFFICES ASSUME NEW x \in Leaver, NEW o \in Room, (pc[x] \in {"leaving", "returned"})',
                      (rooms[roomId[x]] = o)', (client[x] \in members[o])',
                      ~(pc[x] = "leaving" /\ room[x] = o)'
               PROVE  (<<o, client[x]>> \in joined[x])'
    BY DEF LeaveInv
  <2>1. pc'[x] = pc[x] /\ UNCHANGED <<rooms, roomId, client, room>>
    BY <1>3 DEF JoinAdd, Goto
  <2>2. CASE o = room[j] /\ client[x] = client[j]
    BY <1>3, <2>1, <2>2, JoinNoted
  <2>3. CASE ~(o = room[j] /\ client[x] = client[j])
    <3>1. client[x] \in members[o]
      <4>1. members'[o] = IF o = room[j] THEN members[o] \cup {client[j]} ELSE members[o]
        <5> HIDE DEF TypeOK, LocalsSet, KnownCreated, LeaveInv
        <5> QED BY <1>3, JoinNoted
      <4> HIDE DEF TypeOK, LocalsSet, KnownCreated, LeaveInv
      <4> QED BY <2>1, <2>3, <4>1
    <3>2. joined[x] \subseteq joined'[x]
      <4>1. pc[x] # "idle"
        BY <2>1
      <4> QED BY <1>3, <4>1, JoinNoted
    <3>3. <<o, client[x]>> \in joined[x]
      <4> HIDE DEF TypeOK, LocalsSet, KnownCreated
      <4> QED BY <2>1, <3>1 DEF LeaveInv
    <3> QED
      <4> HIDE DEF TypeOK, LocalsSet, KnownCreated, LeaveInv
      <4> QED BY <2>1, <3>2, <3>3
  <2> QED BY <2>2, <2>3
<1>4. ASSUME NEW x \in Leaver, LeaveLookup(x) PROVE LeaveInv'
  BY <1>4 DEF LeaveLookup, Lookup, Goto
<1>5. ASSUME NEW x \in Leaver, LeaveRemove(x) PROVE LeaveInv'
  BY <1>5 DEF LeaveRemove, Goto, RemoveMember
<1> QED
  BY <1>1, <1>2, <1>3, <1>4, <1>5 DEF MemberNext

\* The steps of LeaveAllFromRoom, DeleteRoom and DeleteEmptyRooms calls undo no LeaveRoom but by a join it must allow for.
LEMMA RemoveLeaveInv ==
  ASSUME TypeOK, LocalsSet, KnownCreated, LeaveInv, RemoveNext
  PROVE LeaveInv'
<1> USE DEF TypeOK, LocalsSet, KnownCreated, Listed, Created, LeaveInv
<1>1. ASSUME NEW d \in Deleter \cup Emptier, NEW i \in RoomId, Remove(d, i) PROVE LeaveInv'
  BY <1>1 DEF Remove, Goto
<1>2. ASSUME NEW d \in Remover, RemoveLookup(d) PROVE LeaveInv'
  BY <1>2 DEF RemoveLookup, Lookup, Goto
<1>3. ASSUME NEW d \in Remover, RemoveClients(d) PROVE LeaveInv'
  BY <1>3 DEF RemoveClients, Goto
<1>4. ASSUME NEW d \in Remover, NEW c \in Client, RemoveEvict(d, c) PROVE LeaveInv'
  BY <1>4 DEF RemoveEvict, RemoveMember
<1>5. ASSUME NEW d \in Remover, RemoveRoom(d) PROVE LeaveInv'
  BY <1>5 DEF RemoveRoom, Goto, Evicted
<1>6. ASSUME NEW w \in Sweeper, NEW exclude \in SUBSET RoomId, Sweep(w, exclude) PROVE LeaveInv'
  BY <1>6 DEF Sweep, Goto
<1>7. ASSUME NEW w \in Sweeper, NEW o \in Room, SweepVisit(w, o) PROVE LeaveInv'
  BY <1>7 DEF SweepVisit, Goto
<1>8. ASSUME NEW w \in Sweeper, SweepEnd(w) PROVE LeaveInv'
  BY <1>8 DEF SweepEnd, Goto
<1> QED
  BY <1>1, <1>2, <1>3, <1>4, <1>5, <1>6, <1>7, <1>8 DEF RemoveNext

\* The hub's removal of a client undoes no LeaveRoom but by a join it must allow for.
LEMMA HubLeaveInv ==
  ASSUME TypeOK, LocalsSet, KnownCreated, LeaveInv, HubNext
  PROVE LeaveInv'
<1> USE DEF TypeOK, LocalsSet, KnownCreated, Listed, Created, LeaveInv
<1>1. ASSUME NEW c \in Client, HubBegin(c) PROVE LeaveInv'
  BY <1>1 DEF HubBegin
<1>2. ASSUME NEW o \in Room, HubVisit(o) PROVE LeaveInv'
  BY <1>2 DEF HubVisit, InRoom
<1>3. ASSUME NEW o \in Room, HubLookup(o) PROVE LeaveInv'
  BY <1>3 DEF HubLookup
<1>4. CASE HubRemove
  BY <1>4 DEF HubRemove, RemoveMember
<1>5. CASE HubEnd
  BY <1>5 DEF HubEnd
<1> QED
  BY <1>1, <1>2, <1>3, <1>4, <1>5 DEF HubNext
-----------------------------------------------------------------------------
(* DeleteRoom                                                              *)

\* The steps of a CreateRoom call undo no DeleteRoom but by a join it must allow for.
LEMMA CreateDeleteInv ==
  ASSUME TypeOK, LocalsSet, KnownCreated, DeleteInv, CreateNext
  PROVE DeleteInv'
<1> USE DEF TypeOK, LocalsSet, KnownCreated, Listed, Created, DeleteInv
<1>1. ASSUME NEW k \in Creator, NEW i \in RoomId, NEW n \in Name, CreateRoom(k, i, n) PROVE DeleteInv'
  BY <1>1 DEF CreateRoom, Goto, NewRoom
<1>2. ASSUME NEW k \in Creator, CreateLookup(k) PROVE DeleteInv'
  BY <1>2 DEF CreateLookup, Lookup, Goto
<1>3. ASSUME NEW k \in Creator, CreateAdd(k) PROVE DeleteInv'
  BY <1>3 DEF CreateAdd, Goto
<1> QED
  BY <1>1, <1>2, <1>3 DEF CreateNext

\* The steps of JoinRoom and LeaveRoom calls undo no DeleteRoom but by a join it must allow for.
LEMMA MemberDeleteInv ==
  ASSUME TypeOK, LocalsSet, KnownCreated, DeleteInv, MemberNext
  PROVE DeleteInv'
<1> USE DEF TypeOK, LocalsSet, KnownCreated, Listed, Created, DeleteInv
<1>1. ASSUME NEW x \in Joiner \cup Leaver, NEW c \in Client, NEW i \in RoomId, Enter(x, c, i) PROVE DeleteInv'
  BY <1>1 DEF Enter, Goto
<1>2. ASSUME NEW j \in Joiner, JoinLookup(j) PROVE DeleteInv'
  BY <1>2 DEF JoinLookup, Lookup, Goto
<1>3. ASSUME NEW j \in Joiner, JoinAdd(j) PROVE DeleteInv'
  <2> SUFFICES ASSUME NEW d \in Deleter
               PROVE  /\ (pc[d] \in {"clients", "evicting", "returned"} =>
                            room[d] \in Room /\ id[room[d]] = roomId[d])'
                      /\ (pc[d] = "returned" => victims[d] = {} /\ room[d] \notin Listed)'
                      /\ (pc[d] \in {"evicting", "returned"} => \A c \in members[room[d]] :
                            c \in victims[d] \/ <<room[d], c>> \in joined[d])'
    BY DEF DeleteInv
  <2>1. pc'[d] = pc[d] /\ UNCHANGED <<rooms, id, roomId, room, victims>>
    BY <1>3 DEF JoinAdd, Goto
  <2>2. ASSUME pc[d] \in {"evicting", "returned"}, NEW c \in members'[room[d]]
        PROVE  c \in victims[d] \/ <<room[d], c>> \in joined'[d]
    <3>1. CASE room[d] = room[j] /\ c = client[j]
      BY <1>3, <2>2, <3>1, JoinNoted
    <3>2. CASE ~(room[d] = room[j] /\ c = client[j])
      <4>1. room[d] \in Room
        BY <2>2
      <4>2. c \in members[room[d]]
        <5>1. members'[room[d]] = IF room[d] = room[j] THEN members[room[d]] \cup {client[j]}
                                                       ELSE members[room[d]]
          <6> HIDE DEF TypeOK, LocalsSet, KnownCreated, DeleteInv
          <6> QED BY <1>3, <4>1, JoinNoted
        <5> HIDE DEF TypeOK, LocalsSet, KnownCreated, DeleteInv
        <5> QED BY <2>2, <3>2, <5>1
      <4>3. joined[d] \subseteq joined'[d]
        BY <1>3, <2>2, JoinNoted
      <4>4. c \in victims[d] \/ <<room[d], c>> \in joined[d]
        BY <2>2, <4>2
      <4> HIDE DEF TypeOK, LocalsSet, KnownCreated, DeleteInv
      <4> QED BY <4>3, <4>4
    <3> QED BY <3>1, <3>2
  <2> QED BY <2>1, <2>2 DEF DeleteInv, Listed
<1>4. ASSUME NEW x \in Leaver, LeaveLookup(x) PROVE DeleteInv'
  BY <1>4 DEF LeaveLookup, Lookup, Goto
<1>5. ASSUME NEW x \in Leaver, LeaveRemove(x) PROVE DeleteInv'
  BY <1>5 DEF LeaveRemove, Goto, RemoveMember
<1> QED
  BY <1>1, <1>2, <1>3, <1>4, <1>5 DEF MemberNext

\* The steps of LeaveAllFromRoom, DeleteRoom and DeleteEmptyRooms calls undo no DeleteRoom but by a join it must allow for.
LEMMA RemoveDeleteInv ==
  ASSUME TypeOK, LocalsSet, KnownCreated, DeleteInv, RemoveNext
  PROVE DeleteInv'
<1> USE DEF TypeOK, LocalsSet, KnownCreated, Listed, Created, DeleteInv
<1>1. ASSUME NEW d \in Deleter \cup Emptier, NEW i \in RoomId, Remove(d, i) PROVE DeleteInv'
  BY <1>1 DEF Remove, Goto
<1>2. ASSUME NEW d \in Remover, RemoveLookup(d) PROVE DeleteInv'
  BY <1>2 DEF RemoveLookup, Lookup, Goto
<1>3. ASSUME NEW d \in Remover, RemoveClients(d) PROVE DeleteInv'
  BY <1>3 DEF RemoveClients, Goto
<1>4. ASSUME NEW d \in Remover, NEW c \in Client, RemoveEvict(d, c) PROVE DeleteInv'
  BY <1>4 DEF RemoveEvict, RemoveMember
<1>5. ASSUME NEW d \in Remover, RemoveRoom(d) PROVE DeleteInv'
  BY <1>5 DEF RemoveRoom, Goto, Evicted
<1>6. ASSUME NEW w \in Sweeper, NEW exclude \in SUBSET RoomId, Sweep(w, exclude) PROVE DeleteInv'
  BY <1>6 DEF Sweep, Goto
<1>7. ASSUME NEW w \in Sweeper, NEW o \in Room, SweepVisit(w, o) PROVE DeleteInv'
  BY <1>7 DEF SweepVisit, Goto
<1>8. ASSUME NEW w \in Sweeper, SweepEnd(w) PROVE DeleteInv'
  BY <1>8 DEF SweepEnd, Goto
<1> QED
  BY <1>1, <1>2, <1>3, <1>4, <1>5, <1>6, <1>7, <1>8 DEF RemoveNext

\* The hub's removal of a client undoes no DeleteRoom but by a join it must allow for.
LEMMA HubDeleteInv ==
  ASSUME TypeOK, LocalsSet, KnownCreated, DeleteInv, HubNext
  PROVE DeleteInv'
<1> USE DEF TypeOK, LocalsSet, KnownCreated, Listed, Created, DeleteInv
<1>1. ASSUME NEW c \in Client, HubBegin(c) PROVE DeleteInv'
  BY <1>1 DEF HubBegin
<1>2. ASSUME NEW o \in Room, HubVisit(o) PROVE DeleteInv'
  BY <1>2 DEF HubVisit, InRoom
<1>3. ASSUME NEW o \in Room, HubLookup(o) PROVE DeleteInv'
  BY <1>3 DEF HubLookup
<1>4. CASE HubRemove
  BY <1>4 DEF HubRemove, RemoveMember
<1>5. CASE HubEnd
  BY <1>5 DEF HubEnd
<1> QED
  BY <1>1, <1>2, <1>3, <1>4, <1>5 DEF HubNext
-----------------------------------------------------------------------------
(* Together                                                                *)

\* The strengthening that makes the properties inductive.
IInv == TypeOK /\ LocalsSet /\ KnownCreated /\ LeaveInv /\ DeleteInv

\* An empty hub with no call under way satisfies all of it.
LEMMA InitInv == Init => IInv
<1> SUFFICES ASSUME Init PROVE IInv
  OBVIOUS
<1> USE DEF Init
<1>1. TypeOK
  BY DEF TypeOK
<1>2. LocalsSet
  BY DEF LocalsSet
<1>3. KnownCreated
  BY DEF KnownCreated, Listed
<1>4. LeaveInv
  BY DEF LeaveInv
<1>5. DeleteInv
  BY DEF DeleteInv
<1> QED
  BY <1>1, <1>2, <1>3, <1>4, <1>5 DEF IInv

\* Stop empties h.Rooms: there is less to be a member of.
LEMMA StopInv == IInv /\ Stop => IInv'
<1> SUFFICES ASSUME IInv, Stop PROVE IInv'
  OBVIOUS
<1>1. /\ UNCHANGED <<id, name, members, callVars, hubVars, joined>>
      /\ rooms' = [i \in RoomId |-> None] /\ stopped' = TRUE /\ Listed' = {}
  BY DEF Stop, Listed
<1>2. TypeOK'
  BY <1>1 DEF IInv, TypeOK
<1>3. LocalsSet'
  BY <1>1 DEF IInv, LocalsSet
<1>4. KnownCreated'
  BY <1>1 DEF IInv, KnownCreated, Created
<1>5. LeaveInv'
  BY <1>1 DEF IInv, LeaveInv, LocalsSet
<1>6. DeleteInv'
  BY <1>1 DEF IInv, DeleteInv
<1> QED
  BY <1>2, <1>3, <1>4, <1>5, <1>6 DEF IInv

\* Every step keeps all of it.
LEMMA StepInv == IInv /\ [Next]_vars => IInv'
<1> SUFFICES ASSUME IInv, [Next]_vars PROVE IInv'
  OBVIOUS
<1>1. CASE CreateNext
  BY <1>1, CreateTypeOK, CreateLocalsSet, CreateKnownCreated, CreateLeaveInv,
     CreateDeleteInv DEF IInv
<1>2. CASE MemberNext
  BY <1>2, MemberTypeOK, MemberLocalsSet, MemberKnownCreated, MemberLeaveInv,
     MemberDeleteInv DEF IInv
<1>3. CASE RemoveNext
  BY <1>3, RemoveTypeOK, RemoveLocalsSet, RemoveKnownCreated, RemoveLeaveInv,
     RemoveDeleteInv DEF IInv
<1>4. CASE HubNext
  BY <1>4, HubTypeOK, HubLocalsSet, HubKnownCreated, HubLeaveInv, HubDeleteInv DEF IInv
<1>5. CASE Stop
  BY <1>5, StopInv
<1>6. CASE UNCHANGED vars
  BY <1>6 DEF vars, IInv, TypeOK, LocalsSet, KnownCreated, LeaveInv, DeleteInv,
     Listed, Created
<1> QED
  BY <1>1, <1>2, <1>3, <1>4, <1>5, <1>6 DEF Next

\* All of it holds throughout.
LEMMA Invariance == Spec => []IInv
  BY InitInv, StepInv, PTL DEF Spec

\* Every variable stays within its type and a room is listed under its own id,
\* for any number of calls (CreateRoom to Stop, hub.go:213-587).
THEOREM TypeCorrect == Spec => []TypeOK
<1>1. IInv => TypeOK
  BY DEF IInv
<1> QED BY <1>1, Invariance, PTL

\* LeaveRoom (hub.go:378-384) has removed its client from the room with its id
\* once it returns, but for a join that came after it began.
THEOREM LeaveRoomEffective == Spec => []LeaveEffective
<1>1. IInv => LeaveEffective
  BY DEF IInv, LeaveInv, LeaveEffective
<1> QED BY <1>1, Invariance, PTL

\* DeleteRoom (hub.go:391-401) has delisted the room it found, for ever, and
\* emptied it of all who had joined before it began.
THEOREM DeleteRoomEffective == Spec => []DeleteEffective
<1>1. IInv => DeleteEffective
  BY DEF IInv, DeleteInv, DeleteEffective
<1> QED BY <1>1, Invariance, PTL
=============================================================================
