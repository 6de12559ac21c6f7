---------------------------- MODULE RoomDelivery ----------------------------
(***************************************************************************)
(* What BroadcastToRoom promises: a broadcast reaches clients that were    *)
(* members of the room while it was called, each at most once, and never   *)
(* after one that was called when it had returned.  Of broadcasts called   *)
(* at the same time nothing is promised about their order, which may be    *)
(* another one at every client.                                            *)
(***************************************************************************)
EXTENDS Naturals

CONSTANTS Client, Caller

VARIABLES
  member,    \* who is in the room
  status,    \* of each call of BroadcastToRoom
  eligible,  \* who was a member during the call
  before,    \* the calls that had returned when it began
  got        \* how often each client was written each broadcast

vars == <<member, status, eligible, before, got>>

Init ==
  /\ member = {}
  /\ status = [b \in Caller |-> "idle"]
  /\ eligible = [b \in Caller |-> {}] /\ before = [b \in Caller |-> {}]
  /\ got = [c \in Client |-> [b \in Caller |-> 0]]

Join(c) ==
  /\ member' = member \cup {c}
  /\ eligible' = [b \in Caller |-> IF status[b] = "called" THEN eligible[b] \cup {c} ELSE eligible[b]]
  /\ UNCHANGED <<status, before, got>>

Leave(c) ==
  /\ member' = member \ {c}
  /\ UNCHANGED <<status, eligible, before, got>>

Call(b) ==
  /\ status[b] = "idle"
  /\ status' = [status EXCEPT ![b] = "called"]
  /\ eligible' = [eligible EXCEPT ![b] = member]
  /\ before' = [before EXCEPT ![b] = {x \in Caller : status[x] = "returned"}]
  /\ UNCHANGED <<member, got>>

Return(b) ==
  /\ status[b] = "called"
  /\ status' = [status EXCEPT ![b] = "returned"]
  /\ UNCHANGED <<member, eligible, before, got>>

Deliver(b, c) ==
  /\ c \in eligible[b] /\ got[c][b] = 0
  /\ \A x \in Caller : got[c][x] # 0 => b \notin before[x]
  /\ got' = [got EXCEPT ![c][b] = 1]
  /\ UNCHANGED <<member, status, eligible, before>>

Next ==
  \/ \E c \in Client : Join(c) \/ Leave(c)
  \/ \E b \in Caller : Call(b) \/ Return(b) \/ \E c \in Client : Deliver(b, c)

Spec == Init /\ [][Next]_vars
=============================================================================
