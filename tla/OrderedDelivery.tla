-------------------------- MODULE OrderedDelivery --------------------------
(***************************************************************************)
(* What the hub promises about broadcasts: every accepted broadcast gets   *)
(* one position in a single order, and each client sees a subsequence of   *)
(* that order.  A client may miss broadcasts (its buffer was full, or it   *)
(* connected late) but it never sees one twice and never sees two of them  *)
(* in an order other than the hub's, so any two clients agree.             *)
(***************************************************************************)
EXTENDS Naturals

CONSTANTS Client, Message

VARIABLES
  count,   \* number of broadcasts accepted so far
  pos,     \* position of each accepted broadcast, 0 for the others
  last     \* position of the last broadcast written to each client's socket

vars == <<count, pos, last>>

Init == /\ count = 0
        /\ pos = [m \in Message |-> 0]
        /\ last = [c \in Client |-> 0]

\* The hub takes the next broadcast.
Accept(m) == /\ pos[m] = 0
             /\ count' = count + 1
             /\ pos' = [pos EXCEPT ![m] = count + 1]
             /\ UNCHANGED last

\* The socket of c is given a broadcast later in the order than the last one.
Deliver(c, m) == /\ pos[m] > last[c]
                 /\ last' = [last EXCEPT ![c] = pos[m]]
                 /\ UNCHANGED <<count, pos>>

Next == \/ \E m \in Message : Accept(m)
        \/ \E c \in Client, m \in Message : Deliver(c, m)

Spec == Init /\ [][Next]_vars
=============================================================================
