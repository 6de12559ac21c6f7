--------------------------- MODULE SessionEvents ---------------------------
(***************************************************************************)
(* What an application sees of a connection: the messages of the peer, in  *)
(* the order they were sent and each once, then at most one OnDisconnect   *)
(* and no message after it.                                                *)
(***************************************************************************)
EXTENDS Naturals

VARIABLES sent, handled, over    \* by the peer; by the handlers; OnDisconnect called

vars == <<sent, handled, over>>

Init == sent = 0 /\ handled = 0 /\ over = FALSE

Send == sent' = sent + 1 /\ UNCHANGED <<handled, over>>

Handle == /\ ~over /\ handled < sent
          /\ handled' = handled + 1
          /\ UNCHANGED <<sent, over>>

Disconnect == ~over /\ over' = TRUE /\ UNCHANGED <<sent, handled>>

Next == Send \/ Handle \/ Disconnect

Spec == Init /\ [][Next]_vars
=============================================================================
