--------------------------- MODULE MCRateLimiter ---------------------------
(* A small instance of RateLimiter: a client and an address with bursts of *)
(* one token.  The client earns it within EntryTTL, the address does not.  *)
EXTENDS RateLimiter

CONSTANTS client, address, c1, c2, c3

MCKey == {client, address}
MCClientKey == {client}
MCCost == [k \in MCKey |-> IF k = client THEN 2 ELSE 4]
MCCapacity == MCCost

MCCaller == {c1, c2, c3}
MCAsks == [c \in MCCaller |-> IF c = c1 THEN MCClientKey ELSE MCKey]
=============================================================================
