-------------------------- MODULE MCConnectionPool --------------------------
(* Instances of ConnectionPool for TLC.                                    *)
EXTENDS ConnectionPool

CONSTANTS r1, r2, r3, r4, near, far

\* Three requests of one address, one of another.
MCIpOf == [r \in Request |-> IF r = r4 THEN far ELSE near]
=============================================================================
