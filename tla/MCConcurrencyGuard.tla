-------------------------- MODULE MCConcurrencyGuard --------------------------
(* An instance of ConcurrencyGuard for TLC: two clients, one of them with    *)
(* all connections but one.                                                 *)
EXTENDS ConcurrencyGuard

CONSTANTS r1, r2, r3, r4, r5, busy, other

MCRequests == {r1, r2, r3, r4, r5}
MCClients == {busy, other}
MCClientOf == [r \in MCRequests |-> IF r = r5 THEN other ELSE busy]
===============================================================================
