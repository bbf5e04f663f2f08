---------------------------- MODULE MCNetworkInfo ----------------------------
(* An instance of NetworkInfo for TLC: one replica, and its calls.           *)
EXTENDS NetworkInfo

CONSTANTS a1, a2, replica

MCCalls == {a1, a2}
MCCaches == {replica}
MCCacheOf == [r \in MCCalls |-> replica]
MCFamilies == {"ipv4", "ipv6"}
MCValues == SUBSET MCFamilies
MCLife(v) == 1
==============================================================================
