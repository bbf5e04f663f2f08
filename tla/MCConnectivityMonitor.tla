------------------------- MODULE MCConnectivityMonitor -------------------------
(* An instance of ConnectivityMonitor for TLC: two targets over IPv4, one    *)
(* over IPv6.                                                               *)
EXTENDS ConnectivityMonitor

MCFamilies == {"ipv4", "ipv6"}
MCTargets == [f \in MCFamilies |-> IF f = "ipv4" THEN 2 ELSE 1]
================================================================================
