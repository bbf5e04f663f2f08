------------------------------- MODULE Recency -------------------------------
(***************************************************************************)
(* What stays of a list of dated entries when those that are too old are   *)
(* removed from it: RemoveAll in ActivityLog.Prune and in                  *)
(* ConnectivityMonitor.Record.                                             *)
(***************************************************************************)
EXTENDS Integers, Sequences

NotOlder(e, span, now) == e.at + span >= now

\* The entries of s that are not older than span, in their order.
Within(s, span, now) ==
  LET kept[i \in 0..Len(s)] ==
        IF i = 0 THEN <<>>
        ELSE IF NotOlder(s[i], span, now) THEN Append(kept[i - 1], s[i]) ELSE kept[i - 1]
  IN kept[Len(s)]
==============================================================================
