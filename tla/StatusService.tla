----------------------------- MODULE StatusService -----------------------------
(***************************************************************************)
(* The status of the Looking Glass: StatusService and DisabledBgpProvider  *)
(* of src/Api/Services/InfoServices.cs, the two calls of                   *)
(* DiagnosticsClient.cs it waits for, and the headline the page makes of   *)
(* the answer (src/Web/src/lib/statusView.ts).  The cache in front of it   *)
(* is TtlCache's matter.                                                   *)
(***************************************************************************)
EXTENDS FiniteSets

CONSTANT BgpEnabled  \* Bgp:Enabled

VARIABLES
  building,  \* BuildAsync runs
  ready,     \* CheckReadyAsync: "pending", "up" (a latency), "down" (null), "cancelled"
  perf,      \* TryGetPerformanceAsync, by tag: the families' statuses, or none
  shown      \* the last answer, by tag

statusVars == <<building, ready, perf, shown>>

Statuses == {"operational", "degraded", "outage", "notConfigured"}

Pending == [is |-> "pending"]

StatusInit ==
  /\ building = FALSE
  /\ ready = "pending"
  /\ perf = Pending
  /\ shown = [is |-> "nothing"]

Build ==
  /\ ~building
  /\ building' = TRUE
  /\ ready' = "pending"
  /\ perf' = Pending
  /\ UNCHANGED shown

\* The worker is ready, is not, cannot be reached or does not answer within two seconds.
Readiness ==
  /\ building /\ ready = "pending"
  /\ ready' \in {"up", "down", "cancelled"}
  /\ UNCHANGED <<building, perf, shown>>

\* The worker's snapshot; none if the call fails.  A connection that breaks within the
\* answer is no LookingGlassException and is not caught, nor is a cancellation.
Performance ==
  /\ building /\ perf = Pending
  /\ \/ \E s4, s6 \in Statuses : perf' = [is |-> "taken", ipv4 |-> s4, ipv6 |-> s6]
     \/ perf' = [is |-> "none"]
     \/ perf' = [is |-> "thrown"]
  /\ UNCHANGED <<building, ready, shown>>

Components ==
  [id \in {"web", "api", "diagnostics", "bgp", "ipv4", "ipv6"} |->
     CASE id \in {"web", "api"} -> "operational"
       [] id = "diagnostics"    -> IF ready = "up" THEN "operational" ELSE "outage"
       [] id = "bgp"            -> IF BgpEnabled THEN "outage" ELSE "notConfigured"
       [] OTHER                 -> IF perf.is = "taken" THEN perf[id] ELSE "degraded"]

\* Slip: a family that is not monitored counts as one.
OverallOfAll(c) ==
  LET rest == {id \in DOMAIN c : c[id] # "notConfigured"}
  IN IF \/ "outage" \in {c[id] : id \in {"web", "api", "diagnostics"}}
        \/ c["ipv4"] = "outage" /\ c["ipv6"] = "outage"
     THEN "outage"
     ELSE IF \E id \in rest : c[id] # "operational" THEN "degraded" ELSE "operational"

Overall(c) ==
  LET ip   == {id \in {"ipv4", "ipv6"} : c[id] # "notConfigured"}
      rest == {id \in DOMAIN c : c[id] # "notConfigured"}
  IN IF \/ "outage" \in {c[id] : id \in {"web", "api", "diagnostics"}}
        \/ ip # {} /\ \A id \in ip : c[id] = "outage"
     THEN "outage"
     ELSE IF \E id \in rest : c[id] # "operational" THEN "degraded" ELSE "operational"

\* WhenAll, and what is made of the two.
Compose ==
  /\ building /\ ready # "pending" /\ perf # Pending
  /\ building' = FALSE
  /\ shown' = IF ready = "cancelled" \/ perf.is = "thrown" THEN [is |-> "error"]
              ELSE [is |-> "status", overall |-> Overall(Components), components |-> Components]
  /\ UNCHANGED <<ready, perf>>

StatusNext == Build \/ Readiness \/ Performance \/ Compose

StatusSpec == StatusInit /\ [][StatusNext]_statusVars

\* describeOverall: the components the headline names.
Affected ==
  {id \in DOMAIN shown.components : shown.components[id] \in {"degraded", "outage"}}

------------------------------------------------------------------------------
\* The headline and the list below it tell one story: all is well exactly if nothing
\* is listed, and a disruption means that the worker is down or that no family that is
\* monitored has connectivity; what is not configured changes neither.
OneStory == shown.is = "status" /\ ~building =>
  LET monitored == {f \in {"ipv4", "ipv6"} : shown.components[f] # "notConfigured"}
  IN /\ shown.overall = "operational" <=> Affected = {}
     /\ shown.overall = "outage" <=>
          \/ ready = "down"
          \/ perf.is = "taken" /\ monitored # {} /\ \A f \in monitored : perf[f] = "outage"
     /\ "bgp" \in Affected => BgpEnabled
==============================================================================
