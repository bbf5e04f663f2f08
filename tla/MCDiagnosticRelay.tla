-------------------------- MODULE MCDiagnosticRelay --------------------------
(* An instance of DiagnosticRelay for TLC.  A behaviour has one of two       *)
(* scenes: in "clocks" the day turns, the feed's clock jumps and visitors    *)
(* look at the feed while every diagnostic goes its normal way; in "faults"  *)
(* the clocks stand still, and callers and connections come and go.          *)
EXTENDS DiagnosticRelay

VARIABLE scene

MCInit == RelayInit /\ scene \in {"clocks", "faults"}

Faults == \E r \in Calls : Breaks(r) \/ Abort(r)

MCNext ==
  /\ UNCHANGED scene
  /\ \/ scene = "clocks" /\ Others
     \/ scene = "faults" /\ Faults
     \/ \E r \in Calls : Arrive(r) \/ RelayStep(r) \/ Answers(r) \/ WorkEnds(r)

MCSpec ==
  /\ MCInit
  /\ [][MCNext]_<<relayVars, scene>>
  /\ \A r \in Calls : WF_relayVars(RelayStep(r))
==============================================================================
