---------------------------- MODULE EgressService ----------------------------
(***************************************************************************)
(* The worker's discovery of its public addresses,                         *)
(* src/Diagnostics/Connectivity/EgressService.cs.  The check, the gate and *)
(* the second check are those of TtlCache; behind them a call discovers    *)
(* all families that are not configured at once, under its own token, and  *)
(* caches what was found, a complete failure for a shorter time.           *)
(*                                                                         *)
(* A set of families stands for the addresses of these families.           *)
(***************************************************************************)
EXTENDS Naturals

CONSTANTS
  Calls,       \* the calls of GetAsync
  Families,    \* the address families
  Known,       \* the families whose address is configured
  None,        \* stands for a null _cached
  CacheFor,    \* CacheMinutes
  FailureFor,  \* FailureCache
  MaxTime      \* bound of the model: the clock stops here

VARIABLES
  now, pc, cancelled, start, got, outcome, cell, expires, gate, line,
  task   \* task[r][f]: the task that discovers family f for call r

\* What a discovery came to: the families found, and, as history, those whose
\* discovery was lost to the network.
Results == [found : SUBSET Families, lost : SUBSET Families]

\* Slip: a failure is cached like an answer, and an answer like a failure.
LifetimeSwapped(v) == IF v.found = {} THEN CacheFor ELSE FailureFor

Lifetime(v) == IF v.found = {} THEN FailureFor ELSE CacheFor

\* _cached and _expires are cell and expires, _refresh is the gate.
Cache == INSTANCE TtlCache WITH
  Caches <- {"egress"}, CacheOf <- [r \in Calls |-> "egress"],
  Values <- Results, Empty <- None, Life <- Lifetime

\* running    the request is under way
\* broken     it failed: refused, timed out
\* cut        it was cancelled with the call
\* found, lost, cancelled   how DiscoverAsync ended: an address, null (also for a
\*            body that is no address), an exception
Tasks == {"none", "running", "broken", "cut", "found", "lost", "cancelled"}

Idle == [f \in Families |-> "none"]

Init == Cache!Init /\ task = [r \in Calls |-> Idle]

\* With every family configured nothing is looked up.
Arrive(r) ==
  /\ UNCHANGED task
  /\ \/ Known # Families /\ Cache!Call(r)
     \/ /\ Known = Families
        /\ pc[r] = "idle"
        /\ pc' = [pc EXCEPT ![r] = "done"]
        /\ outcome' = [outcome EXCEPT ![r] = "value"]
        /\ UNCHANGED <<now, cancelled, start, got, cell, expires, gate, line>>

\* HttpContext.RequestAborted of the internal endpoint.
Abort(r) == Cache!Cancel(r) /\ UNCHANGED task

\* The steps up to the discovery and after it.
Gated(r) == Cache!Step(r) /\ pc[r] # "idle" /\ UNCHANGED task

\* Both discoveries set off.
Discover(r) ==
  /\ Cache!Fill(r)
  /\ task' = [task EXCEPT ![r] = [f \in Families |-> IF f \in Known THEN "none" ELSE "running"]]

\* What the network makes of a request; one whose call is aborted is cut off, if
\* it was not through before.
Respond(r, f, result) ==
  /\ task[r][f] = "running"
  /\ result = "cut" => cancelled[r]
  /\ task' = [task EXCEPT ![r][f] = result]
  /\ UNCHANGED <<now, pc, cancelled, start, got, outcome, cell, expires, gate, line>>

\* Slip: a cancelled request is logged like any other failure.
CatchAll(r, f) ==
  /\ task[r][f] \in {"broken", "cut"}
  /\ task' = [task EXCEPT ![r][f] = IF task[r][f] = "cut" THEN "none" ELSE "lost"]
  /\ UNCHANGED <<now, pc, cancelled, start, got, outcome, cell, expires, gate, line>>

\* The catch clause of DiscoverAsync.
Catch(r, f) ==
  /\ task[r][f] \in {"broken", "cut"}
  /\ task' = [task EXCEPT ![r][f] = IF cancelled[r] THEN "cancelled" ELSE "lost"]
  /\ UNCHANGED <<now, pc, cancelled, start, got, outcome, cell, expires, gate, line>>

Over(r) == \A f \in Families : task[r][f] \in {"none", "found", "lost", "cancelled"}
Ending(r, how) == {f \in Families : task[r][f] = how}

\* WhenAll throws if either discovery did ...
GatherThrows(r) ==
  /\ Over(r) /\ Ending(r, "cancelled") # {}
  /\ Cache!FillCancelled(r)
  /\ task' = [task EXCEPT ![r] = Idle]

\* ... and otherwise _cached is written.
Gather(r) ==
  /\ Over(r) /\ Ending(r, "cancelled") = {}
  /\ Cache!FillReturns(r, [found |-> Ending(r, "found"), lost |-> Ending(r, "lost")])
  /\ task' = [task EXCEPT ![r] = Idle]

\* What the caller is told: the configured addresses, and for the others what
\* was found.
Told(r) == Known \cup (IF got[r] = None THEN {} ELSE got[r].val.found)

Network(r) == \E f \in Families : \E result \in {"found", "lost", "broken", "cut"} : Respond(r, f, result)

Step(r) ==
  \/ Gated(r) \/ Discover(r)
  \/ \E f \in Families : Catch(r, f)
  \/ GatherThrows(r) \/ Gather(r)

------------------------------------------------------------------------------
(* Properties                                                               *)

\* An address is missing from what a caller is told only if the network failed to
\* deliver it: that another caller went away in the middle of the discovery is
\* never taken, and cached, for an address that does not exist.
AbsenceIsReal == \A r \in Calls : outcome[r] = "value" =>
  Told(r) \cup (IF got[r] = None THEN {} ELSE got[r].val.lost) = Families

\* A complete failure is remembered for FailureFor and no longer, an answer for
\* CacheFor and no longer, counted from its making to the moment a call came.
EgressFresh == \A r \in Calls : Known # Families /\ outcome[r] = "value" =>
  /\ got[r] # None
  /\ start[r] < got[r].at + (IF got[r].val.found # {} THEN CacheFor ELSE FailureFor)
==============================================================================
