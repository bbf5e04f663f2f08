--------------------------- MODULE BoundedAdmission ---------------------------
(***************************************************************************)
(* What DiagnosticsExecutor promises, with no counter, no semaphore and no *)
(* timer: at most MaxConcurrent requests are served at once, at most       *)
(* MaxQueued stand in line behind them, the line is served in order, and a *)
(* slot is never idle while somebody stands in line.  A request may be     *)
(* turned away, and may walk out of the line, at any time.                 *)
(***************************************************************************)
EXTENDS Naturals, FiniteSets, Sequences, SequencesExt

CONSTANTS Requests, MaxConcurrent, MaxQueued

VARIABLES
  stage,  \* stage[r] \in {"new", "waiting", "serving", "done"}
  line    \* the waiting requests, longest waiting first

avars == <<stage, line>>

Served == {r \in Requests : stage[r] = "serving"}

AInit ==
  /\ stage = [r \in Requests |-> "new"]
  /\ line = <<>>

\* A free slot goes to a newcomer only when nobody stands in line.
Admit(r) ==
  /\ stage[r] = "new"
  /\ line = <<>>
  /\ Cardinality(Served) < MaxConcurrent
  /\ stage' = [stage EXCEPT ![r] = "serving"]
  /\ UNCHANGED line

Join(r) ==
  /\ stage[r] = "new"
  /\ Cardinality(Served) = MaxConcurrent
  /\ Len(line) < MaxQueued
  /\ stage' = [stage EXCEPT ![r] = "waiting"]
  /\ line' = Append(line, r)

TurnAway(r) ==
  /\ stage[r] = "new"
  /\ stage' = [stage EXCEPT ![r] = "done"]
  /\ UNCHANGED line

WalkOut(r) ==
  /\ stage[r] = "waiting"
  /\ stage' = [stage EXCEPT ![r] = "done"]
  /\ \E i \in 1..Len(line) : line[i] = r /\ line' = RemoveAt(line, i)

\* The slot of a request that ends goes straight to the head of the line.
Depart(r) ==
  /\ stage[r] = "serving"
  /\ IF line = <<>>
     THEN /\ stage' = [stage EXCEPT ![r] = "done"]
          /\ UNCHANGED line
     ELSE /\ stage' = [stage EXCEPT ![r] = "done", ![Head(line)] = "serving"]
          /\ line' = Tail(line)

\* Only a request that already holds a slot or already stands in line can be
\* given up between two steps of the code; one that ends without a slot
\* changes nothing else.
ANext == \E r \in Requests :
  Admit(r) \/ Join(r) \/ TurnAway(r) \/ WalkOut(r) \/ Depart(r)

ASpec == AInit /\ [][ANext]_avars
===============================================================================
