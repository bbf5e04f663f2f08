------------------------- MODULE ConnectivityMonitor -------------------------
(***************************************************************************)
(* The rolling window of connectivity samples,                             *)
(* src/Diagnostics/Connectivity/ConnectivityMonitor.cs: one background     *)
(* loop probes both address families, records the two samples under the    *)
(* lock, publishes the gauges and waits for the timer; Snapshot summarises *)
(* the window at any moment.                                               *)
(*                                                                         *)
(* A latency is reduced to whether there is one.  The clock counts units   *)
(* in which Interval and Window are given, and only goes forward.          *)
(***************************************************************************)
EXTENDS Naturals, Sequences, FiniteSets, SequencesExt, Recency

CONSTANTS
  Families,   \* the address families
  Targets,    \* Targets[f]: the number of targets configured for f
  Interval,   \* IntervalSeconds
  Window,     \* WindowSeconds
  MaxPoints,  \* maxPoints, 288 in the code
  Recent,     \* the samples a status looks back on, 5 in the code
  MaxTime     \* bound of the model: the clock stops here

ASSUME MonitorAssumption ==
  /\ Targets \in [Families -> Nat]
  /\ Interval \in Nat \ {0}
  /\ Window \in Nat
  /\ MaxPoints \in Nat \ {0}
  /\ Recent \in Nat \ {0}
  /\ MaxTime \in Nat

VARIABLES
  now,       \* the clock
  due,       \* when the timer ticks next
  stopping,  \* stoppingToken is cancelled
  loop,      \* where the loop is
  left,      \* left[f]: targets ProbeFamilyAsync has yet to give up on
  result,    \* result[f]: what became of the task that probes f
  stamp,     \* the local now of SampleOnceAsync
  samples,   \* _samples[f]
  unsent,    \* families whose gauges are yet to be published in this round
  up,        \* up[f]: the gauge ConnectivityUp, "unset" before the first round
  taken      \* history: every pair of samples ever recorded

monitorVars == <<now, due, stopping, loop, left, result, stamp, samples, unsent, up, taken>>

Configured == {f \in Families : Targets[f] > 0}

Sample == [at : Nat, ok : BOOLEAN]

\* ProbeFamilyAsync returns null at once for a family without targets.
FirstResult == [f \in Families |-> IF f \in Configured THEN "pending" ELSE "failed"]

MonitorInit ==
  /\ now = 0
  /\ due = Interval
  /\ stopping = FALSE
  /\ loop = "probing"
  /\ left = Targets
  /\ result = FirstResult
  /\ stamp = 0
  /\ samples = [f \in Families |-> <<>>]
  /\ unsent = {}
  /\ up = [f \in Families |-> "unset"]
  /\ taken = <<>>

Answered(s) == {i \in 1..Len(s) : s[i].ok}

------------------------------------------------------------------------------
(* What Snapshot and PublishMetrics make of a family's samples              *)

\* Slip: a point is up only if all of its samples are.
PointsStrict(s) ==
  LET size == (Len(s) + MaxPoints - 1) \div MaxPoints
      End(i) == IF i * size < Len(s) THEN i * size ELSE Len(s)
      Chunk(i) == SubSeq(s, (i - 1) * size + 1, End(i))
  IN  IF Len(s) <= MaxPoints
      THEN s
      ELSE [i \in 1..(Len(s) + size - 1) \div size |->
             [at |-> Chunk(i)[1].at, ok |-> Answered(Chunk(i)) = 1..Len(Chunk(i))]]

\* Downsample: chunks of equal size, each with the time of its first sample and
\* the average of the latencies it has.
Points(s) ==
  LET size == (Len(s) + MaxPoints - 1) \div MaxPoints
      End(i) == IF i * size < Len(s) THEN i * size ELSE Len(s)
      Chunk(i) == SubSeq(s, (i - 1) * size + 1, End(i))
  IN  IF Len(s) <= MaxPoints
      THEN s
      ELSE [i \in 1..(Len(s) + size - 1) \div size |->
             [at |-> Chunk(i)[1].at, ok |-> Answered(Chunk(i)) # {}]]

Newest(s) == IF Len(s) <= Recent THEN s ELSE SubSeq(s, Len(s) - Recent + 1, Len(s))

\* Summarise's status of a family with samples.
Status(s) ==
  CASE Last(s).ok -> "operational"
    [] ~Last(s).ok /\ 2 * Cardinality(Answered(Newest(s))) >= Len(Newest(s)) -> "degraded"
    [] OTHER -> "outage"

------------------------------------------------------------------------------
(* The environment                                                          *)

Tick ==
  /\ now < MaxTime
  /\ now' = now + 1
  /\ UNCHANGED <<due, stopping, loop, left, result, stamp, samples, unsent, up, taken>>

StopService ==
  /\ ~stopping
  /\ stopping' = TRUE
  /\ UNCHANGED <<now, due, loop, left, result, stamp, samples, unsent, up, taken>>

------------------------------------------------------------------------------
(* The loop                                                                 *)

Probing(f) == loop = "probing" /\ result[f] = "pending"

\* A target answers and the family is done.
Answer(f) ==
  /\ Probing(f)
  /\ result' = [result EXCEPT ![f] = "answered"]
  /\ UNCHANGED <<now, due, stopping, loop, left, stamp, samples, unsent, up, taken>>

\* A target refuses or does not answer in time: on to the next one.
Miss(f) ==
  /\ Probing(f)
  /\ left' = [left EXCEPT ![f] = @ - 1]
  /\ result' = [result EXCEPT ![f] = IF left[f] = 1 THEN "failed" ELSE "pending"]
  /\ UNCHANGED <<now, due, stopping, loop, stamp, samples, unsent, up, taken>>

\* A probe throws what ProbeAsync does not expect.
Fault(f) ==
  /\ Probing(f)
  /\ result' = [result EXCEPT ![f] = "thrown"]
  /\ UNCHANGED <<now, due, stopping, loop, left, stamp, samples, unsent, up, taken>>

\* A probe is cancelled by the service stopping.
Abort(f) ==
  /\ Probing(f)
  /\ stopping
  /\ result' = [result EXCEPT ![f] = "cancelled"]
  /\ UNCHANGED <<now, due, stopping, loop, left, stamp, samples, unsent, up, taken>>

Thrown == \E f \in Families : result[f] = "thrown"
Cancelled == \E f \in Families : result[f] = "cancelled"

\* Slip: an unexpected exception leaves the loop.
GatherUncaught ==
  /\ loop = "probing"
  /\ \A f \in Families : result[f] # "pending"
  /\ loop' = IF Thrown \/ Cancelled THEN "over" ELSE "recording"
  /\ stamp' = now
  /\ UNCHANGED <<now, due, stopping, left, result, samples, unsent, up, taken>>

\* WhenAll: a fault of either task outweighs a cancellation and is logged, a
\* cancellation ends the loop, and otherwise the clock is read.  (A round's results
\* are forgotten when it is through with them.)
Gather ==
  /\ loop = "probing"
  /\ \A f \in Families : result[f] # "pending"
  /\ loop' = IF Thrown THEN "waiting" ELSE IF Cancelled THEN "over" ELSE "recording"
  /\ stamp' = IF Thrown \/ Cancelled THEN stamp ELSE now
  /\ result' = IF Thrown \/ Cancelled THEN FirstResult ELSE result
  /\ UNCHANGED <<now, due, stopping, left, samples, unsent, up, taken>>

\* Slip: a sample without a latency is taken for no sample.
RecordedAnswers(f) ==
  IF result[f] = "answered"
  THEN Within(Append(samples[f], [at |-> stamp, ok |-> TRUE]), Window, stamp)
  ELSE samples[f]

\* Record: add the sample and drop those that have left the window.
Recorded(f) ==
  IF f \in Configured
  THEN Within(Append(samples[f], [at |-> stamp, ok |-> result[f] = "answered"]), Window, stamp)
  ELSE samples[f]

RecordBoth ==
  /\ loop = "recording"
  /\ loop' = "publishing"
  /\ samples' = [f \in Families |-> Recorded(f)]
  /\ taken' = Append(taken, [at |-> stamp, ok |-> [f \in Families |-> result[f] = "answered"]])
  /\ unsent' = Configured
  /\ result' = FirstResult
  /\ UNCHANGED <<now, due, stopping, left, stamp, up>>

\* PublishMetrics: the gauge shows the last of the points that are plotted.
Publish(f) ==
  /\ loop = "publishing"
  /\ f \in unsent
  /\ up' = [up EXCEPT ![f] = IF Last(Points(samples[f])).ok THEN "up" ELSE "down"]
  /\ unsent' = unsent \ {f}
  /\ UNCHANGED <<now, due, stopping, loop, left, result, stamp, samples, taken>>

RoundOver ==
  /\ loop = "publishing"
  /\ unsent = {}
  /\ loop' = "waiting"
  /\ UNCHANGED <<now, due, stopping, left, result, stamp, samples, unsent, up, taken>>

\* WaitForNextTickAsync: ticks that were missed count once.
NextTick ==
  /\ loop = "waiting"
  /\ now >= due
  /\ ~stopping
  /\ due' = due + ((now - due) \div Interval + 1) * Interval
  /\ loop' = "probing"
  /\ left' = Targets
  /\ UNCHANGED <<now, stopping, result, stamp, samples, unsent, up, taken>>

\* Slip: the wait is not given the token.
StopWaitingLate ==
  /\ loop = "waiting"
  /\ stopping
  /\ now >= due
  /\ loop' = "over"
  /\ UNCHANGED <<now, due, stopping, left, result, stamp, samples, unsent, up, taken>>

\* The wait is cancelled.
StopWaiting ==
  /\ loop = "waiting"
  /\ stopping
  /\ loop' = "over"
  /\ UNCHANGED <<now, due, stopping, left, result, stamp, samples, unsent, up, taken>>

Loop ==
  \/ Gather \/ RecordBoth \/ RoundOver \/ NextTick \/ StopWaiting
  \/ \E f \in Families : Publish(f)

Probes == \E f \in Families : Answer(f) \/ Miss(f) \/ Fault(f) \/ Abort(f)

MonitorNext == Tick \/ StopService \/ Probes \/ Loop

MonitorSpec == MonitorInit /\ [][MonitorNext]_monitorVars

\* Every probe ends, as each has a timeout, and the loop's steps are the runtime's.
MonitorFairSpec == MonitorSpec /\ WF_monitorVars(Probes) /\ WF_monitorVars(Loop)

------------------------------------------------------------------------------
(* Properties                                                               *)

\* The window, pruned round by round, is the tail of all that was ever recorded:
\* no outage is forgotten before it is old enough, none is kept longer, and a
\* round that throws leaves no sample of one family without one of the other.
WindowKept == \A f \in Configured :
  samples[f] = Within([i \in 1..Len(taken) |-> [at |-> taken[i].at, ok |-> taken[i].ok[f]]],
                      Window, Last(taken).at)

\* The card's status, the plotted points and the uptime of one snapshot tell
\* the same story, downsampled or not, and the gauge, once published, reports a
\* family down only if its last sample failed.
SnapshotCoherent == \A f \in Configured : samples[f] # <<>> =>
  LET s == samples[f]
      p == Points(s)
  IN  /\ Len(p) \in 1..MaxPoints
      /\ p[1].at = s[1].at
      /\ Status(s) = "operational" => Last(p).ok
      /\ Status(s) = "outage" => Answered(s) # 1..Len(s)
      /\ Answered(s) = {} <=> Answered(p) = {}
      /\ up[f] = "down" /\ f \notin unsent => ~Last(s).ok
      /\ Answered(s) = 1..Len(s) => Status(s) = "operational" /\ Answered(p) = 1..Len(p)

\* Whatever the probes throw, sampling goes on until the service stops.
LoopSurvives == loop = "over" => stopping

\* Late, failing and cancelled probes cost neither a round of the window nor the loop.
SamplingKept == WindowKept /\ LoopSurvives

\* The service stops in the middle of any round or wait.
StopEnds == stopping ~> loop = "over"

------------------------------------------------------------------------------
\* DiagnosticsMetrics.cs describes the gauge as "Whether the most recent
\* connectivity probe succeeded".
UpIsMostRecent == \A f \in Configured :
  up[f] = "up" /\ f \notin unsent => Last(samples[f]).ok
==============================================================================
