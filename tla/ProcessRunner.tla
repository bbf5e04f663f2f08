---------------------------- MODULE ProcessRunner ----------------------------
(***************************************************************************)
(* One run of a diagnostic tool,                                           *)
(* src/Diagnostics/Execution/ProcessRunner.cs: a child process, the two    *)
(* readers that copy its capped stdout and stderr, the callback that kills *)
(* it when the token is cancelled, and RunAsync, which waits for the exit  *)
(* and then for the readers.                                               *)
(*                                                                         *)
(* Output is counted in reads: one read of a reader is one unit, and a cap *)
(* is a number of units.  The tools run with LC_ALL=C, where the bytes the *)
(* cap counts and the characters the builder gets are the same number.     *)
(* The child, the helper it may have started (mtr starts mtr-packet, which *)
(* inherits stderr) and the operating system's pipes are the environment.  *)
(*                                                                         *)
(* A definition whose comment begins "Slip:" is the definition after it    *)
(* with a plausible mistake in it, kept to show that the properties notice *)
(* the mistake.                                                            *)
(***************************************************************************)
EXTENDS Naturals

CONSTANTS
  OutCap,    \* maxOutputBytes
  ErrCap,    \* MaxErrorBytes
  PipeSize,  \* what a pipe holds before its writer blocks
  MaxWrites  \* bound of the model: what the child writes to one stream

ASSUME RunnerAssumption ==
  /\ OutCap \in Nat
  /\ ErrCap \in Nat
  /\ PipeSize \in Nat \ {0}
  /\ MaxWrites \in Nat

Streams == {"out", "err"}
Cap == [s \in Streams |-> IF s = "out" THEN OutCap ELSE ErrCap]

VARIABLES
  pc,         \* where RunAsync is
  cancelled,  \* the token is cancelled
  notified,   \* the registered callback has run
  child,      \* "none", "running", or how it exited: "ok", "error", "killed"
  helper,     \* a process the child started still holds stderr
  written,    \* written[s]: what the child wrote to stream s
  kept,       \* kept[s]: what the reader of s appended to its builder
  reader,     \* reader[s]: "reading"; "limit", went over the cap and has yet to
              \* call onLimit; "over", stopped by the cap; "done", at the end
  truncated   \* the captured variable of the same name

vars == <<pc, cancelled, notified, child, helper, written, kept, reader, truncated>>

\* starting   before process.Start()
\* started    the child runs; registration and readers not there yet
\* waiting    in WaitForExitAsync
\* draining   in WhenAll(stdout, stderr)
\* returned, threw, failed   RunAsync is over; failed: Start threw
Ended == {"returned", "threw", "failed"}
Watching == {"waiting", "draining"}

Exits == {"ok", "error", "killed"}

Init ==
  /\ pc = "starting"
  /\ cancelled = FALSE
  /\ notified = FALSE
  /\ child = "none"
  /\ helper = FALSE
  /\ written = [s \in Streams |-> 0]
  /\ kept = [s \in Streams |-> 0]
  /\ reader = [s \in Streams |-> "reading"]
  /\ truncated = FALSE

Stopped == {"over", "done"}

\* What is in the pipe: the read that went over the cap was taken too.
Buffered(s) ==
  written[s] - kept[s] - (IF reader[s] \in {"limit", "over"} THEN 1 ELSE 0)

\* The write end of a pipe is open while a process holds it.
WriterGone(s) == child \in Exits /\ (s = "err" => ~helper)

------------------------------------------------------------------------------
(* The environment                                                          *)

Cancel ==
  /\ ~cancelled
  /\ pc \notin Ended
  /\ cancelled' = TRUE
  /\ UNCHANGED <<pc, notified, child, helper, written, kept, reader, truncated>>

\* A write blocks while the pipe is full.
Write(s) ==
  /\ child = "running"
  /\ written[s] < MaxWrites
  /\ Buffered(s) < PipeSize
  /\ written' = [written EXCEPT ![s] = @ + 1]
  /\ UNCHANGED <<pc, cancelled, notified, child, helper, kept, reader, truncated>>

SpawnHelper ==
  /\ child = "running"
  /\ ~helper
  /\ helper' = TRUE
  /\ UNCHANGED <<pc, cancelled, notified, child, written, kept, reader, truncated>>

Exit(status) ==
  /\ child = "running"
  /\ child' = status
  /\ UNCHANGED <<pc, cancelled, notified, helper, written, kept, reader, truncated>>

\* A helper whose parent has gone sees its own input close, and goes.
HelperLeaves ==
  /\ helper
  /\ child \in Exits
  /\ helper' = FALSE
  /\ UNCHANGED <<pc, cancelled, notified, child, written, kept, reader, truncated>>

------------------------------------------------------------------------------
(* RunAsync and its callbacks                                               *)

\* Kill(entireProcessTree: true) unless the child has exited; the children of
\* a process that has exited are not found any more.
TryKill ==
  IF child = "running"
  THEN child' = "killed" /\ helper' = FALSE
  ELSE UNCHANGED <<child, helper>>

\* process.Start(): the tool may be missing.
Start ==
  /\ pc = "starting"
  /\ \/ pc' = "started" /\ child' = "running"
     \/ pc' = "failed" /\ UNCHANGED child
  /\ UNCHANGED <<cancelled, notified, helper, written, kept, reader, truncated>>

\* Register, and the readers set off.
Watch ==
  /\ pc = "started"
  /\ pc' = "waiting"
  /\ UNCHANGED <<cancelled, notified, child, helper, written, kept, reader, truncated>>

\* The callback of the registration, run once, by whoever cancels the token or,
\* if that happened before, by Register itself.
Notify ==
  /\ cancelled
  /\ ~notified
  /\ pc \in Watching
  /\ notified' = TRUE
  /\ TryKill
  /\ UNCHANGED <<pc, cancelled, written, kept, reader, truncated>>

\* One turn of the loop of ReadCappedAsync: a read within the cap.
Read(s) ==
  /\ pc \in Watching
  /\ reader[s] = "reading"
  /\ Buffered(s) > 0
  /\ kept[s] < Cap[s]
  /\ kept' = [kept EXCEPT ![s] = @ + 1]
  /\ UNCHANGED <<pc, cancelled, notified, child, helper, written, reader, truncated>>

\* The read that exceeds the cap; for stdout onLimit sets truncated.
ReadOver(s) ==
  /\ pc \in Watching
  /\ reader[s] = "reading"
  /\ Buffered(s) > 0
  /\ kept[s] = Cap[s]
  /\ reader' = [reader EXCEPT ![s] = IF s = "out" THEN "limit" ELSE "over"]
  /\ truncated' = (truncated \/ s = "out")
  /\ UNCHANGED <<pc, cancelled, notified, child, helper, written, kept>>

\* Slip: onLimit only sets truncated.
LimitOnly ==
  /\ reader["out"] = "limit"
  /\ reader' = [reader EXCEPT !["out"] = "over"]
  /\ UNCHANGED <<pc, cancelled, notified, child, helper, written, kept, truncated>>

\* ... and then kills the child.
LimitKill ==
  /\ reader["out"] = "limit"
  /\ reader' = [reader EXCEPT !["out"] = "over"]
  /\ TryKill
  /\ UNCHANGED <<pc, cancelled, notified, written, kept, truncated>>

\* Nothing left in the pipe and nobody to write to it, or the pipe disposed of
\* under the reader once RunAsync has thrown.
EndOfFile(s) ==
  /\ reader[s] = "reading"
  /\ \/ pc \in Watching /\ Buffered(s) = 0 /\ WriterGone(s)
     \/ pc = "threw"
  /\ reader' = [reader EXCEPT ![s] = "done"]
  /\ UNCHANGED <<pc, cancelled, notified, child, helper, written, kept, truncated>>

\* WaitForExitAsync sees the exit ...
SeeExit ==
  /\ pc = "waiting"
  /\ child \in Exits
  /\ pc' = "draining"
  /\ UNCHANGED <<cancelled, notified, child, helper, written, kept, reader, truncated>>

\* Slip: the cancellation left to the registered callback.
ThrowOnly ==
  /\ pc = "waiting"
  /\ cancelled
  /\ pc' = "threw"
  /\ UNCHANGED <<cancelled, notified, child, helper, written, kept, reader, truncated>>

\* ... or the cancellation, and then the catch clause and the finally block
\* both call TryKill.
Throw ==
  /\ pc = "waiting"
  /\ cancelled
  /\ pc' = "threw"
  /\ TryKill
  /\ UNCHANGED <<cancelled, notified, written, kept, reader, truncated>>

\* Slip: the exit alone ends the run, before the readers are through.
ReturnEarly ==
  /\ pc = "draining"
  /\ pc' = "returned"
  /\ TryKill
  /\ UNCHANGED <<cancelled, notified, written, kept, reader, truncated>>

\* WhenAll, which does not look at the token, the finally block and the return.
Return ==
  /\ pc = "draining"
  /\ \A s \in Streams : reader[s] \in Stopped
  /\ pc' = "returned"
  /\ TryKill
  /\ UNCHANGED <<cancelled, notified, written, kept, reader, truncated>>

Over == pc \in Ended /\ UNCHANGED vars

\* What the runtime owes to the run once the tool's process is there.
System ==
  \/ Start \/ Watch \/ Notify \/ LimitKill \/ SeeExit \/ Throw \/ Return
  \/ \E s \in Streams : Read(s) \/ ReadOver(s) \/ EndOfFile(s)

Next ==
  \/ System
  \/ Cancel
  \/ SpawnHelper
  \/ HelperLeaves
  \/ \E s \in Streams : Write(s)
  \/ \E status \in {"ok", "error"} : Exit(status)
  \/ Over

Spec == Init /\ [][Next]_vars

\* The child owes nothing: it may hang, or write for ever.  A helper goes when
\* its parent has gone.
FairSpec == Spec /\ WF_vars(System) /\ WF_vars(HelperLeaves)

------------------------------------------------------------------------------
(* Properties                                                               *)

\* A stream's reader keeps no more than its cap, and takes no more than was written.
TypeOK ==
  /\ pc \in {"starting", "started"} \cup Watching \cup Ended
  /\ cancelled \in BOOLEAN
  /\ notified \in BOOLEAN
  /\ child \in {"none", "running"} \cup Exits
  /\ helper \in BOOLEAN
  /\ written \in [Streams -> 0..MaxWrites]
  /\ kept \in [Streams -> Nat]
  /\ \A s \in Streams : kept[s] <= Cap[s] /\ Buffered(s) \in 0..PipeSize
  /\ reader \in [Streams -> {"reading", "limit"} \cup Stopped]
  /\ truncated \in BOOLEAN

\* However the cancellation, the exit and the output limit race, no tool is
\* left running once RunAsync is over.
NoOrphan == pc \in Ended => child # "running"

\* A result that does not say it is truncated holds all the tool wrote to
\* stdout, and one that says so misses something.
TruncationReported ==
  pc = "returned" => (truncated <=> kept["out"] < written["out"])

\* A tool is killed only because its run was cancelled or its output went over
\* the cap: neither the finally block nor a late callback kills a healthy one.
KilledForAReason == child = "killed" => cancelled \/ truncated

\* Every run ends, without any deadline if its tool exits or goes over the cap, and
\* by the deadline above if the tool hangs for ever or blocks on a stderr nobody reads
\* any more, although draining ignores the token.
RunEnds == child \in Exits \/ truncated \/ cancelled ~> pc \in Ended
==============================================================================
