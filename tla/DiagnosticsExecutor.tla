------------------------- MODULE DiagnosticsExecutor -------------------------
(***************************************************************************)
(* The admission control of the diagnostics worker,                        *)
(* src/Diagnostics/Execution/DiagnosticsExecutor.cs: a semaphore of        *)
(* MaxConcurrent slots, an Interlocked counter that bounds how many        *)
(* requests wait for one, a queue timer, a deadline on the work, and the   *)
(* caller's cancellation token.                                            *)
(*                                                                         *)
(* Every await and every Interlocked operation of the code is a step of    *)
(* its own.  Time is not counted: a timer that is armed may fire at any    *)
(* moment.  SemaphoreSlim belongs to the .NET library and is modelled by   *)
(* what the code relies on: WaitAsync looks at the token first, takes a    *)
(* free slot, or joins a FIFO of waiters; Release hands its slot to the    *)
(* first waiter; a waiter that gives up is unlinked under the same lock,   *)
(* so it either got a slot or did not.                                     *)
(*                                                                         *)
(* A definition whose comment begins "Slip:" is not part of the            *)
(* specification: it is the definition after it with one plausible mistake *)
(* in it, kept to show that the properties notice the mistake.             *)
(***************************************************************************)
EXTENDS Naturals, FiniteSets, Sequences, SequencesExt

CONSTANTS
  Requests,       \* the calls of ExecuteAsync
  MaxConcurrent,  \* DiagnosticsOptions.MaxConcurrent
  MaxQueued,      \* DiagnosticsOptions.MaxQueued
  Refusals,       \* the codes the executor also counts as rejections:
                  \* validation_failed and destination_blocked
  Faults          \* the codes of everything else the work may throw, besides
                  \* the OperationCanceledException of its token:
                  \* diagnostic_failed and internal_error

\* How a call ends when it is not by an exception of the work, and the two
\* markers of the model.
Endings == {"none", "ok", "busy", "timeout", "cancelled", "operation_cancelled"}

Exceptions == Refusals \cup Faults

Codes == Exceptions \cup Endings \cup {"queue_full", "queue_timeout"}

\* Options.cs: [Range(1, 64)] MaxConcurrent, [Range(0, 1024)] MaxQueued.
ASSUME ExecutorAssumption ==
  /\ IsFiniteSet(Requests)
  /\ MaxConcurrent \in Nat \ {0}
  /\ MaxQueued \in Nat
  /\ (Refusals \cup Faults) \cap Endings = {}

VARIABLES
  pc,         \* pc[r]: the next step of request r
  cancelled,  \* cancelled[r]: its caller's token is cancelled
  expired,    \* expired[r]: the deadline armed by CancelAfter has passed
  slots,      \* _slots.CurrentCount
  queue,      \* the waiters parked inside _slots, first to be released first
  waiting,    \* _waiting
  active,     \* the gauge DiagnosticsMetrics.Active
  raised,     \* raised[r]: the exception leaving the work, or "none"
  outcome,    \* outcome[r]: how the call ends
  failed,     \* failed[r]: reasons counted in RequestsFailed for r
  rejected    \* rejected[r]: reasons counted in Rejected for r

vars == <<pc, cancelled, expired, slots, queue, waiting, active, raised,
          outcome, failed, rejected>>

\* idle       ExecuteAsync not called yet
\* probing    about to call WaitAsync(0)
\* counting   no slot was free; about to increment _waiting
\* refused    over MaxQueued; about to decrement _waiting and throw
\* queueing   counted; about to call WaitAsync(QueueWaitSeconds)
\* parked     inside that WaitAsync
\* granted, timedout, aborted   that WaitAsync is over, _waiting still counts r
\* acquired   holds a slot; the work is not started
\* running    inside the work
\* unwinding  the work threw; no catch clause has been chosen yet
\* releasing  in the finally block
\* ended      the call has returned or thrown
Idle     == {"idle", "ended"}
Holding  == {"granted", "acquired", "running", "unwinding", "releasing"}
Counted  == {"refused", "queueing", "parked", "granted", "timedout", "aborted"}
Admitted == Counted \ {"refused"}
Busy     == {"running", "unwinding", "releasing"}
Phases   == Idle \cup Holding \cup Counted \cup {"probing", "counting"}

At(S) == {r \in Requests : pc[r] \in S}

Init ==
  /\ pc = [r \in Requests |-> "idle"]
  /\ cancelled = [r \in Requests |-> FALSE]
  /\ expired = [r \in Requests |-> FALSE]
  /\ slots = MaxConcurrent
  /\ queue = <<>>
  /\ waiting = 0
  /\ active = 0
  /\ raised = [r \in Requests |-> "none"]
  /\ outcome = [r \in Requests |-> "none"]
  /\ failed = [r \in Requests |-> <<>>]
  /\ rejected = [r \in Requests |-> <<>>]

------------------------------------------------------------------------------
(* The environment: callers arrive and give up.                             *)

Arrive(r) ==
  /\ pc[r] = "idle"
  /\ pc' = [pc EXCEPT ![r] = "probing"]
  /\ UNCHANGED <<cancelled, expired, slots, queue, waiting, active, raised,
                 outcome, failed, rejected>>

Cancel(r) ==
  /\ pc[r] \notin Idle
  /\ ~cancelled[r]
  /\ cancelled' = [cancelled EXCEPT ![r] = TRUE]
  /\ UNCHANGED <<pc, expired, slots, queue, waiting, active, raised, outcome,
                 failed, rejected>>

------------------------------------------------------------------------------
(* AcquireAsync                                                             *)

\* WaitAsync(0, token): throws, takes a free slot, or answers false.
ProbeOr(r, thrown) ==
  /\ pc[r] = "probing"
  /\ \/ /\ cancelled[r]
        /\ pc' = [pc EXCEPT ![r] = thrown]
        /\ outcome' = [outcome EXCEPT ![r] = "cancelled"]
        /\ UNCHANGED slots
     \/ /\ ~cancelled[r]
        /\ slots > 0
        /\ slots' = slots - 1
        /\ pc' = [pc EXCEPT ![r] = "acquired"]
        /\ UNCHANGED outcome
     \/ /\ ~cancelled[r]
        /\ slots = 0
        /\ pc' = [pc EXCEPT ![r] = "counting"]
        /\ UNCHANGED <<slots, outcome>>
  /\ UNCHANGED <<cancelled, expired, queue, waiting, active, raised, failed,
                 rejected>>

Probe(r) == ProbeOr(r, "ended")

\* Interlocked.Increment(ref _waiting) > MaxQueued
Count(r) ==
  /\ pc[r] = "counting"
  /\ waiting' = waiting + 1
  /\ pc' = [pc EXCEPT ![r] = IF waiting' > MaxQueued THEN "refused" ELSE "queueing"]
  /\ UNCHANGED <<cancelled, expired, slots, queue, active, raised, outcome,
                 failed, rejected>>

\* Slip: no Decrement before the throw.
RefuseKeepsCount(r) ==
  /\ pc[r] = "refused"
  /\ pc' = [pc EXCEPT ![r] = "ended"]
  /\ outcome' = [outcome EXCEPT ![r] = "busy"]
  /\ failed' = [failed EXCEPT ![r] = Append(@, "busy")]
  /\ rejected' = [rejected EXCEPT ![r] = Append(@, "queue_full")]
  /\ UNCHANGED <<cancelled, expired, slots, queue, waiting, active, raised>>

Refuse(r) ==
  /\ pc[r] = "refused"
  /\ waiting' = waiting - 1
  /\ pc' = [pc EXCEPT ![r] = "ended"]
  /\ outcome' = [outcome EXCEPT ![r] = "busy"]
  /\ failed' = [failed EXCEPT ![r] = Append(@, "busy")]
  /\ rejected' = [rejected EXCEPT ![r] = Append(@, "queue_full")]
  /\ UNCHANGED <<cancelled, expired, slots, queue, active, raised>>

\* WaitAsync(QueueWaitSeconds, token): throws, takes a slot that was released
\* meanwhile, or parks.
Enqueue(r) ==
  /\ pc[r] = "queueing"
  /\ \/ /\ cancelled[r]
        /\ pc' = [pc EXCEPT ![r] = "aborted"]
        /\ UNCHANGED <<slots, queue>>
     \/ /\ ~cancelled[r]
        /\ slots > 0
        /\ slots' = slots - 1
        /\ pc' = [pc EXCEPT ![r] = "granted"]
        /\ UNCHANGED queue
     \/ /\ ~cancelled[r]
        /\ slots = 0
        /\ queue' = Append(queue, r)
        /\ pc' = [pc EXCEPT ![r] = "parked"]
        /\ UNCHANGED slots
  /\ UNCHANGED <<cancelled, expired, waiting, active, raised, outcome, failed,
                 rejected>>

\* A parked waiter whose timer fires or whose token is cancelled is unlinked;
\* the token is looked at again, so a cancelled waiter throws even when it was
\* the timer that woke it.
GiveUp(r) ==
  /\ pc[r] = "parked"
  /\ \E i \in 1..Len(queue) : queue[i] = r /\ queue' = RemoveAt(queue, i)
  /\ pc' = [pc EXCEPT ![r] = IF cancelled[r] THEN "aborted" ELSE "timedout"]
  /\ UNCHANGED <<cancelled, expired, slots, waiting, active, raised, outcome,
                 failed, rejected>>

\* The code after the second WaitAsync, with the Decrement of its finally block.
LeaveWait(r) ==
  /\ waiting' = waiting - 1
  /\ \/ /\ pc[r] = "granted"
        /\ pc' = [pc EXCEPT ![r] = "acquired"]
        /\ UNCHANGED <<outcome, failed, rejected>>
     \/ /\ pc[r] = "timedout"
        /\ pc' = [pc EXCEPT ![r] = "ended"]
        /\ outcome' = [outcome EXCEPT ![r] = "busy"]
        /\ failed' = [failed EXCEPT ![r] = Append(@, "busy")]
        /\ rejected' = [rejected EXCEPT ![r] = Append(@, "queue_timeout")]
     \/ /\ pc[r] = "aborted"
        /\ pc' = [pc EXCEPT ![r] = "ended"]
        /\ outcome' = [outcome EXCEPT ![r] = "cancelled"]
        /\ UNCHANGED <<failed, rejected>>
  /\ UNCHANGED <<cancelled, expired, slots, queue, active, raised>>

------------------------------------------------------------------------------
(* ExecuteAsync once it holds a slot                                        *)

Start(r) ==
  /\ pc[r] = "acquired"
  /\ active' = active + 1
  /\ pc' = [pc EXCEPT ![r] = "running"]
  /\ UNCHANGED <<cancelled, expired, slots, queue, waiting, raised, outcome,
                 failed, rejected>>

\* Slip: the deadline armed only after the work.
ExpireLate(r) ==
  /\ pc[r] = "unwinding"
  /\ ~expired[r]
  /\ expired' = [expired EXCEPT ![r] = TRUE]
  /\ UNCHANGED <<pc, cancelled, slots, queue, waiting, active, raised, outcome,
                 failed, rejected>>

\* timeout.CancelAfter(TimeoutSeconds)
Expire(r) ==
  /\ pc[r] \in {"running", "unwinding"}
  /\ ~expired[r]
  /\ expired' = [expired EXCEPT ![r] = TRUE]
  /\ UNCHANGED <<pc, cancelled, slots, queue, waiting, active, raised, outcome,
                 failed, rejected>>

WorkReturns(r) ==
  /\ pc[r] = "running"
  /\ pc' = [pc EXCEPT ![r] = "releasing"]
  /\ outcome' = [outcome EXCEPT ![r] = "ok"]
  /\ UNCHANGED <<cancelled, expired, slots, queue, waiting, active, raised,
                 failed, rejected>>

WorkThrows(r, e) ==
  /\ pc[r] = "running"
  /\ pc' = [pc EXCEPT ![r] = "unwinding"]
  /\ raised' = [raised EXCEPT ![r] = e]
  /\ UNCHANGED <<cancelled, expired, slots, queue, waiting, active, outcome,
                 failed, rejected>>

\* The work sees its linked token: the caller's, or the deadline.
WorkCancelled(r) ==
  /\ cancelled[r] \/ expired[r]
  /\ WorkThrows(r, "operation_cancelled")

\* Slip: a refusal of the work is not counted as a rejection.
CatchUnrejected(r, reason, next) ==
  /\ pc[r] = "unwinding"
  /\ pc' = [pc EXCEPT ![r] = next]
  /\ outcome' = [outcome EXCEPT ![r] = reason]
  /\ failed' = [failed EXCEPT ![r] = Append(@, reason)]
  /\ UNCHANGED <<cancelled, expired, slots, queue, waiting, active, raised,
                 rejected>>

\* A catch clause: the failure is counted under its reason, a refusal of the
\* work as a rejection too.
CatchAs(r, reason, next) ==
  /\ pc[r] = "unwinding"
  /\ pc' = [pc EXCEPT ![r] = next]
  /\ outcome' = [outcome EXCEPT ![r] = reason]
  /\ failed' = [failed EXCEPT ![r] = Append(@, reason)]
  /\ rejected' = [rejected EXCEPT ![r] =
                    IF reason \in Refusals THEN Append(@, reason) ELSE @]
  /\ UNCHANGED <<cancelled, expired, slots, queue, waiting, active, raised>>

\* The filter of the first clause reads the caller's token when the exception
\* arrives, which may be later than when it was thrown.
ReasonOf(r) ==
  IF raised[r] # "operation_cancelled" THEN raised[r]
  ELSE IF cancelled[r] THEN "cancelled" ELSE "timeout"

\* Slip: the catch clauses outside the try that has the finally.
CatchWithoutFinally(r) == CatchAs(r, ReasonOf(r), "ended")

\* Slip: the filter dropped, so that every cancellation is a timeout.
CatchAsTimeout(r) ==
  CatchAs(r, IF raised[r] # "operation_cancelled" THEN raised[r] ELSE "timeout",
          "releasing")

\* The catch clauses.
Catch(r) == CatchAs(r, ReasonOf(r), "releasing")

\* Active.Dec, then _slots.Release: the slot goes to waiter w of the line, if
\* there is one, and leaves the line rest.
HandOver(r, w, rest) ==
  /\ pc[r] = "releasing"
  /\ active' = active - 1
  /\ IF queue = <<>>
     THEN /\ slots' = slots + 1
          /\ pc' = [pc EXCEPT ![r] = "ended"]
          /\ UNCHANGED queue
     ELSE /\ queue' = rest
          /\ pc' = [pc EXCEPT ![r] = "ended", ![w] = "granted"]
          /\ UNCHANGED slots
  /\ UNCHANGED <<cancelled, expired, waiting, raised, outcome, failed, rejected>>

\* Slip: the waiter that came last is served first.
ReleaseToLast(r) == HandOver(r, Last(queue), Front(queue))

\* The finally block.
Release(r) == HandOver(r, Head(queue), Tail(queue))

------------------------------------------------------------------------------
\* Every call has ended and none is left to make.
AllEnded ==
  /\ \A r \in Requests : pc[r] = "ended"
  /\ UNCHANGED vars

\* The steps the runtime owes to a request: its own code and its timers.
\* WorkCancelled is among them because the work is handed the linked token.
System(r) ==
  \/ Probe(r) \/ Count(r) \/ Refuse(r) \/ Enqueue(r) \/ GiveUp(r)
  \/ LeaveWait(r) \/ Start(r) \/ Expire(r) \/ WorkCancelled(r) \/ Catch(r)
  \/ Release(r)

Next ==
  \/ \E r \in Requests :
       \/ Arrive(r)
       \/ Cancel(r)
       \/ System(r)
       \/ WorkReturns(r)
       \/ \E e \in Exceptions : WorkThrows(r, e)
  \/ AllEnded

Spec == Init /\ [][Next]_vars

FairSpec == Spec /\ \A r \in Requests : WF_vars(System(r))

------------------------------------------------------------------------------
(* Properties                                                               *)

\* Every variable keeps its type: in particular the counters never go below
\* zero and _slots.Release never exceeds the maximum it was built with.
TypeOK ==
  /\ pc \in [Requests -> Phases]
  /\ cancelled \in [Requests -> BOOLEAN]
  /\ expired \in [Requests -> BOOLEAN]
  /\ slots \in 0..MaxConcurrent
  /\ queue \in Seq(Requests)
  /\ waiting \in Nat
  /\ active \in Nat
  /\ raised \in [Requests -> Exceptions \cup {"none", "operation_cancelled"}]
  /\ outcome \in [Requests -> Exceptions \cup Endings]
  /\ failed \in [Requests -> Seq(Codes)]
  /\ rejected \in [Requests -> Seq(Codes)]

\* No path through the queue, the timers, the cancellation or the exceptions
\* leaks a slot or returns one twice: the free slots and the requests that hold
\* one add up to MaxConcurrent, so no more than that ever run.
SlotsConserved == slots + Cardinality(At(Holding)) = MaxConcurrent

\* _waiting counts exactly the requests between its Increment and its
\* Decrement, and the Active gauge exactly the work in flight, whichever of the
\* exits a request takes.
CountersExact ==
  /\ waiting = Cardinality(At(Counted))
  /\ active = Cardinality(At(Busy))

\* Nothing leaks: whichever of its exits a request takes, from the queue, the work or an
\* exception, neither a slot nor one of the two counters stays behind.
NothingLeaks == SlotsConserved /\ CountersExact

\* The semaphore's waiters are the parked requests, each once.
LineExact ==
  /\ \A i, j \in 1..Len(queue) : queue[i] = queue[j] => i = j
  /\ ToSet(queue) = At({"parked"})

\* Requests past the counter: never more than MaxQueued of them.
AdmittedBounded == Cardinality(At(Admitted)) <= MaxQueued

\* However the increments and decrements of _waiting interleave, no more than
\* MaxQueued requests are ever parked on the semaphore.
LineBounded == Len(queue) <= MaxQueued

\* No lost wakeup: nobody is parked while a slot is free.
NoIdleSlot == queue # <<>> => slots = 0

\* RequestsFailed and Rejected are kept once per call and with the right
\* reason: a call that returns is not a failure, a call that throws after it
\* held a slot, or because the worker is busy, is counted exactly once under
\* the code its caller is told, and a caller's own cancellation while it waits
\* is the one failure the code leaves uncounted.
LedgerOf(r) ==
  /\ outcome[r] \in {"none", "ok"} => failed[r] = <<>> /\ rejected[r] = <<>>
  /\ outcome[r] = "busy" =>
       /\ failed[r] = <<"busy">>
       /\ rejected[r] \in {<<"queue_full">>, <<"queue_timeout">>}
  /\ outcome[r] = "cancelled" =>
       failed[r] \in {<<>>, <<"cancelled">>} /\ rejected[r] = <<>>
  /\ outcome[r] \in Exceptions \cup {"timeout"} =>
       /\ failed[r] = <<outcome[r]>>
       /\ rejected[r] = IF outcome[r] \in Refusals THEN failed[r] ELSE <<>>

LedgerExact == \A r \in Requests :
  /\ LedgerOf(r)
  /\ outcome[r] # "none" <=> pc[r] \in {"releasing", "ended"}

\* A caller is told "timeout" only when the deadline did pass, and sees its own
\* cancellation only when it did cancel; a refusal in the queue is never
\* reported to a caller that had already gone.
OutcomeHonest == \A r \in Requests :
  /\ outcome[r] = "timeout" => expired[r]
  /\ outcome[r] = "cancelled" => cancelled[r]
  /\ pc[r] = "aborted" => cancelled[r]
  /\ raised[r] = "operation_cancelled" => cancelled[r] \/ expired[r]
  /\ pc[r] = "unwinding" => raised[r] # "none"

\* The metrics tell what callers are told, and callers are told what happened.
BookedHonestly == LedgerExact /\ OutcomeHonest

\* The queue timer, the deadline and the hand-over of slots leave no request
\* behind: every call ends, even if its work never returns by itself.
EveryCallEnds == \A r \in Requests : pc[r] = "probing" ~> pc[r] = "ended"

\* The code, seen from outside, is the bounded admission of BoundedAdmission.
StageOf(p) ==
  IF p = "parked" THEN "waiting"
  ELSE IF p \in Holding THEN "serving"
  ELSE IF p \in {"ended", "timedout", "aborted", "refused"} THEN "done"
  ELSE "new"

Stages == [r \in Requests |-> StageOf(pc[r])]

Admission == INSTANCE BoundedAdmission WITH stage <- Stages, line <- queue

ImplementsAdmission == Admission!ASpec

------------------------------------------------------------------------------
(* A statement of the repository's texts that the code does not keep.      *)

\* DiagnosticsMetrics.cs describes looking_glass_requests_failed_total as the
\* requests that did not complete successfully.
EveryFailureIsCounted == \A r \in Requests :
  pc[r] = "ended" /\ outcome[r] # "ok" => failed[r] # <<>>
==============================================================================
