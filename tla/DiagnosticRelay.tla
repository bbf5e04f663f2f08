--------------------------- MODULE DiagnosticRelay ---------------------------
(***************************************************************************)
(* One public diagnostic request on its way through the API:               *)
(* RelayAsync of src/Api/Services/DiagnosticRelay.cs, the call of the      *)
(* worker in DiagnosticsClient.cs, and what ProblemExceptionHandler.cs     *)
(* tells the caller.  The relay hashes the caller's address                *)
(* (ClientIpHasher, which this module extends: a request is a call of      *)
(* Hash) and adds to the feed (ActivityLog); requests of several callers   *)
(* interleave at every await, lock and log line.                           *)
(*                                                                         *)
(* The worker, the network between the two services and the caller, who    *)
(* may go away at any moment, are the environment.  The feed's wall clock  *)
(* and the hasher's day are kept apart: one may step back, the other does  *)
(* not, which admits more behaviours than a single clock.                  *)
(***************************************************************************)
EXTENDS ClientIpHasher, SequencesExt, FiniteSets

CONSTANTS
  WorkerCodes,  \* the codes the worker's problems carry
  Retention,    \* as in ActivityLog
  MaxItems,
  MaxTime

\* The constants of ProblemCodes, which both services use; the code of a cancelled
\* request is only counted, never sent.
ProblemCodes == {
  "validation_failed", "destination_blocked", "rate_limited", "busy", "timeout",
  "diagnostic_failed", "service_unavailable", "bgp_unavailable", "payload_too_large",
  "unsupported_media_type", "cancelled", "internal_error"}

ASSUME RelayAssumption ==
  /\ WorkerCodes \subseteq ProblemCodes \ {"cancelled"}
  /\ "earlier" \notin Calls  \* the name of an entry's maker before the first call
  /\ Retention \in Nat
  /\ MaxItems \in Nat \ {0}
  /\ MaxTime \in Nat

VARIABLES
  at,        \* at[r]: where request r is
  aborted,   \* aborted[r]: HttpContext.RequestAborted
  work,      \* work[r]: what the worker has made of r
  raised,    \* raised[r]: the exception on its way out, "none" so far
  told,      \* told[r]: what the caller is answered
  active,    \* the gauge ApiMetrics.Active
  failed,    \* failed[code]: the counter ApiMetrics.RequestsFailed
  rejected,  \* rejected[code]: the counter ApiMetrics.Rejected
  audit,     \* the log lines "diagnostic {result}", oldest first
  wall, highest, adding, items, added, shown,  \* as in ActivityLog
  feeder     \* history: feeder[i] is the request that made the i-th entry

requestVars == <<at, aborted, work, raised, told>>
ledgerVars == <<active, failed, rejected, audit>>
feedVars == <<wall, highest, adding, items, added, shown, feeder>>
hashVars == <<clock, pc, today, day, made, used>>
relayVars == <<requestVars, ledgerVars, feedVars, hashVars>>

Feed == INSTANCE ActivityLog WITH clock <- wall

Rejections == {"validation_failed", "destination_blocked", "busy"}

Codes == WorkerCodes \cup Rejections
           \cup {"service_unavailable", "diagnostic_failed", "cancelled"}

\* hashing     counted, about to hash the caller's address
\* validating  in the try block
\* sending     awaiting the headers of the worker's response
\* reading     awaiting the body of a success
\* explaining  awaiting the body of a problem
\* feeding     in activity.Add
\* logging     the entry is made, the line "ok" is not yet written
\* catching    in one of the catch clauses, or in none
\* leaving     in the finally block
Waiting == {"sending", "reading", "explaining"}

\* The feed is new, or shows a diagnostic from before.
FeedAsFound ==
  \/ Feed!Init /\ feeder = <<>>
  \/ \E t \in 0..MaxTime :
       /\ wall = t /\ highest = t
       /\ adding = FALSE
       /\ added = <<[id |-> 1, at |-> t]>> /\ items = added
       /\ shown = [items |-> <<>>, at |-> 0]
       /\ feeder = <<"earlier">>

RelayInit ==
  /\ Init
  /\ at = [r \in Calls |-> "idle"]
  /\ aborted = [r \in Calls |-> FALSE]
  /\ work = [r \in Calls |-> "none"]
  /\ raised = [r \in Calls |-> "none"]
  /\ told = [r \in Calls |-> "nothing"]
  /\ active = 0
  /\ failed = [c \in Codes |-> 0]
  /\ rejected = [c \in Rejections |-> 0]
  /\ audit = <<>>
  /\ FeedAsFound

------------------------------------------------------------------------------
(* The relay                                                                *)

Go(r, place) == at' = [at EXCEPT ![r] = place]

Raise(r, error) ==
  /\ raised' = [raised EXCEPT ![r] = error]
  /\ Go(r, "catching")

\* The counters, and the clock read by hasher.Hash.
Arrive(r) ==
  /\ at[r] = "idle"
  /\ Go(r, "hashing")
  /\ active' = active + 1
  /\ ReadDay(r)
  /\ UNCHANGED <<aborted, work, raised, told, failed, rejected, audit, feedVars>>

HashAddress(r) ==
  /\ at[r] = "hashing"
  /\ CurrentKey(r)
  /\ Go(r, "validating")
  /\ UNCHANGED <<aborted, work, raised, told, ledgerVars, feedVars>>

\* validate(): the body is missing or malformed, its destination is refused, or
\* the request goes to the worker.
Validate(r) ==
  /\ at[r] = "validating"
  /\ \/ /\ \E code \in {"validation_failed", "destination_blocked"} : Raise(r, code)
        /\ UNCHANGED work
     \/ /\ Go(r, "sending")
        /\ work' = [work EXCEPT ![r] = "running"]
        /\ UNCHANGED raised
  /\ UNCHANGED <<aborted, told, ledgerVars, feedVars, hashVars>>

\* Slip: the status code is not looked at.
HeadersArriveBlindly(r) ==
  /\ at[r] = "sending"
  /\ work[r] \in WorkerCodes \cup {"succeeded"}
  /\ Go(r, "reading")
  /\ UNCHANGED <<aborted, work, raised, told, ledgerVars, feedVars, hashVars>>

\* SendAsync: the headers arrive.
HeadersArrive(r) ==
  /\ at[r] = "sending"
  /\ work[r] \in WorkerCodes \cup {"succeeded"}
  /\ Go(r, IF work[r] = "succeeded" THEN "reading" ELSE "explaining")
  /\ UNCHANGED <<aborted, work, raised, told, ledgerVars, feedVars, hashVars>>

\* The exception filter of SendAsync: a connection that fails, or HttpClient's own
\* timeout, is turned into a problem unless the caller has gone.
BrokenFor(r) == IF aborted[r] THEN "unexpected" ELSE "service_unavailable"

\* The connection to the worker fails, or HttpClient gives up waiting.
SendFails(r) ==
  /\ at[r] = "sending"
  /\ Raise(r, BrokenFor(r))
  /\ UNCHANGED <<aborted, work, told, ledgerVars, feedVars, hashVars>>

\* Slip: the body is read without the token.
CancelOnlyHeaders(r) ==
  /\ at[r] = "sending"
  /\ aborted[r]
  /\ Raise(r, "cancelled")
  /\ UNCHANGED <<aborted, work, told, ledgerVars, feedVars, hashVars>>

\* Every await is given the caller's token; an answer that is there already may
\* still win.
AwaitCancelled(r) ==
  /\ at[r] \in Waiting
  /\ aborted[r]
  /\ Raise(r, "cancelled")
  /\ UNCHANGED <<aborted, work, told, ledgerVars, feedVars, hashVars>>

\* ReadFromJsonAsync: a result, or a body that is unreadable or null.
BodyArrives(r) ==
  /\ at[r] = "reading"
  /\ \/ Go(r, "feeding") /\ UNCHANGED raised
     \/ Raise(r, "diagnostic_failed")
  /\ UNCHANGED <<aborted, work, told, ledgerVars, feedVars, hashVars>>

\* ReadProblemAsync: the worker's code, or a body that says nothing.
ProblemArrives(r) ==
  /\ at[r] = "explaining"
  /\ \E code \in {work[r], "service_unavailable"} : Raise(r, code)
  /\ UNCHANGED <<aborted, work, told, ledgerVars, feedVars, hashVars>>

\* The connection breaks after the headers: what reading the body throws then,
\* HttpRequestException or IOException, no clause expects.
BodyBreaks(r) ==
  /\ at[r] \in {"reading", "explaining"}
  /\ Raise(r, "unexpected")
  /\ UNCHANGED <<aborted, work, told, ledgerVars, feedVars, hashVars>>

\* activity.Add: prune under the lock, then insert.
FeedPrunes(r) ==
  /\ at[r] = "feeding"
  /\ Feed!AddPrunes
  /\ feeder' = Append(feeder, r)
  /\ Go(r, "inserting")
  /\ UNCHANGED <<aborted, work, raised, told, ledgerVars, hashVars>>

FeedInserts(r) ==
  /\ at[r] = "inserting"
  /\ Feed!AddInserts
  /\ Go(r, "logging")
  /\ UNCHANGED <<aborted, work, raised, told, feeder, ledgerVars, hashVars>>

Line(r, result) == [request |-> r, result |-> result, key |-> used[r]]

\* The line "ok" and the answer.
LogSuccess(r) ==
  /\ at[r] = "logging"
  /\ audit' = Append(audit, Line(r, "ok"))
  /\ Go(r, "leaving")
  /\ UNCHANGED <<aborted, work, raised, told, active, failed, rejected, feedVars, hashVars>>

\* Slip: the metric of another clause.
CountsAs(r) == IF raised[r] = "cancelled" THEN "service_unavailable" ELSE raised[r]

\* The code a failure is counted under.
CountedAs(r) == raised[r]

\* The two catch clauses; an exception that neither names goes straight on.
Catch(r) ==
  /\ at[r] = "catching"
  /\ Go(r, "leaving")
  /\ IF raised[r] = "unexpected"
     THEN UNCHANGED <<failed, rejected, audit>>
     ELSE /\ failed' = [failed EXCEPT ![CountedAs(r)] = @ + 1]
          /\ rejected' = IF raised[r] \in Rejections
                         THEN [rejected EXCEPT ![raised[r]] = @ + 1] ELSE rejected
          /\ audit' = Append(audit, Line(r, raised[r]))
  /\ UNCHANGED <<aborted, work, raised, told, active, feedVars, hashVars>>

\* Slip: whoever has gone is told nothing worse than that.
AnswerIfAborted(r) ==
  IF aborted[r] THEN "499" ELSE IF raised[r] = "none" THEN "result" ELSE raised[r]

\* The result, or what ProblemExceptionHandler makes of the exception.
AnswerOf(r) ==
  CASE raised[r] = "none" -> "result"
    [] raised[r] = "unexpected" -> "internal_error"
    [] raised[r] = "cancelled" -> IF aborted[r] THEN "499" ELSE "internal_error"
    [] OTHER -> raised[r]

\* The finally block, and the answer.
Leave(r) ==
  /\ at[r] = "leaving"
  /\ active' = active - 1
  /\ told' = [told EXCEPT ![r] = AnswerOf(r)]
  /\ Go(r, "over")
  /\ UNCHANGED <<aborted, work, raised, failed, rejected, audit, feedVars, hashVars>>

------------------------------------------------------------------------------
(* The environment                                                          *)

\* The caller goes away: the browser's abort, or a lost connection.
Abort(r) ==
  /\ at[r] \notin {"idle", "over"}
  /\ ~aborted[r]
  /\ aborted' = [aborted EXCEPT ![r] = TRUE]
  /\ UNCHANGED <<at, work, raised, told, ledgerVars, feedVars, hashVars>>

\* The diagnostic ends at the worker.  (What becomes of it once the relay no longer
\* waits is DiagnosticsExecutor's matter.)
WorkEnds(r) ==
  /\ at[r] \in Waiting
  /\ work[r] = "running"
  /\ \E end \in WorkerCodes \cup {"succeeded"} : work' = [work EXCEPT ![r] = end]
  /\ UNCHANGED <<at, aborted, raised, told, ledgerVars, feedVars, hashVars>>

\* GET /api/v1/activity, and the clocks.
Others ==
  /\ \/ /\ (\E t \in 0..MaxTime : Feed!SetClock(t)) \/ Feed!Snapshot
        /\ UNCHANGED <<feeder, hashVars>>
     \/ Midnight /\ UNCHANGED feedVars
  /\ UNCHANGED <<requestVars, ledgerVars>>

RelayStep(r) ==
  \/ HashAddress(r) \/ Validate(r) \/ AwaitCancelled(r)
  \/ FeedPrunes(r) \/ FeedInserts(r) \/ LogSuccess(r) \/ Catch(r) \/ Leave(r)

Answers(r) == HeadersArrive(r) \/ BodyArrives(r) \/ ProblemArrives(r)

Breaks(r) == SendFails(r) \/ BodyBreaks(r)

RelayNext ==
  \/ \E r \in Calls :
       Arrive(r) \/ RelayStep(r) \/ Answers(r) \/ Breaks(r) \/ Abort(r) \/ WorkEnds(r)
  \/ Others

RelaySpec == RelayInit /\ [][RelayNext]_relayVars

\* The relay goes on by itself; no answer of the worker is taken for granted.
RelayFairSpec == RelaySpec /\ \A r \in Calls : WF_relayVars(RelayStep(r))

------------------------------------------------------------------------------
(* Properties                                                               *)

LinesOf(r) == {i \in DOMAIN audit : audit[i].request = r}
LinesWith(result) == {i \in DOMAIN audit : audit[i].result = result}

\* What the caller is told, what the log says and what the feed shows agree,
\* wherever the caller went away and whatever broke: one line for a result and one
\* for a problem, under the name the caller was given, and an entry exactly for a
\* result.  A body that breaks off is told as an internal error and leaves nothing; an
\* internal error of the worker is told and logged as one.
ToldAsBooked == \A r \in Calls : at[r] = "over" =>
  LET logged == {audit[i].result : i \in LinesOf(r)} IN
  /\ Cardinality(LinesOf(r)) <= 1
  /\ r \in ToSet(feeder) <=> told[r] = "result"
  /\ CASE told[r] = "result" -> logged = {"ok"}
       [] told[r] = "499" -> logged = {"cancelled"} /\ aborted[r]
       [] told[r] = "internal_error" ->
            logged = {} \/ (logged = {"internal_error"} /\ work[r] = "internal_error")
       [] OTHER -> logged = {told[r]}

\* The counters are the log summed up, and the gauge comes back to zero whatever
\* exception a request ends with.
CountersMatchLog ==
  /\ \A c \in Codes : failed[c] = Cardinality(LinesWith(c))
  /\ \A c \in Rejections : rejected[c] = failed[c]
  /\ active = Cardinality({r \in Calls : at[r] \notin {"idle", "over"}})

\* Caller, log, feed and counters tell one story of every request.
OneAccount == ToldAsBooked /\ CountersMatchLog

\* Nothing is shown in the feed but a diagnostic that succeeded, each once and with
\* the entries in the order their requests got the lock.
FeedIsEarned ==
  /\ IsInjective(feeder)
  /\ \A r \in ToSet(feeder) \ {"earlier"} : work[r] = "succeeded"
  /\ Len(added) = Len(feeder) - (IF adding THEN 1 ELSE 0)

\* The feed shows what is recent, newest first, and loses nothing else, although its
\* clock steps back and requests come between the two looks an entry takes at it.
FeedExact == Feed!ShownIsRecent /\ Feed!NewestFirst /\ Feed!KeptUnlessOld

\* The feed is what has succeeded lately: nothing else is in it and nothing is missing.
FeedTrue == FeedIsEarned /\ FeedExact

\* docs/architecture.md: cancellation flows end to end.  A caller who goes away
\* leaves nothing waiting, even for a worker that never answers.
AbortEnds == \A r \in Calls : aborted[r] ~> at[r] = "over"
==============================================================================
