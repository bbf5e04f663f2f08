---------------------------- MODULE DiagnosticHook ----------------------------
(***************************************************************************)
(* The diagnostic runs of a page: src/Web/src/hooks/useDiagnostic.ts with  *)
(* useCountdown.ts, the errors it makes of axios' failures                 *)
(* (lib/api/errors.ts) and what ResultArea.tsx offers then                 *)
(* (lib/errorCopy.ts).                                                     *)
(*                                                                         *)
(* JavaScript runs one callback at a time: an action is what happens       *)
(* between two awaits, an event handler, or an effect.  A promise is       *)
(* settled by axios and continued later, so events come in between.  The   *)
(* hook is checked for every use of what it returns: run, cancel and       *)
(* reset at any moment.                                                    *)
(***************************************************************************)
EXTENDS Naturals, FiniteSets

CONSTANTS
  MaxRuns,   \* bound of the model: the runs started
  Responses  \* the failures the API answers: [status, code, retry], "" for no code

\* axios' own failures: its timeout, and no response at all.
Failures == Responses \cup {[status |-> 0, code |-> "ECONNABORTED", retry |-> 0],
                            [status |-> 0, code |-> "ERR_NETWORK", retry |-> 0]}

Verdicts == {"validation_failed", "destination_blocked",
             "payload_too_large", "unsupported_media_type"}

ASSUME HookAssumption ==
  /\ MaxRuns \in Nat
  /\ Responses \subseteq [status : 400..599, code : STRING, retry : Nat]

VARIABLES
  attempt,  \* attempt: the number of runs started; run k is the k-th
  current,  \* controllerRef.current: the run whose controller it is, 0 for null
  signals,  \* the runs whose controller is aborted
  promise,  \* promise[k]: what api.runDiagnostic returned to run k
  state,    \* the state of the hook, with the run that set it
  armed,    \* the effect of useCountdown is due
  left,     \* remaining
  mounted

hookVars == <<attempt, current, signals, promise, state, armed, left, mounted>>

NoError == [status |-> 0, code |-> "none", retry |-> 0]

Idle == [status |-> "idle", run |-> 0, error |-> NoError]

HookInit ==
  /\ attempt = 0
  /\ current = 0
  /\ signals = {}
  /\ promise = [k \in 1..MaxRuns |-> "none"]
  /\ state = Idle
  /\ armed = FALSE
  /\ left = 0
  /\ mounted = TRUE

------------------------------------------------------------------------------
(* What becomes of a failure                                                *)

KnownCodes == {"validation_failed", "destination_blocked", "unsupported_media_type",
  "payload_too_large", "rate_limited", "busy", "timeout", "diagnostic_failed",
  "service_unavailable", "bgp_unavailable", "internal_error"}

\* The code a status without a body is given, by the API as by the worker.
StatusPage(status) ==
  CASE status \in {400, 404, 405} -> "validation_failed"
    [] status = 413 -> "payload_too_large"
    [] status = 415 -> "unsupported_media_type"
    [] OTHER -> "internal_error"

\* Status and code of the exceptions, thrown by the API or by the worker and relayed.
Thrown == {<<400, "validation_failed">>, <<422, "destination_blocked">>, <<503, "busy">>,
  <<504, "timeout">>, <<502, "diagnostic_failed">>, <<503, "service_unavailable">>}

Limited == <<429, "rate_limited">>

\* A code the page knows comes from the two services, the relay passing on the
\* worker's with its status.  No endpoint of theirs sets a bare 422.  A status
\* without a code, or with a code of somebody else's, may be any.
ASSUME ProblemAssumption ==
  \A f \in Responses : f.code \in KnownCodes =>
    \/ f.status # 422 /\ f.code = StatusPage(f.status)
    \/ <<f.status, f.code>> \in Thrown \cup {Limited, <<503, "bgp_unavailable">>}

CodeFromStatus(status) ==
  CASE status = 400 -> "validation_failed"
    [] status = 413 -> "payload_too_large"
    [] status = 415 -> "unsupported_media_type"
    [] status = 422 -> "destination_blocked"
    [] status = 429 -> "rate_limited"
    [] status \in {502, 503} -> "service_unavailable"
    [] status = 504 -> "timeout"
    [] OTHER -> IF status >= 500 THEN "internal_error" ELSE "unknown"

\* Slip: a body without a code is an unknown error.
CodeOfBody(f) ==
  CASE f.status = 0 -> IF f.code = "ECONNABORTED" THEN "timeout" ELSE "network_error"
    [] f.status # 0 /\ f.code \in KnownCodes -> f.code
    [] OTHER -> "unknown"

\* A body's own code counts if it is a known one.
CodeOf(f) ==
  CASE f.status = 0 -> IF f.code = "ECONNABORTED" THEN "timeout" ELSE "network_error"
    [] f.status # 0 /\ f.code \in KnownCodes -> f.code
    [] OTHER -> CodeFromStatus(f.status)

ToApiError(f) == [code |-> CodeOf(f), status |-> f.status, retry |-> f.retry]

\* describeDiagnosticError(...).retryable
Retryable(code) == code \notin Verdicts

\* retryAfter of the hook, 0 for null.
RetryAfter(s) == IF s.error.code \in {"rate_limited", "busy"} THEN s.error.retry ELSE 0

------------------------------------------------------------------------------
(* The hook                                                                 *)

\* setState; the countdown's effect runs after the render if what it depends on has
\* changed.
SetState(s) ==
  /\ state' = IF mounted THEN s ELSE state
  /\ armed' = (armed \/ (mounted /\ (RetryAfter(s) # RetryAfter(state) \/ attempt' # attempt)))

\* controllerRef.current?.abort()
AbortCurrent == signals' = signals \cup ({current} \ {0})

Run ==
  /\ mounted
  /\ attempt < MaxRuns
  /\ attempt' = attempt + 1
  /\ AbortCurrent
  /\ current' = attempt'
  /\ promise' = [promise EXCEPT ![attempt'] = "pending"]
  /\ SetState([status |-> "running", run |-> attempt', error |-> NoError])
  /\ UNCHANGED <<left, mounted>>

Cancel ==
  /\ mounted
  /\ AbortCurrent
  /\ UNCHANGED <<attempt, current, promise, state, armed, left, mounted>>

Reset ==
  /\ mounted
  /\ AbortCurrent
  /\ current' = 0
  /\ attempt' = attempt
  /\ SetState(Idle)
  /\ UNCHANGED <<promise, left, mounted>>

\* The effect's cleanup; state set after it goes nowhere.
Unmount ==
  /\ mounted
  /\ AbortCurrent
  /\ mounted' = FALSE
  /\ left' = 0
  /\ UNCHANGED <<attempt, current, promise, state, armed>>

\* axios settles the promise: with a response, by its timeout, or because the signal
\* was given; an answer that is there already wins over the signal.
Settle(k) ==
  /\ promise[k] = "pending"
  /\ \E how \in {"result", "failure"} \cup (IF k \in signals THEN {"abort"} ELSE {}) :
       promise' = [promise EXCEPT ![k] = how]
  /\ UNCHANGED <<attempt, current, signals, state, armed, left, mounted>>

\* What run sets when it goes on after the await.
Outcome(k, f) ==
  IF promise[k] = "result" THEN [status |-> "success", run |-> k, error |-> NoError]
  ELSE IF promise[k] = "abort" \/ k \in signals
  THEN [status |-> "cancelled", run |-> k, error |-> NoError]
  ELSE [status |-> "error", run |-> k, error |-> ToApiError(f)]

\* Slip: a run goes on unless its signal was given.
ContinueIfNotAborted(k) ==
  /\ promise[k] \in {"result", "failure", "abort"}
  /\ promise' = [promise EXCEPT ![k] = "over"]
  /\ attempt' = attempt
  /\ IF k \notin signals
     THEN \E f \in Failures : SetState(Outcome(k, f))
     ELSE UNCHANGED <<state, armed>>
  /\ UNCHANGED <<current, signals, left, mounted>>

\* Slip: whatever run ends writes the state.
ContinueAlways(k) ==
  /\ promise[k] \in {"result", "failure", "abort"}
  /\ promise' = [promise EXCEPT ![k] = "over"]
  /\ attempt' = attempt
  /\ \E f \in Failures : SetState(Outcome(k, f))
  /\ UNCHANGED <<current, signals, left, mounted>>

\* The rest of run, unless another run or reset has replaced the controller.
Continue(k) ==
  /\ promise[k] \in {"result", "failure", "abort"}
  /\ promise' = [promise EXCEPT ![k] = "over"]
  /\ attempt' = attempt
  /\ IF current = k
     THEN \E f \in Failures : SetState(Outcome(k, f))
     ELSE UNCHANGED <<state, armed>>
  /\ UNCHANGED <<current, signals, left, mounted>>

\* useCountdown's effect.
Arm ==
  /\ mounted /\ armed
  /\ armed' = FALSE
  /\ left' = RetryAfter(state)
  /\ UNCHANGED <<attempt, current, signals, promise, state, mounted>>

\* A second passes, and the interval's callback sees it.
Second ==
  /\ mounted
  /\ left > 0
  /\ left' = left - 1
  /\ UNCHANGED <<attempt, current, signals, promise, state, armed, mounted>>

HookNext ==
  \/ Run \/ Cancel \/ Reset \/ Unmount \/ Arm \/ Second
  \/ \E k \in 1..MaxRuns : Settle(k) \/ Continue(k)

\* axios settles every promise (its timeout is 120 seconds), the event loop gets to
\* every callback and effect, and time passes.
HookFairness ==
  /\ WF_hookVars(Arm) /\ WF_hookVars(Second)
  /\ \A k \in 1..MaxRuns : WF_hookVars(Settle(k)) /\ WF_hookVars(Continue(k))

HookSpec == HookInit /\ [][HookNext]_hookVars /\ HookFairness

------------------------------------------------------------------------------
(* Properties                                                               *)

HookTypeOK ==
  /\ attempt \in 0..MaxRuns
  /\ current \in 0..MaxRuns
  /\ signals \subseteq 1..MaxRuns
  /\ promise \in [1..MaxRuns -> {"none", "pending", "result", "failure", "abort", "over"}]
  /\ state.status \in {"idle", "running", "success", "error", "cancelled"}
  /\ state.error.retry \in Nat
  /\ armed \in BOOLEAN
  /\ left \in Nat
  /\ mounted \in BOOLEAN

\* What is shown is the newest run's or nothing: neither an older run's answer nor
\* its abort, arriving late, replaces it, and while it is shown as running its
\* answer is still to come.  The countdown is the shown answer's too: no seconds are
\* left over from one that is gone.
NewestShown ==
  /\ state.status # "idle" =>
       /\ state.run = attempt
       /\ current = attempt
       /\ state.status = "running" /\ mounted => promise[attempt] # "over"
       /\ state.status = "cancelled" => attempt \in signals
  /\ ~armed /\ mounted => left <= RetryAfter(state)

\* The page offers Retry for what another attempt may change and never for a verdict
\* on the request itself, whether or not the answer's body has a code (a proxy's has
\* none).  404 and 405 are a verdict if the services give them; from a proxy that has
\* lost its backend they may pass.
RetryIsUseful == state.status = "error" =>
  LET e == state.error IN
  Retryable(e.code) <=> /\ e.status \notin {400, 413, 415, 422}
                        /\ e.status \in {404, 405} => e.code = "unknown"

\* A visitor can always start again: no run stays "running", no countdown stays up.
NeverLockedOut == []<>(~mounted \/ (state.status # "running" /\ left = 0 /\ ~armed))
==============================================================================
