---------------------------- MODULE DiagnosticPage ----------------------------
(***************************************************************************)
(* The forms in front of useDiagnostic and the area behind it:             *)
(* DiagnosticRunner.tsx with DiagnosticForm.tsx, the dashboard's           *)
(* QuickDiagnostic.tsx, and ResultArea.tsx.                                *)
(*                                                                         *)
(* What is entered is a text; what buildRequest says of it is a constant   *)
(* here (Destinations models it).  An option is the IP version, or the     *)
(* record type of a DNS lookup.  Ping stands for traceroute and MTR.       *)
(***************************************************************************)
EXTENDS DiagnosticHook

CONSTANTS
  Typed,               \* what may be entered
  Blank,               \* the texts of which trim leaves nothing
  Examples,            \* EXAMPLES
  Options,
  Complaint(_, _, _)   \* of a kind, a text and an option: buildRequest's message, "" for none

\* buildRequest looks at the IP version only if the kind is not DNS, and at the record
\* type not at all.
ASSUME FormAssumption ==
  /\ "" \in Typed /\ Blank \subseteq Typed /\ Examples \subseteq Typed
  /\ "auto" \in Options
  /\ \A t \in Typed : \A a, b \in Options : Complaint("dns", t, a) = Complaint("dns", t, b)

VARIABLES
  form,        \* which form it is: of one kind, "quick" with a button for each, or none
  text,        \* value
  option,      \* family or recordType
  problem,     \* the form's error, "" for null
  kind,        \* what the form's error or its last run is about
  lastRequest  \* kind and request of the hook's state

formVars == <<form, text, option, problem, kind, lastRequest>>

Kinds == {"ping", "dns"}

PageInit ==
  /\ HookInit
  /\ form \in Kinds \cup {"quick"}
  /\ text = "" /\ option = "auto" /\ problem = ""
  /\ kind = IF form = "quick" THEN "ping" ELSE form
  /\ lastRequest = <<>>

running == state.status = "running"
coolingDown == left > 0
busy == running \/ coolingDown

\* onChange of the input: a form whose error is shown checks again, the dashboard's
\* takes the error away.
Enter(t) ==
  /\ mounted
  /\ text' = t
  /\ problem' = IF problem # "" /\ form # "quick" THEN Complaint(kind, t, option) ELSE ""
  /\ UNCHANGED <<hookVars, form, option, kind, lastRequest>>

\* Slip: the choice does not check again.
ChooseOptionUnchecked(o) ==
  /\ mounted /\ form # "quick"
  /\ option' = o
  /\ UNCHANGED <<hookVars, form, text, problem, kind, lastRequest>>

\* The IP version, or the record type, on which no error depends.
ChooseOption(o) ==
  /\ mounted /\ form # "quick"
  /\ option' = o
  /\ problem' = IF problem # "" /\ form # "dns" THEN Complaint(kind, text, o) ELSE problem
  /\ UNCHANGED <<hookVars, form, text, kind, lastRequest>>

Blur ==
  /\ mounted /\ form # "quick"
  /\ text \notin Blank
  /\ problem' = Complaint(kind, text, option)
  /\ UNCHANGED <<hookVars, form, text, option, kind, lastRequest>>

TryExample(t) ==
  /\ mounted /\ form # "quick"
  /\ text' = t
  /\ problem' = ""
  /\ UNCHANGED <<hookVars, form, option, kind, lastRequest>>

\* What a form has a button for: its own kind, or those of ACTIONS.
Offered(k) == k = form \/ form = "quick"

\* submit, and start of the dashboard's buttons.
SubmitForm(k) ==
  /\ ~busy
  /\ Offered(k)
  /\ kind' = k
  /\ problem' = Complaint(k, text, option)
  /\ IF problem' # ""
     THEN mounted /\ UNCHANGED <<hookVars, lastRequest>>
     ELSE Run /\ lastRequest' = <<k, text, option>>
  /\ UNCHANGED <<form, text, option>>

\* Slip: the button of ResultArea is there whatever the error is, and while a run is out.
RetryAnyTime ==
  /\ lastRequest # <<>> /\ ~coolingDown
  /\ Run
  /\ UNCHANGED formVars

\* The button of ResultArea, which runs the request again that failed.
Retry ==
  /\ state.status = "error" /\ Retryable(state.error.code) /\ ~coolingDown
  /\ Run
  /\ UNCHANGED formVars

CancelButton == running /\ Cancel /\ UNCHANGED formVars

\* What the hook does by itself.
Itself ==
  /\ \/ Unmount \/ Arm \/ Second
     \/ \E k \in 1..MaxRuns : Settle(k) \/ Continue(k)
  /\ UNCHANGED formVars

PageNext ==
  \/ \E t \in Typed : Enter(t)
  \/ \E t \in Examples : TryExample(t)
  \/ \E o \in Options : ChooseOption(o)
  \/ Blur
  \/ \E k \in Kinds : SubmitForm(k)
  \/ Retry \/ CancelButton \/ Itself

PageSpec == PageInit /\ [][PageNext]_<<hookVars, formVars>>

------------------------------------------------------------------------------
(* Properties                                                               *)

\* A form's error is about what is in the form: whatever is changed, in whatever
\* order, no error stays that a submit would not give.
ErrorIsCurrent == problem # "" => problem = Complaint(kind, text, option)

\* A page has one diagnostic out at most, and while it has one it says so and offers
\* to cancel it: neither a form nor Retry starts a second, which would take another
\* of the visitor's places in the API, and no run goes on behind a page that shows
\* none.
OneRunAtATime == form # "none" =>
  /\ \A k \in 1..MaxRuns : k < attempt => promise[k] = "over"
  /\ mounted /\ attempt > 0 => (running <=> promise[attempt] # "over")
==============================================================================
