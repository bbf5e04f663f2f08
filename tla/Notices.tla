------------------------------- MODULE Notices -------------------------------
(***************************************************************************)
(* The notifications at the edge of the page, src/Web/src/components/ui/   *)
(* Toast.tsx, and the copy buttons that post them, CopyButton.tsx over     *)
(* lib/clipboard.ts.                                                       *)
(*                                                                         *)
(* A toast is its id; ids grow, so the set of those shown has an order.  A *)
(* timeout that is set may fire at any time, and timeouts in any order:    *)
(* only clearing one keeps it from firing.  A click is its number, and its *)
(* copy may end after that of a later one, or after the button is gone.    *)
(***************************************************************************)
EXTENDS Naturals, FiniteSets

CONSTANT MaxClicks  \* bound of the model: the clicks that post

ASSUME ClicksAssumption == MaxClicks \in Nat

VARIABLES
  items,      \* the toasts shown
  nextId,
  timers,     \* the toasts whose timeout is set
  clicks,     \* the number of clicks; click k is the k-th
  copying,    \* the clicks whose copyText is not over
  there,      \* the copy button is mounted
  copied,     \* the button says "Copied"
  copyTimer,  \* timer.current: the click that set it, 0 for none
  flagTimers  \* the clicks whose timeout is set

noticeVars == <<items, nextId, timers, clicks, copying, there, copied, copyTimer, flagTimers>>

NoticesInit ==
  /\ items = {} /\ nextId = 1 /\ timers = {}
  /\ clicks = 0 /\ copying = {} /\ there = TRUE
  /\ copied = FALSE /\ copyTimer = 0 /\ flagTimers = {}

\* The n newest, as slice(-n) takes them.
Newest(n) == {id \in items : Cardinality({later \in items : later > id}) < n}

Toast ==
  /\ nextId' = nextId + 1
  /\ items' = Newest(3) \cup {nextId}
  /\ timers' = timers \cup {nextId}

\* dismiss, by the toast's button or its timeout
Dismiss(id) ==
  /\ id \in timers
  /\ timers' = timers \ {id}
  /\ items' = items \ {id}
  /\ UNCHANGED <<nextId, clicks, copying, there, copied, copyTimer, flagTimers>>

\* Another button posts: a download in ResultPanel.tsx, or another copy.
Post ==
  /\ clicks < MaxClicks
  /\ clicks' = clicks + 1
  /\ Toast
  /\ UNCHANGED <<copying, there, copied, copyTimer, flagTimers>>

Click ==
  /\ there
  /\ clicks < MaxClicks
  /\ clicks' = clicks + 1
  /\ copying' = copying \cup {clicks'}
  /\ UNCHANGED <<items, nextId, timers, there, copied, copyTimer, flagTimers>>

\* Slip: the timeout of an earlier copy is not cleared.
CopyEndsUncleared(k) ==
  /\ k \in copying
  /\ copying' = copying \ {k}
  /\ Toast
  /\ \/ copied' = there /\ copyTimer' = k /\ flagTimers' = flagTimers \cup {k}
     \/ UNCHANGED <<copied, copyTimer, flagTimers>>
  /\ UNCHANGED <<clicks, there>>

\* handleClick, after its await: copyText has succeeded, or neither way of copying did.
CopyEnds(k) ==
  /\ k \in copying
  /\ copying' = copying \ {k}
  /\ Toast
  /\ \/ copied' = there /\ copyTimer' = k /\ flagTimers' = (flagTimers \ {copyTimer}) \cup {k}
     \/ UNCHANGED <<copied, copyTimer, flagTimers>>
  /\ UNCHANGED <<clicks, there>>

\* The timeout of two seconds.
FlagExpires(k) ==
  /\ k \in flagTimers
  /\ flagTimers' = flagTimers \ {k}
  /\ copied' = FALSE
  /\ UNCHANGED <<items, nextId, timers, clicks, copying, there, copyTimer>>

\* The effect's cleanup clears the timeout; what is set afterwards goes nowhere.
ButtonGoes ==
  /\ there
  /\ there' = FALSE
  /\ copied' = FALSE
  /\ flagTimers' = flagTimers \ {copyTimer}
  /\ UNCHANGED <<items, nextId, timers, clicks, copying, copyTimer>>

NoticesNext ==
  \/ Click \/ Post \/ ButtonGoes
  \/ \E id \in 1..MaxClicks : Dismiss(id)
  \/ \E k \in 1..MaxClicks : CopyEnds(k) \/ FlagExpires(k)

NoticesSpec == NoticesInit /\ [][NoticesNext]_noticeVars

------------------------------------------------------------------------------
\* What is posted goes away by itself and not too early: each toast shown, of at most
\* four, has its timeout set, and "Copied" is shown exactly as long as the timeout of
\* the copy that ended last, not cut short by that of an earlier one.
NoticesGo ==
  /\ Cardinality(items) <= 4
  /\ items \subseteq timers
  /\ there => flagTimers = IF copied THEN {copyTimer} ELSE {}
==============================================================================
