----------------------------- MODULE ActivityLog -----------------------------
(***************************************************************************)
(* The anonymous feed of recent diagnostics,                               *)
(* src/Api/Services/ActivityLog.cs: a short list, newest first, pruned of  *)
(* what is too old whenever it is touched.  Add and Snapshot hold the lock *)
(* throughout; Add reads the clock once to prune and once more to stamp    *)
(* the entry.  The clock is the machine's wall clock, which also steps     *)
(* back.                                                                   *)
(*                                                                         *)
(* An entry is its number and its time.                                    *)
(***************************************************************************)
EXTENDS Naturals, Sequences, Recency

CONSTANTS
  Retention,  \* RetentionMinutes
  MaxItems,   \* MaxItems
  MaxTime     \* bound of the model: the clock stays below it

VARIABLES
  clock,    \* the wall clock
  highest,  \* history: the furthest it has ever been
  adding,   \* an Add has pruned, and holds the lock
  items,    \* _items
  added,    \* history: the entries added so far, oldest first
  shown     \* history: the last snapshot, and the clock it was taken by

vars == <<clock, highest, adding, items, added, shown>>

Entry == [id : Nat, at : Nat]

Init ==
  /\ clock = 0
  /\ highest = 0
  /\ adding = FALSE
  /\ items = <<>>
  /\ added = <<>>
  /\ shown = [items |-> <<>>, at |-> 0]

\* The clock runs, is corrected, or is set back.
SetClock(t) ==
  /\ t # clock
  /\ clock' = t
  /\ highest' = IF t > highest THEN t ELSE highest
  /\ UNCHANGED <<adding, items, added, shown>>

\* Slip: the list is taken to be sorted by time, and cut at the oldest end.
PrunedTail ==
  SubSeq(items, 1,
         Len(items) - (IF items # <<>> /\ items[Len(items)].at + Retention < clock THEN 1 ELSE 0))

\* Prune
Pruned == Within(items, Retention, clock)

AddPrunes ==
  /\ ~adding
  /\ adding' = TRUE
  /\ items' = Pruned
  /\ UNCHANGED <<clock, highest, added, shown>>

\* The surplus is removed from the end.
Capped(s) == IF Len(s) > MaxItems THEN SubSeq(s, 1, MaxItems) ELSE s

With(entry) == <<entry>> \o items

\* The rest of Add.
AddInserts ==
  LET entry == [id |-> Len(added) + 1, at |-> clock] IN
  /\ adding
  /\ adding' = FALSE
  /\ items' = Capped(With(entry))
  /\ added' = Append(added, entry)
  /\ UNCHANGED <<clock, highest, shown>>

Snapshot ==
  /\ ~adding
  /\ items' = Pruned
  /\ shown' = [items |-> Pruned, at |-> clock]
  /\ UNCHANGED <<clock, highest, adding, added>>

Next ==
  \/ \E t \in 0..MaxTime : SetClock(t)
  \/ AddPrunes
  \/ AddInserts
  \/ Snapshot

Spec == Init /\ [][Next]_vars

------------------------------------------------------------------------------
(* Properties                                                               *)

\* No visitor sees an entry that was too old when the page was asked for, even
\* if the clock stepped back and the list is not sorted by time.
ShownIsRecent == \A i \in 1..Len(shown.items) :
  shown.items[i].at + Retention >= shown.at

\* The feed is in the order the diagnostics ended.
NewestFirst == \A i, j \in 1..Len(items) : i < j => items[i].id > items[j].id

\* Nothing else is dropped: of the last MaxItems entries one is missing only if
\* the clock once showed that it was too old.
KeptUnlessOld == \A k \in 1..Len(added) :
  k + MaxItems > Len(added) =>
    \/ \E i \in 1..Len(items) : items[i] = added[k]
    \/ added[k].at + Retention < highest
==============================================================================
