---------------------------- MODULE ClientIpHasher ----------------------------
(***************************************************************************)
(* The daily key of the client addresses in the audit log,                 *)
(* src/Api/Services/ClientIpHasher.cs.  A call of Hash reads the day from  *)
(* the clock, and only then takes the lock under which the key is rotated  *)
(* and returned; midnight and other calls may come between the two.        *)
(*                                                                         *)
(* A key is the number of its rotation: RandomNumberGenerator never makes  *)
(* the same one twice.  Key 0 is the empty array _key starts with, day 0   *)
(* the default DateOnly.                                                   *)
(***************************************************************************)
EXTENDS Naturals, Sequences

CONSTANTS
  Calls,    \* the calls of Hash with an address
  LastDay   \* bound of the model: the clock stops on this day

ASSUME HasherAssumption == LastDay \in Nat \ {0}

VARIABLES
  clock,  \* the day time.GetUtcNow() falls on
  pc,     \* pc[r]: "idle", "locking" (has read the day), "done"
  today,  \* today[r]: the local of CurrentKey
  day,    \* _day
  made,   \* made[k]: the day key k was made for; _key is the last of them
  used    \* used[r]: the key call r got

vars == <<clock, pc, today, day, made, used>>

Init ==
  /\ clock = 1
  /\ pc = [r \in Calls |-> "idle"]
  /\ today = [r \in Calls |-> 0]
  /\ day = 0
  /\ made = <<>>
  /\ used = [r \in Calls |-> 0]

Midnight ==
  /\ clock < LastDay
  /\ clock' = clock + 1
  /\ UNCHANGED <<pc, today, day, made, used>>

\* today = DateOnly.FromDateTime(time.GetUtcNow().UtcDateTime)
ReadDay(r) ==
  /\ pc[r] = "idle"
  /\ pc' = [pc EXCEPT ![r] = "locking"]
  /\ today' = [today EXCEPT ![r] = clock]
  /\ UNCHANGED <<clock, day, made, used>>

\* The key for a call that read day d, and whether it is a new one.
Rotated(d) == IF d # day THEN Append(made, d) ELSE made

\* Slip: a call that comes late keeps the key of the new day.
CurrentKeyForward(r) ==
  /\ pc[r] = "locking"
  /\ pc' = [pc EXCEPT ![r] = "done"]
  /\ made' = IF today[r] > day THEN Append(made, today[r]) ELSE made
  /\ day' = IF today[r] > day THEN today[r] ELSE day
  /\ used' = [used EXCEPT ![r] = Len(made')]
  /\ UNCHANGED <<clock, today>>

\* The block under the lock.
CurrentKey(r) ==
  /\ pc[r] = "locking"
  /\ pc' = [pc EXCEPT ![r] = "done"]
  /\ made' = Rotated(today[r])
  /\ day' = today[r]
  /\ used' = [used EXCEPT ![r] = Len(made')]
  /\ UNCHANGED <<clock, today>>

Next ==
  \/ Midnight
  \/ \E r \in Calls : ReadDay(r) \/ CurrentKey(r)

Spec == Init /\ [][Next]_vars

------------------------------------------------------------------------------
(* Properties                                                               *)

\* docs/architecture.md: hashed addresses are unlinkable after the day.  No two
\* calls of different days are ever given the same key, and none the empty one,
\* however the calls of two days overlap at midnight.
UnlinkableAcrossDays == \A r, q \in Calls :
  pc[r] = "done" /\ pc[q] = "done" =>
    used[r] # 0 /\ (used[r] = used[q] => today[r] = today[q])

\* A key is replaced only by the key of another day: while the calls in flight
\* agree on the day, the log stays correlatable.
RotatedByAnotherDay == \A k \in 1..Len(made) - 1 : made[k] # made[k + 1]

------------------------------------------------------------------------------
\* docs/architecture.md: "entries are correlatable within a day".
CorrelatableWithinDay == \A r, q \in Calls :
  pc[r] = "done" /\ pc[q] = "done" /\ today[r] = today[q] => used[r] = used[q]
===============================================================================
