------------------------------- MODULE TtlCache -------------------------------
(***************************************************************************)
(* The cache in front of the API's slow questions, TtlCache of             *)
(* src/Api/Services/InfoServices.cs, one per API replica: a look at value  *)
(* and expiry without the gate, then the gate, a second look, and the      *)
(* factory, run under the token of the caller that holds the gate.         *)
(* EgressService of the worker is built the same way.                      *)
(*                                                                         *)
(* The clock counts units of which Life is a number.  A step is what other *)
(* callers cannot come between: the two fields are written one after the   *)
(* other, and the fast path reads them in three steps.                     *)
(***************************************************************************)
EXTENDS Naturals, Sequences, SequencesExt

CONSTANTS
  Calls,    \* the calls of GetAsync, each with a token of its own
  Caches,   \* the caches
  CacheOf,  \* CacheOf[r]: the cache call r asks
  Values,   \* what a factory may return
  Empty,    \* stands for a null _value
  Life(_),  \* Life(v): ttl, which in EgressService depends on the value
  MaxTime   \* bound of the model: the clock stops here

ASSUME CacheAssumption ==
  /\ CacheOf \in [Calls -> Caches]
  /\ \A v \in Values : Life(v) \in Nat \ {0}
  /\ MaxTime \in Nat
  /\ Empty \notin [val : Values, at : Nat]

VARIABLES
  now,        \* the clock
  pc,         \* pc[r]: where call r is
  cancelled,  \* cancelled[r]: its token is cancelled
  start,      \* start[r]: the clock it read when it came
  got,        \* got[r]: the value it returned, with the time of its making
  outcome,    \* outcome[r]: how it ended
  cell,       \* cell[c]: _value and when it was made
  expires,    \* expires[c]: _expires
  gate,       \* gate[c]: the count of the semaphore _gate
  line        \* line[c]: those waiting for it, in order

cacheVars == <<now, pc, cancelled, start, got, outcome, cell, expires, gate, line>>

Cells == [val : Values, at : Nat] \cup {Empty}

\* idle       not called yet
\* comparing  has found a value and read the clock
\* hit        has found it fresh
\* queueing   about to call WaitAsync
\* parked     waits for the gate
\* holding    has the gate
\* filling    runs the factory
\* storing    has written _value but not _expires
\* done       has returned or thrown
Inside == {"holding", "filling", "storing"}
Phases == {"idle", "comparing", "hit", "queueing", "parked", "done"} \cup Inside

Init ==
  /\ now = 0
  /\ pc = [r \in Calls |-> "idle"]
  /\ cancelled = [r \in Calls |-> FALSE]
  /\ start = [r \in Calls |-> 0]
  /\ got = [r \in Calls |-> Empty]
  /\ outcome = [r \in Calls |-> "none"]
  /\ cell = [c \in Caches |-> Empty]
  /\ expires = [c \in Caches |-> 0]
  /\ gate = [c \in Caches |-> 1]
  /\ line = [c \in Caches |-> <<>>]

------------------------------------------------------------------------------
(* The environment                                                          *)

\* The two writes of a fill are not a unit of time apart.
Tick ==
  /\ now < MaxTime
  /\ \A r \in Calls : pc[r] # "storing"
  /\ now' = now + 1
  /\ UNCHANGED <<pc, cancelled, start, got, outcome, cell, expires, gate, line>>

Cancel(r) ==
  /\ ~cancelled[r]
  /\ pc[r] \notin {"idle", "done"}
  /\ cancelled' = [cancelled EXCEPT ![r] = TRUE]
  /\ UNCHANGED <<now, pc, start, got, outcome, cell, expires, gate, line>>

------------------------------------------------------------------------------
(* GetAsync                                                                 *)

\* The first operand of the check, and the clock.
Call(r) ==
  /\ pc[r] = "idle"
  /\ start' = [start EXCEPT ![r] = now]
  /\ pc' = [pc EXCEPT ![r] = IF cell[CacheOf[r]] # Empty THEN "comparing" ELSE "queueing"]
  /\ UNCHANGED <<now, cancelled, got, outcome, cell, expires, gate, line>>

\* Slip: the value is served at the very moment it expires.
CompareLoosely(r) ==
  /\ pc[r] = "comparing"
  /\ pc' = [pc EXCEPT ![r] = IF start[r] <= expires[CacheOf[r]] THEN "hit" ELSE "queueing"]
  /\ UNCHANGED <<now, cancelled, start, got, outcome, cell, expires, gate, line>>

\* The second operand.
Compare(r) ==
  /\ pc[r] = "comparing"
  /\ pc' = [pc EXCEPT ![r] = IF start[r] < expires[CacheOf[r]] THEN "hit" ELSE "queueing"]
  /\ UNCHANGED <<now, cancelled, start, got, outcome, cell, expires, gate, line>>

\* _value is read again to be returned.
Hit(r) ==
  /\ pc[r] = "hit"
  /\ pc' = [pc EXCEPT ![r] = "done"]
  /\ got' = [got EXCEPT ![r] = cell[CacheOf[r]]]
  /\ outcome' = [outcome EXCEPT ![r] = "value"]
  /\ UNCHANGED <<now, cancelled, start, cell, expires, gate, line>>

\* WaitAsync: a token that is cancelled already is looked at first.
Enqueue(r) ==
  LET c == CacheOf[r] IN
  /\ pc[r] = "queueing"
  /\ \/ /\ cancelled[r]
        /\ pc' = [pc EXCEPT ![r] = "done"]
        /\ outcome' = [outcome EXCEPT ![r] = "cancelled"]
        /\ UNCHANGED <<gate, line>>
     \/ /\ ~cancelled[r]
        /\ gate[c] > 0
        /\ pc' = [pc EXCEPT ![r] = "holding"]
        /\ gate' = [gate EXCEPT ![c] = @ - 1]
        /\ UNCHANGED <<outcome, line>>
     \/ /\ ~cancelled[r]
        /\ gate[c] = 0
        /\ pc' = [pc EXCEPT ![r] = "parked"]
        /\ line' = [line EXCEPT ![c] = Append(@, r)]
        /\ UNCHANGED <<outcome, gate>>
  /\ UNCHANGED <<now, cancelled, start, got, cell, expires>>

\* What call r leaves as it ends: with others waiting, the gate goes to the
\* first of them.
Leave(r) ==
  LET c == CacheOf[r] IN
  IF line[c] = <<>>
  THEN /\ pc' = [pc EXCEPT ![r] = "done"]
       /\ gate' = [gate EXCEPT ![c] = @ + 1]
       /\ UNCHANGED line
  ELSE /\ pc' = [pc EXCEPT ![r] = "done", ![Head(line[c])] = "holding"]
       /\ line' = [line EXCEPT ![c] = Tail(@)]
       /\ UNCHANGED gate

\* A parked call is cancelled.
GiveUp(r) ==
  LET c == CacheOf[r] IN
  /\ pc[r] = "parked"
  /\ cancelled[r]
  /\ pc' = [pc EXCEPT ![r] = "done"]
  /\ outcome' = [outcome EXCEPT ![r] = "cancelled"]
  /\ \E i \in 1..Len(line[c]) :
       line[c][i] = r /\ line' = [line EXCEPT ![c] = RemoveAt(@, i)]
  /\ UNCHANGED <<now, cancelled, start, got, cell, expires, gate>>

Fresh(c) == cell[c] # Empty /\ now < expires[c]

\* The second look, with the gate: somebody else has filled the cache.
Found(r) ==
  /\ pc[r] = "holding"
  /\ Fresh(CacheOf[r])
  /\ got' = [got EXCEPT ![r] = cell[CacheOf[r]]]
  /\ outcome' = [outcome EXCEPT ![r] = "value"]
  /\ Leave(r)
  /\ UNCHANGED <<now, cancelled, start, cell, expires>>

\* ... or the factory is called.
Fill(r) ==
  /\ pc[r] = "holding"
  /\ ~Fresh(CacheOf[r])
  /\ pc' = [pc EXCEPT ![r] = "filling"]
  /\ UNCHANGED <<now, cancelled, start, got, outcome, cell, expires, gate, line>>

\* The factory returns and _value is written.
FillReturns(r, v) ==
  /\ pc[r] = "filling"
  /\ pc' = [pc EXCEPT ![r] = "storing"]
  /\ cell' = [cell EXCEPT ![CacheOf[r]] = [val |-> v, at |-> now]]
  /\ UNCHANGED <<now, cancelled, start, got, outcome, expires, gate, line>>

\* _expires is written and the value returned.
Store(r) ==
  /\ pc[r] = "storing"
  /\ expires' = [expires EXCEPT ![CacheOf[r]] = now + Life(cell[CacheOf[r]].val)]
  /\ got' = [got EXCEPT ![r] = cell[CacheOf[r]]]
  /\ outcome' = [outcome EXCEPT ![r] = "value"]
  /\ Leave(r)
  /\ UNCHANGED <<now, cancelled, start, cell>>

\* Slip: no finally.
FillThrowsHolding(r) ==
  /\ pc[r] = "filling"
  /\ outcome' = [outcome EXCEPT ![r] = "failed"]
  /\ pc' = [pc EXCEPT ![r] = "done"]
  /\ UNCHANGED <<now, cancelled, start, got, cell, expires, gate, line>>

\* The factory throws: the caller gets the exception, the cache keeps what it has.
FillThrows(r) ==
  /\ pc[r] = "filling"
  /\ outcome' = [outcome EXCEPT ![r] = "failed"]
  /\ Leave(r)
  /\ UNCHANGED <<now, cancelled, start, got, cell, expires>>

\* Slip: those who wait share the fate of the one that fills.
FillCancelledForAll(r) ==
  LET c == CacheOf[r]
      Gone == {q \in Calls : CacheOf[q] = c /\ (q = r \/ pc[q] = "parked")} IN
  /\ pc[r] = "filling"
  /\ cancelled[r]
  /\ pc' = [q \in Calls |-> IF q \in Gone THEN "done" ELSE pc[q]]
  /\ outcome' = [q \in Calls |-> IF q \in Gone THEN "cancelled" ELSE outcome[q]]
  /\ line' = [line EXCEPT ![c] = <<>>]
  /\ gate' = [gate EXCEPT ![c] = @ + 1]
  /\ UNCHANGED <<now, cancelled, start, got, cell, expires>>

\* The factory notices that the caller has gone.
FillCancelled(r) ==
  /\ pc[r] = "filling"
  /\ cancelled[r]
  /\ outcome' = [outcome EXCEPT ![r] = "cancelled"]
  /\ Leave(r)
  /\ UNCHANGED <<now, cancelled, start, got, cell, expires>>

\* The steps of a call that do not depend on its factory.
Step(r) ==
  \/ Call(r) \/ Compare(r) \/ Hit(r) \/ Enqueue(r) \/ GiveUp(r)
  \/ Found(r) \/ Store(r)

Factory(r) ==
  \/ Fill(r)
  \/ \E v \in Values : FillReturns(r, v)
  \/ FillThrows(r)
  \/ FillCancelled(r)

CacheNext == Tick \/ \E r \in Calls : Cancel(r) \/ Step(r) \/ Factory(r)

CacheSpec == Init /\ [][CacheNext]_cacheVars

------------------------------------------------------------------------------
(* Properties                                                               *)

TypeOK ==
  /\ now \in 0..MaxTime
  /\ pc \in [Calls -> Phases]
  /\ cancelled \in [Calls -> BOOLEAN]
  /\ start \in [Calls -> 0..MaxTime]
  /\ got \in [Calls -> Cells]
  /\ outcome \in [Calls -> {"none", "value", "failed", "cancelled"}]
  /\ cell \in [Caches -> Cells]
  /\ expires \in [Caches -> Nat]
  /\ gate \in [Caches -> 0..1]
  /\ line \in [Caches -> Seq(Calls)]

\* One fill at a time in each cache, whoever gives up waiting for the gate.
SingleFlight == \A r, q \in Calls :
  pc[r] \in Inside /\ pc[q] \in Inside /\ CacheOf[r] = CacheOf[q] => r = q

\* What a call returns had not expired when the call came, although the fast
\* path reads the two fields while they are being written.
ServedFresh == \A r \in Calls : outcome[r] = "value" =>
  got[r] # Empty /\ start[r] < got[r].at + Life(got[r].val)

\* A value is replaced only when its time is over: those who waited while it was
\* being fetched do not fetch it again.
UpstreamSpared == [][\A c \in Caches :
  cell'[c] # cell[c] /\ cell[c] # Empty => now >= cell[c].at + Life(cell[c].val)]_cacheVars

\* Nobody is told of a cancellation that was not its own, although the fill that
\* everybody waits for runs under the token of one of them.
NoInheritedCancel == \A r \in Calls : outcome[r] = "cancelled" => cancelled[r]
===============================================================================
