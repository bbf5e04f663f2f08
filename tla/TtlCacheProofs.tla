---------------------------- MODULE TtlCacheProofs ----------------------------
(***************************************************************************)
(* Proofs about TtlCache for any number of calls and caches, any lifetime  *)
(* and any clock.                                                          *)
(***************************************************************************)
EXTENDS TtlCache, ProofLemmas

\* The gate of a cache is taken by at most one call, and those in line wait
\* for it, each once.
InLine(c) ==
  /\ \A i, j \in 1..Len(line[c]) : line[c][i] = line[c][j] => i = j
  /\ \A q \in ToSet(line[c]) : pc[q] = "parked" /\ CacheOf[q] = c

GateKept ==
  /\ SingleFlight
  /\ \A r \in Calls : pc[r] \in Inside => gate[CacheOf[r]] = 0
  /\ \A c \in Caches : InLine(c)

Stale(c) == cell[c] = Empty \/ now >= cell[c].at + Life(cell[c].val)

\* What the two fields say about each other: the lifetime of a value may be
\* behind by one fill, never ahead.
Written(c) ==
  /\ cell[c] = Empty => expires[c] = 0
  /\ cell[c] # Empty =>
       /\ cell[c].at <= now
       /\ expires[c] <= cell[c].at + Life(cell[c].val)
       /\ \/ expires[c] = cell[c].at + Life(cell[c].val)
          \/ \E q \in Calls : pc[q] = "storing" /\ CacheOf[q] = c

\* What a call knows at its program counter.
Knows(r) ==
  LET c == CacheOf[r] IN
  /\ start[r] <= now
  /\ pc[r] \in {"comparing", "hit"} => cell[c] # Empty
  /\ pc[r] = "hit" => start[r] < cell[c].at + Life(cell[c].val)
  /\ pc[r] = "filling" => Stale(c)
  /\ pc[r] = "storing" => cell[c] # Empty /\ cell[c].at = now

Accounted(r) ==
  /\ pc[r] # "done" => outcome[r] = "none"
  /\ outcome[r] = "value" => got[r] # Empty /\ start[r] < got[r].at + Life(got[r].val)
  /\ outcome[r] = "cancelled" => cancelled[r]

IInv ==
  /\ TypeOK
  /\ GateKept
  /\ \A c \in Caches : Written(c)
  /\ \A r \in Calls : Knows(r)
  /\ \A r \in Calls : Accounted(r)

------------------------------------------------------------------------------
(* The gate                                                                 *)

\* A call that moves without touching gate or line.
LEMMA GateUntouched ==
  ASSUME TypeOK, GateKept, NEW r \in Calls, NEW p,
         pc' = [pc EXCEPT ![r] = p], UNCHANGED <<gate, line>>,
         pc[r] # "parked", p \in Inside => pc[r] \in Inside
  PROVE  GateKept'
<1>1. /\ pc \in [Calls -> Phases] /\ line \in [Caches -> Seq(Calls)]
      /\ CacheOf \in [Calls -> Caches]
  BY CacheAssumption DEF TypeOK
<1>2. \A q \in Calls : pc'[q] \in Inside => pc[q] \in Inside
  BY <1>1
<1>3. SingleFlight'
  BY <1>2 DEF GateKept, SingleFlight
<1>4. \A q \in Calls : pc'[q] \in Inside => gate'[CacheOf[q]] = 0
  BY <1>2 DEF GateKept
<1>5. ASSUME NEW c \in Caches PROVE InLine(c)'
  <2>1. InLine(c)
    BY DEF GateKept
  <2>2. \A q \in ToSet(line[c]) : q \in Calls
    BY <1>1 DEF ToSet
  <2>3. \A q \in ToSet(line[c]) : pc'[q] = pc[q]
    BY <1>1, <2>1, <2>2 DEF InLine
  <2>4. QED
    BY <2>1, <2>3 DEF InLine
<1>6. QED
  BY <1>3, <1>4, <1>5 DEF GateKept

\* The end of a call that has the gate: it goes back, or to the next in line.
LEMMA GateLeft ==
  ASSUME TypeOK, GateKept, NEW r \in Calls, pc[r] \in Inside, Leave(r)
  PROVE  /\ GateKept'
         /\ pc' \in [Calls -> Phases]
         /\ gate' \in [Caches -> 0..1]
         /\ line' \in [Caches -> Seq(Calls)]
         /\ pc'[r] = "done"
         /\ \A q \in Calls \ {r} :
              pc'[q] = pc[q] \/ (pc[q] = "parked" /\ pc'[q] = "holding")
<1> DEFINE c == CacheOf[r]
<1>1. /\ pc \in [Calls -> Phases] /\ line \in [Caches -> Seq(Calls)]
      /\ gate \in [Caches -> 0..1]
      /\ CacheOf \in [Calls -> Caches] /\ c \in Caches
  BY CacheAssumption DEF TypeOK
<1>2. gate[c] = 0 /\ InLine(c)
  BY <1>1 DEF GateKept
<1>3. "done" \in Phases /\ "holding" \in Phases /\ "holding" \in Inside
      /\ "done" \notin Inside /\ "parked" \notin Inside
  BY DEF Phases, Inside
<1>4. \A d \in Caches : \A q \in ToSet(line[d]) :
        q \in Calls /\ q # r /\ pc[q] = "parked" /\ CacheOf[q] = d
  <2> SUFFICES ASSUME NEW d \in Caches, NEW q \in ToSet(line[d])
               PROVE  q \in Calls /\ q # r /\ pc[q] = "parked" /\ CacheOf[q] = d
    OBVIOUS
  <2>1. pc[q] = "parked" /\ CacheOf[q] = d
    BY DEF GateKept, InLine
  <2>2. q \in Calls
    BY <1>1 DEF ToSet
  <2>3. QED
    BY <1>3, <2>1, <2>2
<1>5. CASE line[c] = <<>>
  <2>1. /\ pc' = [pc EXCEPT ![r] = "done"]
        /\ gate' = [gate EXCEPT ![c] = 1]
        /\ line' = line
    BY <1>1, <1>2, <1>5 DEF Leave
  <2>2. \A q \in Calls : pc'[q] \in Inside => q # r /\ pc[q] \in Inside
    BY <1>1, <1>3, <2>1
  <2>3. SingleFlight'
    BY <2>2 DEF GateKept, SingleFlight
  <2>4. \A q \in Calls : pc'[q] \in Inside => gate'[CacheOf[q]] = 0
    <3>1. \A q \in Calls : pc'[q] \in Inside => CacheOf[q] # c
      BY <2>2 DEF GateKept, SingleFlight
    <3>2. QED
      BY <1>1, <2>1, <2>2, <3>1 DEF GateKept
  <2>5. ASSUME NEW d \in Caches PROVE InLine(d)'
    <3>1. InLine(d)
      BY DEF GateKept
    <3>2. \A q \in ToSet(line[d]) : pc'[q] = "parked"
      BY <1>1, <1>4, <2>1
    <3>3. QED
      BY <2>1, <3>1, <3>2 DEF InLine
  <2>6. QED
    BY <1>1, <1>3, <2>1, <2>3, <2>4, <2>5 DEF GateKept
<1>6. CASE line[c] # <<>>
  <2> DEFINE h == Head(line[c])
  <2>1. /\ pc' = [pc EXCEPT ![r] = "done", ![h] = "holding"]
        /\ line' = [line EXCEPT ![c] = Tail(line[c])]
        /\ gate' = gate
    BY <1>1, <1>6 DEF Leave
  <2>2. line[c] \in Seq(Calls) /\ 1 \in 1..Len(line[c]) /\ h = line[c][1]
    BY <1>1, <1>6
  <2>3. h \in ToSet(line[c])
    BY <2>2 DEF ToSet
  <2>4. h \in Calls /\ h # r /\ pc[h] = "parked" /\ CacheOf[h] = c
    BY <1>1, <1>4, <2>3
  <2> HIDE DEF h
  <2>5. /\ Tail(line[c]) \in Seq(Calls)
        /\ \A j, k \in 1..Len(Tail(line[c])) : Tail(line[c])[j] = Tail(line[c])[k] => j = k
        /\ ToSet(Tail(line[c])) = ToSet(line[c]) \ {h}
    <3>1. Tail(line[c]) = RemoveAt(line[c], 1)
      BY <2>2, <1>6 DEF RemoveAt
    <3>2. \A j, k \in 1..Len(line[c]) : line[c][j] = line[c][k] => j = k
      BY <1>2 DEF InLine
    <3>3. QED
      BY <2>2, <3>1, <3>2, Unlink
  <2>6. \A q \in Calls : pc'[q] = IF q = h THEN "holding" ELSE IF q = r THEN "done" ELSE pc[q]
    BY <1>1, <2>1, <2>4
  <2>7. \A q \in Calls : pc'[q] \in Inside => q # r /\ (q = h \/ pc[q] \in Inside)
    BY <1>3, <2>4, <2>6
  <2>8. \A q \in Calls : q # r /\ pc[q] \in Inside => CacheOf[q] # c
    BY DEF GateKept, SingleFlight
  <2>9. SingleFlight'
    BY <2>4, <2>7, <2>8 DEF GateKept, SingleFlight
  <2>10. \A q \in Calls : pc'[q] \in Inside => gate'[CacheOf[q]] = 0
    BY <1>2, <2>1, <2>4, <2>7 DEF GateKept
  <2>11. ASSUME NEW d \in Caches PROVE InLine(d)'
    <3>1. CASE d = c
      <4>1. line'[d] = Tail(line[c])
        BY <1>1, <2>1, <3>1
      <4>2. \A q \in ToSet(line'[d]) : pc'[q] = "parked" /\ CacheOf[q] = d
        BY <1>4, <2>5, <2>6, <3>1, <4>1
      <4>3. QED
        BY <2>5, <4>1, <4>2 DEF InLine
    <3>2. CASE d # c
      <4>1. line'[d] = line[d] /\ InLine(d)
        BY <1>1, <2>1, <3>2 DEF GateKept
      <4>2. \A q \in ToSet(line[d]) : pc'[q] = "parked"
        BY <1>4, <2>4, <2>6, <3>2
      <4>3. QED
        BY <4>1, <4>2 DEF InLine
    <3>3. QED
      BY <3>1, <3>2
  <2>12. pc' \in [Calls -> Phases] /\ line' \in [Caches -> Seq(Calls)]
    BY <1>1, <1>3, <2>1, <2>4, <2>5
  <2>13. QED
    BY <1>1, <2>1, <2>4, <2>6, <2>9, <2>10, <2>11, <2>12 DEF GateKept
<1>7. QED
  BY <1>5, <1>6

------------------------------------------------------------------------------
(* What stays true of the calls and caches a step does not touch            *)

\* The two fields of a cache that a step does not write.
LEMMA WrittenKept ==
  ASSUME NEW c \in Caches, Written(c), UNCHANGED <<now, cell, expires>>,
         \A q \in Calls : pc[q] = "storing" => pc'[q] = "storing"
  PROVE  Written(c)'
BY DEF Written

\* A call that stays where it is, or is given the gate.
LEMMA KnowsStill ==
  ASSUME NEW q \in Calls, Knows(q), UNCHANGED <<now, cell>>, start'[q] = start[q],
         pc'[q] \in {pc[q], "queueing", "parked", "holding", "done"}
  PROVE  Knows(q)'
BY DEF Knows, Stale

\* A call that has not ended, or had ended before.
LEMMA AccountedStill ==
  ASSUME NEW q \in Calls, Accounted(q), start'[q] = start[q], got'[q] = got[q],
         outcome'[q] = outcome[q], cancelled'[q] = cancelled[q],
         pc[q] # "done" \/ pc'[q] = "done"
  PROVE  Accounted(q)'
BY DEF Accounted

LEMMA InitIInv == Init => IInv
<1> SUFFICES ASSUME Init PROVE IInv
  OBVIOUS
<1>1. TypeOK
  BY CacheAssumption DEF Init, TypeOK, Phases, Cells
<1>2. GateKept
  <2>1. \A r \in Calls : pc[r] \notin Inside
    BY DEF Init, Inside
  <2>2. \A c \in Caches : ToSet(line[c]) = {} /\ Len(line[c]) = 0
    BY DEF Init, ToSet
  <2>3. QED
    BY <2>1, <2>2 DEF GateKept, SingleFlight, InLine
<1>3. \A c \in Caches : Written(c)
  BY DEF Init, Written
<1>4. \A r \in Calls : Knows(r) /\ Accounted(r)
  BY DEF Init, Knows, Accounted
<1>5. QED
  BY <1>1, <1>2, <1>3, <1>4 DEF IInv

------------------------------------------------------------------------------
(* One lemma per action                                                     *)

LEMMA TickInv == ASSUME IInv, Tick PROVE IInv'
<1>1. now \in Nat /\ now' = now + 1 /\ now' \in 0..MaxTime
  BY CacheAssumption DEF IInv, TypeOK, Tick
<1>2. UNCHANGED <<pc, cancelled, start, got, outcome, cell, expires, gate, line>>
  BY DEF Tick
<1>3. TypeOK'
  BY <1>1, <1>2 DEF IInv, TypeOK
<1>4. GateKept'
  BY <1>2 DEF IInv, GateKept, SingleFlight, InLine
<1>5. \A c \in Caches : cell[c] # Empty =>
        cell[c].at \in Nat /\ Life(cell[c].val) \in Nat
  BY CacheAssumption DEF IInv, TypeOK, Cells
<1>6. \A c \in Caches : Written(c)'
  BY <1>1, <1>2, <1>5 DEF IInv, Written
<1>7. ASSUME NEW r \in Calls PROVE Knows(r)'
  <2>1. Knows(r) /\ CacheOf[r] \in Caches /\ start[r] \in Nat /\ pc[r] # "storing"
    BY CacheAssumption DEF IInv, TypeOK, Tick
  <2>2. QED
    BY <1>1, <1>2, <1>5, <2>1, CacheAssumption DEF Knows, Stale
<1>8. \A r \in Calls : Accounted(r)'
  BY <1>2 DEF IInv, Accounted
<1>9. QED
  BY <1>3, <1>4, <1>6, <1>7, <1>8 DEF IInv

LEMMA CancelInv == ASSUME IInv, NEW r \in Calls, Cancel(r) PROVE IInv'
<1>1. /\ UNCHANGED <<now, pc, start, got, outcome, cell, expires, gate, line>>
      /\ cancelled' = [cancelled EXCEPT ![r] = TRUE]
  BY DEF Cancel
<1>2. TypeOK'
  BY <1>1 DEF IInv, TypeOK
<1>3. GateKept'
  BY <1>1 DEF IInv, GateKept, SingleFlight, InLine
<1>4. \A c \in Caches : Written(c)'
  BY <1>1 DEF IInv, Written
<1>5. \A q \in Calls : Knows(q)'
  BY <1>1 DEF IInv, Knows, Stale
<1>6. \A q \in Calls : cancelled[q] => cancelled'[q]
  BY <1>1 DEF IInv, TypeOK
<1>7. \A q \in Calls : Accounted(q)'
  BY <1>1, <1>6 DEF IInv, Accounted
<1>8. QED
  BY <1>2, <1>3, <1>4, <1>5, <1>7 DEF IInv

\* The steps before the gate: Call, Compare and the steps that end a call on the
\* fast path move one call and write no field of a cache.
LEMMA LookInv ==
  ASSUME IInv, NEW r \in Calls, NEW p \in {"comparing", "hit", "queueing", "filling", "done"},
         pc' = [pc EXCEPT ![r] = p], pc[r] # "parked",
         pc[r] # "storing", p = "filling" => pc[r] = "holding",
         UNCHANGED <<now, cell, expires, gate, line>>,
         start' \in [Calls -> 0..MaxTime], got' \in [Calls -> Cells],
         outcome' \in [Calls -> {"none", "value", "failed", "cancelled"}],
         cancelled' = cancelled,
         \A q \in Calls \ {r} :
           start'[q] = start[q] /\ got'[q] = got[q] /\ outcome'[q] = outcome[q],
         Knows(r)', Accounted(r)'
  PROVE  IInv'
<1>1. p \in Phases /\ (p \in Inside => pc[r] \in Inside)
  BY DEF Phases, Inside
<1>2. pc \in [Calls -> Phases] /\ \A q \in Calls \ {r} : pc'[q] = pc[q]
  BY DEF IInv, TypeOK
<1>3. TypeOK'
  BY <1>1, <1>2 DEF IInv, TypeOK
<1>4. GateKept'
  BY <1>1, GateUntouched DEF IInv
<1>5. \A c \in Caches : Written(c)'
  BY <1>2, WrittenKept DEF IInv
<1>6. \A q \in Calls \ {r} : Knows(q)' /\ Accounted(q)'
  BY <1>2, KnowsStill, AccountedStill DEF IInv
<1>7. QED
  BY <1>3, <1>4, <1>5, <1>6 DEF IInv

LEMMA CallInv == ASSUME IInv, NEW r \in Calls, Call(r) PROVE IInv'
<1>1. PICK p \in {"comparing", "queueing"} :
        /\ pc' = [pc EXCEPT ![r] = p]
        /\ p = "comparing" => cell[CacheOf[r]] # Empty
  BY DEF Call
<1>2. pc[r] = "idle" /\ Accounted(r) /\ pc \in [Calls -> Phases] /\ now \in 0..MaxTime
      /\ start \in [Calls -> 0..MaxTime] /\ got \in [Calls -> Cells]
      /\ outcome \in [Calls -> {"none", "value", "failed", "cancelled"}]
  BY DEF Call, IInv, TypeOK
<1>3. /\ start' = [start EXCEPT ![r] = now]
      /\ UNCHANGED <<now, cancelled, got, outcome, cell, expires, gate, line>>
  BY DEF Call
<1>4. pc'[r] = p /\ start'[r] = now /\ start' \in [Calls -> 0..MaxTime]
  BY <1>1, <1>2, <1>3
<1>5. Knows(r)' /\ Accounted(r)'
  BY <1>1, <1>2, <1>3, <1>4, CacheAssumption DEF Knows, Accounted
<1>6. \A q \in Calls \ {r} : start'[q] = start[q]
  BY <1>2, <1>3
<1>7. QED
  BY <1>1, <1>2, <1>3, <1>4, <1>5, <1>6, LookInv

LEMMA CompareInv == ASSUME IInv, NEW r \in Calls, Compare(r) PROVE IInv'
<1> DEFINE c == CacheOf[r]
<1>1. /\ pc[r] = "comparing"
      /\ UNCHANGED <<now, cancelled, start, got, outcome, cell, expires, gate, line>>
  BY DEF Compare
<1>2. PICK p \in {"hit", "queueing"} :
        pc' = [pc EXCEPT ![r] = p] /\ (p = "hit" => start[r] < expires[c])
  BY DEF Compare
<1>3. TypeOK /\ Knows(r) /\ Accounted(r) /\ c \in Caches /\ Written(c)
  BY CacheAssumption DEF IInv
<1>4. pc'[r] = p
  BY <1>2, <1>3 DEF TypeOK
<1>5. /\ cell[c] # Empty /\ cell[c].at \in Nat /\ Life(cell[c].val) \in Nat
      /\ start[r] \in Nat /\ expires[c] \in Nat
  BY <1>1, <1>3, CacheAssumption DEF Knows, TypeOK, Cells
<1>6. p = "hit" => start[r] < cell[c].at + Life(cell[c].val)
  BY <1>2, <1>3, <1>5, CacheAssumption DEF Written
<1>7. Knows(r)' /\ Accounted(r)'
  BY <1>1, <1>3, <1>4, <1>5, <1>6 DEF Knows, Accounted
<1>8. QED
  BY <1>1, <1>2, <1>3, <1>7, LookInv DEF TypeOK

LEMMA HitInv == ASSUME IInv, NEW r \in Calls, Hit(r) PROVE IInv'
<1> DEFINE c == CacheOf[r]
<1>1. /\ pc[r] = "hit"
      /\ pc' = [pc EXCEPT ![r] = "done"]
      /\ got' = [got EXCEPT ![r] = cell[c]]
      /\ outcome' = [outcome EXCEPT ![r] = "value"]
      /\ UNCHANGED <<now, cancelled, start, cell, expires, gate, line>>
  BY DEF Hit
<1>2. TypeOK /\ Knows(r) /\ c \in Caches
  BY CacheAssumption DEF IInv
<1>3. pc'[r] = "done" /\ got'[r] = cell[c] /\ outcome'[r] = "value"
  BY <1>1, <1>2 DEF TypeOK
<1>4. /\ got' \in [Calls -> Cells]
      /\ outcome' \in [Calls -> {"none", "value", "failed", "cancelled"}]
      /\ \A q \in Calls \ {r} : got'[q] = got[q] /\ outcome'[q] = outcome[q]
      /\ start \in [Calls -> 0..MaxTime]
  BY <1>1, <1>2 DEF TypeOK
<1>5. Knows(r)' /\ Accounted(r)'
  BY <1>1, <1>2, <1>3 DEF Knows, Accounted
<1>6. QED
  BY <1>1, <1>4, <1>5, LookInv

LEMMA FillInv == ASSUME IInv, NEW r \in Calls, Fill(r) PROVE IInv'
<1> DEFINE c == CacheOf[r]
<1>1. /\ pc[r] = "holding"
      /\ ~Fresh(c)
      /\ pc' = [pc EXCEPT ![r] = "filling"]
      /\ UNCHANGED <<now, cancelled, start, got, outcome, cell, expires, gate, line>>
  BY DEF Fill
<1>2. TypeOK /\ Knows(r) /\ Accounted(r) /\ c \in Caches /\ Written(c) /\ GateKept
  BY CacheAssumption DEF IInv
<1>3. pc'[r] = "filling"
  BY <1>1, <1>2 DEF TypeOK
<1>4. \A q \in Calls : CacheOf[q] = c => pc[q] # "storing"
  BY <1>1, <1>2 DEF GateKept, SingleFlight, Inside
<1>5. Stale(c)
  <2>1. now \in Nat /\ expires[c] \in Nat
    BY <1>2 DEF TypeOK
  <2>2. QED
    BY <1>1, <1>2, <1>4, <2>1 DEF Written, Fresh, Stale
<1>6. Knows(r)' /\ Accounted(r)'
  BY <1>1, <1>2, <1>3, <1>5 DEF Knows, Accounted, Stale
<1>7. QED
  BY <1>1, <1>2, <1>6, LookInv DEF TypeOK

\* The three answers of WaitAsync.
LEMMA EnqueueInv == ASSUME IInv, NEW r \in Calls, Enqueue(r) PROVE IInv'
<1> DEFINE c == CacheOf[r]
<1>1. /\ pc[r] = "queueing"
      /\ UNCHANGED <<now, cancelled, start, got, cell, expires>>
  BY DEF Enqueue
<1>2. /\ TypeOK /\ Knows(r) /\ Accounted(r) /\ c \in Caches /\ GateKept
      /\ CacheOf \in [Calls -> Caches]
  BY CacheAssumption DEF IInv
<1>3. \A d \in Caches : \A q \in ToSet(line[d]) : q \in Calls /\ q # r
  <2> SUFFICES ASSUME NEW d \in Caches, NEW q \in ToSet(line[d])
               PROVE  q \in Calls /\ q # r
    OBVIOUS
  <2>1. pc[q] = "parked" /\ line[d] \in Seq(Calls)
    BY <1>2 DEF GateKept, InLine, TypeOK
  <2>2. QED
    BY <1>1, <2>1 DEF ToSet
<1>4. CASE /\ cancelled[r]
           /\ pc' = [pc EXCEPT ![r] = "done"]
           /\ outcome' = [outcome EXCEPT ![r] = "cancelled"]
           /\ UNCHANGED <<gate, line>>
  <2>1. pc'[r] = "done" /\ outcome'[r] = "cancelled"
    BY <1>2, <1>4 DEF TypeOK
  <2>2. /\ outcome' \in [Calls -> {"none", "value", "failed", "cancelled"}]
        /\ \A q \in Calls \ {r} : outcome'[q] = outcome[q]
    BY <1>2, <1>4 DEF TypeOK
  <2>3. Knows(r)' /\ Accounted(r)'
    BY <1>1, <1>2, <1>4, <2>1 DEF Knows, Accounted
  <2>4. start \in [Calls -> 0..MaxTime] /\ got \in [Calls -> Cells]
    BY <1>2 DEF TypeOK
  <2>5. QED
    BY <1>1, <1>4, <2>2, <2>3, <2>4, LookInv
<1>5. ASSUME NEW p \in {"holding", "parked"}, pc' = [pc EXCEPT ![r] = p],
             UNCHANGED outcome, TypeOK', GateKept'
      PROVE  IInv'
  <2>1. pc'[r] = p /\ \A q \in Calls \ {r} : pc'[q] = pc[q]
    BY <1>2, <1>5 DEF TypeOK
  <2>2. \A d \in Caches : Written(d)'
    BY <1>1, <2>1, WrittenKept DEF IInv
  <2>3. \A q \in Calls : Knows(q)' /\ Accounted(q)'
    BY <1>1, <1>5, <2>1, KnowsStill, AccountedStill DEF IInv
  <2>4. QED
    BY <1>5, <2>2, <2>3 DEF IInv
<1>6. CASE /\ gate[c] > 0
           /\ pc' = [pc EXCEPT ![r] = "holding"]
           /\ gate' = [gate EXCEPT ![c] = @ - 1]
           /\ UNCHANGED <<outcome, line>>
  <2>1. gate[c] = 1 /\ gate'[c] = 0 /\ gate' \in [Caches -> 0..1]
        /\ \A d \in Caches \ {c} : gate'[d] = gate[d]
    BY <1>2, <1>6 DEF TypeOK
  <2>2. TypeOK'
    BY <1>1, <1>2, <1>6, <2>1 DEF TypeOK, Phases, Inside
  <2>3. \A q \in Calls : pc'[q] \in Inside => q = r \/ (pc[q] \in Inside /\ CacheOf[q] # c)
    BY <1>2, <1>6, <2>1 DEF GateKept, TypeOK
  <2>4. SingleFlight'
    BY <1>2, <2>3 DEF GateKept, SingleFlight
  <2>5. \A q \in Calls : pc'[q] \in Inside => gate'[CacheOf[q]] = 0
    BY <1>2, <2>1, <2>3 DEF GateKept
  <2>6. ASSUME NEW d \in Caches PROVE InLine(d)'
    <3>1. InLine(d) /\ line[d] \in Seq(Calls)
      BY <1>2 DEF GateKept, TypeOK
    <3>2. \A q \in ToSet(line[d]) : pc'[q] = pc[q]
      BY <1>2, <1>6, <1>3 DEF TypeOK
    <3>3. QED
      BY <1>6, <3>1, <3>2 DEF InLine
  <2>7. QED
    BY <1>5, <1>6, <2>2, <2>4, <2>5, <2>6 DEF GateKept
<1>7. CASE /\ gate[c] = 0
           /\ pc' = [pc EXCEPT ![r] = "parked"]
           /\ line' = [line EXCEPT ![c] = Append(@, r)]
           /\ UNCHANGED <<outcome, gate>>
  <2>1. line[c] \in Seq(Calls) /\ InLine(c)
    BY <1>2 DEF GateKept, TypeOK
  <2>2. /\ line'[c] = Append(line[c], r)
        /\ line' \in [Caches -> Seq(Calls)]
        /\ \A d \in Caches \ {c} : line'[d] = line[d]
    BY <1>2, <1>7, <2>1 DEF TypeOK
  <2>3. TypeOK'
    BY <1>1, <1>2, <1>7, <2>2 DEF TypeOK, Phases
  <2>4. \A d \in Caches : \A q \in ToSet(line[d]) : q # r /\ pc'[q] = pc[q]
    BY <1>2, <1>7, <1>3 DEF TypeOK
  <2>5. \A q \in Calls : pc'[q] \in Inside => pc[q] \in Inside
    BY <1>2, <1>7 DEF TypeOK, Inside
  <2>6. SingleFlight'
    BY <1>2, <2>5 DEF GateKept, SingleFlight
  <2>7. \A q \in Calls : pc'[q] \in Inside => gate'[CacheOf[q]] = 0
    BY <1>2, <1>7, <2>5 DEF GateKept
  <2>8. InLine(c)'
    <3>1. /\ Len(line'[c]) = Len(line[c]) + 1 /\ Len(line[c]) \in Nat
          /\ \A i \in 1..Len(line[c]) : line'[c][i] = line[c][i] /\ line[c][i] \in ToSet(line[c])
          /\ line'[c][Len(line[c]) + 1] = r
      BY <2>1, <2>2 DEF ToSet
    <3>2. ToSet(line'[c]) \subseteq ToSet(line[c]) \cup {r}
      <4> SUFFICES ASSUME NEW i \in 1..Len(line'[c])
                   PROVE  line'[c][i] \in ToSet(line[c]) \cup {r}
        BY <1>2, <2>2 DEF ToSet
      <4>1. i \in 1..Len(line[c]) \/ i = Len(line[c]) + 1
        BY <3>1
      <4>2. QED
        BY <3>1, <4>1
    <3>3. \A i, j \in 1..Len(line'[c]) : line'[c][i] = line'[c][j] => i = j
      <4> SUFFICES ASSUME NEW i \in 1..Len(line'[c]), NEW j \in 1..Len(line'[c]),
                          line'[c][i] = line'[c][j]
                   PROVE  i = j
        OBVIOUS
      <4>1. i \in 1..Len(line[c]) \/ i = Len(line[c]) + 1
        BY <3>1
      <4>2. j \in 1..Len(line[c]) \/ j = Len(line[c]) + 1
        BY <3>1
      <4>3. \A k \in 1..Len(line[c]) : line'[c][k] # r
        BY <1>2, <2>4, <3>1
      <4>4. CASE i \in 1..Len(line[c]) /\ j \in 1..Len(line[c])
        BY <2>1, <3>1, <4>4 DEF InLine
      <4>5. QED
        BY <3>1, <4>1, <4>2, <4>3, <4>4
    <3>4. pc'[r] = "parked"
      BY <1>2, <1>7 DEF TypeOK
    <3>5. \A q \in ToSet(line'[c]) : pc'[q] = "parked" /\ CacheOf[q] = c
      BY <1>2, <2>1, <2>4, <3>2, <3>4 DEF InLine
    <3>6. QED
      BY <3>3, <3>5 DEF InLine
  <2>9. ASSUME NEW d \in Caches \ {c} PROVE InLine(d)'
    <3>1. InLine(d) /\ line'[d] = line[d]
      BY <1>2, <2>2 DEF GateKept
    <3>2. \A q \in ToSet(line[d]) : pc'[q] = "parked" /\ CacheOf[q] = d
      BY <2>4, <3>1 DEF InLine
    <3>3. QED
      BY <3>1, <3>2 DEF InLine
  <2>10. QED
    BY <1>5, <1>7, <2>3, <2>6, <2>7, <2>8, <2>9 DEF GateKept
<1>8. QED
  BY <1>4, <1>6, <1>7 DEF Enqueue

LEMMA GiveUpInv == ASSUME IInv, NEW r \in Calls, GiveUp(r) PROVE IInv'
<1> DEFINE c == CacheOf[r]
<1>1. /\ pc[r] = "parked" /\ cancelled[r]
      /\ pc' = [pc EXCEPT ![r] = "done"]
      /\ outcome' = [outcome EXCEPT ![r] = "cancelled"]
      /\ UNCHANGED <<now, cancelled, start, got, cell, expires, gate>>
  BY DEF GiveUp
<1>2. PICK i \in 1..Len(line[c]) :
        line[c][i] = r /\ line' = [line EXCEPT ![c] = RemoveAt(line[c], i)]
  BY DEF GiveUp
<1>3. /\ TypeOK /\ Knows(r) /\ Accounted(r) /\ c \in Caches /\ GateKept
      /\ CacheOf \in [Calls -> Caches] /\ line[c] \in Seq(Calls) /\ InLine(c)
  BY CacheAssumption DEF IInv, TypeOK, GateKept
<1>4. /\ RemoveAt(line[c], i) \in Seq(Calls)
      /\ \A j, k \in 1..Len(RemoveAt(line[c], i)) :
           RemoveAt(line[c], i)[j] = RemoveAt(line[c], i)[k] => j = k
      /\ ToSet(RemoveAt(line[c], i)) = ToSet(line[c]) \ {r}
  BY <1>2, <1>3, Unlink DEF InLine
<1>5. /\ line'[c] = RemoveAt(line[c], i)
      /\ line' \in [Caches -> Seq(Calls)]
      /\ \A d \in Caches \ {c} : line'[d] = line[d]
  BY <1>2, <1>3, <1>4 DEF TypeOK
<1>6. pc'[r] = "done" /\ \A q \in Calls \ {r} : pc'[q] = pc[q]
  BY <1>1, <1>3 DEF TypeOK
<1>7. TypeOK'
  BY <1>1, <1>3, <1>5 DEF TypeOK, Phases
<1>8. SingleFlight' /\ \A q \in Calls : pc'[q] \in Inside => gate'[CacheOf[q]] = 0
  <2>1. \A q \in Calls : pc'[q] \in Inside => pc[q] \in Inside
    BY <1>6 DEF Inside
  <2>2. QED
    BY <1>1, <1>3, <2>1 DEF GateKept, SingleFlight
<1>9. ASSUME NEW d \in Caches PROVE InLine(d)'
  <2>1. ToSet(line'[d]) \subseteq ToSet(line[d]) \ {r}
    <3>1. CASE d = c
      BY <1>4, <1>5, <3>1
    <3>2. CASE d # c
      <4>1. \A q \in ToSet(line[d]) : CacheOf[q] = d
        BY <1>3 DEF GateKept, InLine
      <4>2. QED
        BY <1>5, <3>2, <4>1
    <3>3. QED
      BY <3>1, <3>2
  <2>2. \A q \in ToSet(line[d]) : q \in Calls /\ pc[q] = "parked" /\ CacheOf[q] = d
    <3>1. InLine(d) /\ line[d] \in Seq(Calls)
      BY <1>3 DEF GateKept, TypeOK
    <3>2. QED
      BY <3>1 DEF InLine, ToSet
  <2>3. \A q \in ToSet(line'[d]) : pc'[q] = "parked" /\ CacheOf[q] = d
    BY <1>6, <2>1, <2>2
  <2>4. \A j, k \in 1..Len(line'[d]) : line'[d][j] = line'[d][k] => j = k
    <3>1. CASE d = c
      BY <1>4, <1>5, <3>1
    <3>2. CASE d # c
      <4>1. InLine(d) /\ line'[d] = line[d]
        BY <1>3, <1>5, <3>2 DEF GateKept
      <4>2. QED
        BY <4>1 DEF InLine
    <3>3. QED
      BY <3>1, <3>2
  <2>5. QED
    BY <2>3, <2>4 DEF InLine
<1>10. \A d \in Caches : Written(d)'
  BY <1>1, <1>6, WrittenKept DEF IInv
<1>11. \A q \in Calls : Knows(q)'
  BY <1>1, <1>6, KnowsStill DEF IInv
<1>12. ASSUME NEW q \in Calls PROVE Accounted(q)'
  <2>1. CASE q = r
    BY <1>1, <1>3, <1>6, <2>1 DEF Accounted, TypeOK
  <2>2. CASE q # r
    BY <1>1, <1>3, <1>6, <2>2, AccountedStill DEF IInv, TypeOK
  <2>3. QED
    BY <2>1, <2>2
<1>13. QED
  BY <1>7, <1>8, <1>9, <1>10, <1>11, <1>12 DEF IInv, GateKept

\* A call that ends with the gate and leaves the value alone: Found and the two
\* ways a factory fails.
LEMMA EndInv ==
  ASSUME IInv, NEW r \in Calls, Leave(r), pc[r] \in {"holding", "filling"},
         UNCHANGED <<now, cancelled, start, cell, expires>>,
         NEW o \in {"value", "failed", "cancelled"}, NEW g \in Cells,
         got' = [got EXCEPT ![r] = g], outcome' = [outcome EXCEPT ![r] = o],
         o = "value" => g # Empty /\ start[r] < g.at + Life(g.val),
         o = "cancelled" => cancelled[r]
  PROVE  IInv'
<1>1. TypeOK /\ GateKept /\ pc[r] \in Inside
  BY DEF IInv, Inside
<1>2. /\ GateKept'
      /\ pc' \in [Calls -> Phases]
      /\ gate' \in [Caches -> 0..1]
      /\ line' \in [Caches -> Seq(Calls)]
      /\ pc'[r] = "done"
      /\ \A q \in Calls \ {r} :
           pc'[q] = pc[q] \/ (pc[q] = "parked" /\ pc'[q] = "holding")
  BY <1>1, GateLeft
<1>3. TypeOK'
  BY <1>1, <1>2 DEF TypeOK
<1>4. \A c \in Caches : Written(c)'
  <2>1. \A q \in Calls : pc[q] = "storing" => pc'[q] = "storing"
    BY <1>2
  <2>2. QED
    BY <2>1, WrittenKept DEF IInv
<1>5. \A q \in Calls : Knows(q)'
  BY <1>2, KnowsStill DEF IInv
<1>6. ASSUME NEW q \in Calls PROVE Accounted(q)'
  <2>1. CASE q = r
    BY <1>1, <1>2, <2>1 DEF Accounted, TypeOK
  <2>2. CASE q # r
    BY <1>1, <1>2, <2>2, AccountedStill DEF IInv, TypeOK
  <2>3. QED
    BY <2>1, <2>2
<1>7. QED
  BY <1>2, <1>3, <1>4, <1>5, <1>6 DEF IInv

LEMMA FoundInv == ASSUME IInv, NEW r \in Calls, Found(r) PROVE IInv'
<1> DEFINE c == CacheOf[r]
<1>1. /\ pc[r] = "holding" /\ cell[c] # Empty /\ now < expires[c] /\ Leave(r)
      /\ got' = [got EXCEPT ![r] = cell[c]]
      /\ outcome' = [outcome EXCEPT ![r] = "value"]
      /\ UNCHANGED <<now, cancelled, start, cell, expires>>
  BY DEF Found, Fresh
<1>2. TypeOK /\ Knows(r) /\ c \in Caches /\ Written(c)
  BY CacheAssumption DEF IInv
<1>3. /\ cell[c] \in Cells /\ cell[c].at \in Nat /\ Life(cell[c].val) \in Nat
      /\ now \in Nat /\ start[r] \in Nat /\ expires[c] \in Nat
  BY <1>1, <1>2, CacheAssumption DEF TypeOK, Cells
<1>4. start[r] < cell[c].at + Life(cell[c].val)
  BY <1>1, <1>2, <1>3, CacheAssumption DEF Knows, Written
<1>5. QED
  BY <1>1, <1>3, <1>4, EndInv

LEMMA FillThrowsInv == ASSUME IInv, NEW r \in Calls, FillThrows(r) PROVE IInv'
<1>1. got[r] \in Cells /\ got' = [got EXCEPT ![r] = got[r]]
  BY DEF FillThrows, IInv, TypeOK
<1>2. QED
  BY <1>1, EndInv DEF FillThrows

LEMMA FillCancelledInv == ASSUME IInv, NEW r \in Calls, FillCancelled(r) PROVE IInv'
<1>1. got[r] \in Cells /\ got' = [got EXCEPT ![r] = got[r]]
  BY DEF FillCancelled, IInv, TypeOK
<1>2. QED
  BY <1>1, EndInv DEF FillCancelled

LEMMA FillReturnsInv ==
  ASSUME IInv, NEW r \in Calls, NEW v \in Values, FillReturns(r, v)
  PROVE  IInv'
<1> DEFINE c == CacheOf[r]
           new == [val |-> v, at |-> now]
<1>1. /\ pc[r] = "filling"
      /\ pc' = [pc EXCEPT ![r] = "storing"]
      /\ cell' = [cell EXCEPT ![c] = new]
      /\ UNCHANGED <<now, cancelled, start, got, outcome, expires, gate, line>>
  BY DEF FillReturns
<1>2. /\ TypeOK /\ GateKept /\ c \in Caches /\ Written(c)
      /\ CacheOf \in [Calls -> Caches] /\ now \in Nat
  BY CacheAssumption DEF IInv, TypeOK
<1>3. new \in Cells /\ new.at = now /\ new.val \in Values /\ new # Empty
  BY <1>2, CacheAssumption DEF Cells
<1> HIDE DEF new
<1>4. /\ cell'[c] = new /\ cell' \in [Caches -> Cells]
      /\ \A d \in Caches \ {c} : cell'[d] = cell[d]
  BY <1>1, <1>2, <1>3 DEF TypeOK
<1>5. pc'[r] = "storing" /\ \A q \in Calls \ {r} : pc'[q] = pc[q]
  BY <1>1, <1>2 DEF TypeOK
<1>6. \A q \in Calls \ {r} : CacheOf[q] = c => pc[q] \notin Inside
  BY <1>1, <1>2 DEF GateKept, SingleFlight, Inside
<1>7. TypeOK'
  BY <1>1, <1>2, <1>4 DEF TypeOK, Phases, Inside
<1>8. GateKept'
  BY <1>1, <1>2, GateUntouched DEF Inside
<1>9. ASSUME NEW d \in Caches PROVE Written(d)'
  <2>1. CASE d = c
    <3>1. expires[c] \in Nat /\ expires[c] <= now /\ Life(new.val) \in Nat
      <4>1. expires[c] \in Nat
        BY <1>2 DEF TypeOK
      <4>2. cell[c] # Empty => cell[c].at \in Nat /\ Life(cell[c].val) \in Nat
        BY <1>2, CacheAssumption DEF TypeOK, Cells
      <4>3. Stale(c)
        BY <1>1 DEF IInv, Knows
      <4>4. QED
        BY <1>2, <1>3, <4>1, <4>2, <4>3, CacheAssumption DEF Written, Stale
    <3>2. QED
      BY <1>1, <1>2, <1>3, <1>4, <1>5, <2>1, <3>1 DEF Written
  <2>2. CASE d # c
    <3>1. Written(d) /\ cell'[d] = cell[d] /\ expires'[d] = expires[d] /\ now' = now
      BY <1>1, <1>4, <2>2 DEF IInv
    <3>2. \A q \in Calls : pc[q] = "storing" => pc'[q] = "storing"
      BY <1>1, <1>5
    <3>3. QED
      BY <3>1, <3>2 DEF Written
  <2>3. QED
    BY <2>1, <2>2
<1>10. ASSUME NEW q \in Calls PROVE Knows(q)'
  <2>1. Knows(q) /\ start[q] \in Nat /\ CacheOf[q] \in Caches
    BY <1>2 DEF IInv, TypeOK
  <2>2. CASE q = r
    BY <1>1, <1>3, <1>4, <1>5, <2>1, <2>2 DEF Knows
  <2>3. CASE q # r /\ CacheOf[q] = c
    BY <1>1, <1>2, <1>3, <1>4, <1>5, <1>6, <2>1, <2>3, CacheAssumption DEF Knows, Inside
  <2>4. CASE CacheOf[q] # c
    BY <1>1, <1>4, <1>5, <2>1, <2>4 DEF Knows, Stale
  <2>5. QED
    BY <2>2, <2>3, <2>4
<1>11. \A q \in Calls : Accounted(q)'
  BY <1>1, <1>5, AccountedStill DEF IInv
<1>12. QED
  BY <1>7, <1>8, <1>9, <1>10, <1>11 DEF IInv

LEMMA StoreInv == ASSUME IInv, NEW r \in Calls, Store(r) PROVE IInv'
<1> DEFINE c == CacheOf[r]
<1>1. /\ pc[r] = "storing" /\ Leave(r)
      /\ expires' = [expires EXCEPT ![c] = now + Life(cell[c].val)]
      /\ got' = [got EXCEPT ![r] = cell[c]]
      /\ outcome' = [outcome EXCEPT ![r] = "value"]
      /\ UNCHANGED <<now, cancelled, start, cell>>
  BY DEF Store
<1>2. /\ TypeOK /\ GateKept /\ c \in Caches /\ Knows(r)
      /\ now \in Nat /\ start[r] \in Nat
  BY CacheAssumption DEF IInv, TypeOK
<1>3. /\ GateKept'
      /\ pc' \in [Calls -> Phases]
      /\ gate' \in [Caches -> 0..1]
      /\ line' \in [Caches -> Seq(Calls)]
      /\ pc'[r] = "done"
      /\ \A q \in Calls \ {r} :
           pc'[q] = pc[q] \/ (pc[q] = "parked" /\ pc'[q] = "holding")
  BY <1>1, <1>2, GateLeft DEF Inside
<1>4. /\ cell[c] # Empty /\ cell[c].at = now /\ cell[c] \in Cells
      /\ Life(cell[c].val) \in Nat \ {0}
  BY <1>1, <1>2, CacheAssumption DEF Knows, TypeOK, Cells
<1>5. /\ expires'[c] = now + Life(cell[c].val) /\ expires' \in [Caches -> Nat]
      /\ \A d \in Caches \ {c} : expires'[d] = expires[d]
  BY <1>1, <1>2, <1>4 DEF TypeOK
<1>6. TypeOK'
  BY <1>1, <1>2, <1>3, <1>4, <1>5 DEF TypeOK
<1>7. ASSUME NEW d \in Caches PROVE Written(d)'
  <2>1. CASE d = c
    BY <1>1, <1>2, <1>4, <1>5, <2>1 DEF Written
  <2>2. CASE d # c
    <3>1. Written(d) /\ cell'[d] = cell[d] /\ expires'[d] = expires[d] /\ now' = now
      BY <1>1, <1>5, <2>2 DEF IInv
    <3>2. \A q \in Calls : pc[q] = "storing" /\ CacheOf[q] = d => pc'[q] = "storing"
      BY <1>3, <2>2
    <3>3. QED
      BY <3>1, <3>2 DEF Written
  <2>3. QED
    BY <2>1, <2>2
<1>8. \A q \in Calls : Knows(q)'
  BY <1>1, <1>3, KnowsStill DEF IInv
<1>9. ASSUME NEW q \in Calls PROVE Accounted(q)'
  <2>1. CASE q = r
    <3>1. start[r] < cell[c].at + Life(cell[c].val)
      BY <1>2, <1>4 DEF Knows
    <3>2. got'[r] = cell[c] /\ outcome'[r] = "value"
      BY <1>1, <1>2 DEF TypeOK
    <3>3. QED
      BY <1>1, <1>3, <1>4, <2>1, <3>1, <3>2 DEF Accounted
  <2>2. CASE q # r
    BY <1>1, <1>2, <1>3, <2>2, AccountedStill DEF IInv, TypeOK
  <2>3. QED
    BY <2>1, <2>2
<1>10. QED
  BY <1>3, <1>6, <1>7, <1>8, <1>9 DEF IInv

------------------------------------------------------------------------------
(* The theorems                                                             *)

LEMMA NextIInv == IInv /\ [CacheNext]_cacheVars => IInv'
<1> SUFFICES ASSUME IInv, [CacheNext]_cacheVars PROVE IInv'
  OBVIOUS
<1>1. CASE Tick
  BY <1>1, TickInv
<1>2. ASSUME NEW r \in Calls, Cancel(r) PROVE IInv'
  BY <1>2, CancelInv
<1>3. ASSUME NEW r \in Calls, Step(r) PROVE IInv'
  BY <1>3, CallInv, CompareInv, HitInv, EnqueueInv, GiveUpInv, FoundInv, StoreInv DEF Step
<1>4. ASSUME NEW r \in Calls, Factory(r) PROVE IInv'
  BY <1>4, FillInv, FillReturnsInv, FillThrowsInv, FillCancelledInv DEF Factory
<1>5. CASE UNCHANGED cacheVars
  <2>1. TypeOK' /\ GateKept'
    BY <1>5 DEF cacheVars, IInv, TypeOK, GateKept, SingleFlight, InLine
  <2>2. \A c \in Caches : Written(c)'
    BY <1>5 DEF cacheVars, IInv, Written
  <2>3. \A r \in Calls : Knows(r)' /\ Accounted(r)'
    BY <1>5 DEF cacheVars, IInv, Knows, Stale, Accounted
  <2>4. QED
    BY <2>1, <2>2, <2>3 DEF IInv
<1>6. QED
  BY <1>1, <1>2, <1>3, <1>4, <1>5 DEF CacheNext

LEMMA Inductive == CacheSpec => []IInv
BY InitIInv, NextIInv, PTL DEF CacheSpec

\* The semaphore's count stays zero or one: the gate is released once for every
\* time it was taken, whoever is cancelled while waiting for it.
THEOREM TypeCorrectness == CacheSpec => []TypeOK
<1>1. IInv => TypeOK
  BY DEF IInv
<1>2. QED
  BY <1>1, Inductive, PTL

\* One factory at a time runs for each cache.
THEOREM OneFillAtATime == CacheSpec => []SingleFlight
<1>1. IInv => SingleFlight
  BY DEF IInv, GateKept
<1>2. QED
  BY <1>1, Inductive, PTL

\* No value is returned that had expired when the call came, although the fast
\* path reads the fields while they are written.
THEOREM FreshnessOfAnswers == CacheSpec => []ServedFresh
<1>1. IInv => ServedFresh
  BY DEF IInv, Accounted, ServedFresh
<1>2. QED
  BY <1>1, Inductive, PTL

\* A call is cancelled only by its own token.
THEOREM OwnCancellation == CacheSpec => []NoInheritedCancel
<1>1. IInv => NoInheritedCancel
  BY DEF IInv, Accounted, NoInheritedCancel
<1>2. QED
  BY <1>1, Inductive, PTL

\* The upstream is not asked again before the time of its last answer is over.
THEOREM Frugality == CacheSpec => UpstreamSpared
<1> DEFINE Spared == \A c \in Caches :
             cell'[c] # cell[c] /\ cell[c] # Empty => now >= cell[c].at + Life(cell[c].val)
<1>1. IInv /\ [CacheNext]_cacheVars => [Spared]_cacheVars
  <2> SUFFICES ASSUME IInv, CacheNext PROVE Spared
    OBVIOUS
  <2>1. CASE cell' = cell
    BY <2>1
  <2>2. ASSUME NEW r \in Calls, NEW v \in Values, FillReturns(r, v) PROVE Spared
    <3>1. Stale(CacheOf[r]) /\ CacheOf[r] \in Caches /\ cell \in [Caches -> Cells]
      BY <2>2, CacheAssumption DEF FillReturns, IInv, Knows, TypeOK
    <3>2. \A c \in Caches \ {CacheOf[r]} : cell'[c] = cell[c]
      BY <2>2, <3>1 DEF FillReturns
    <3>3. QED
      BY <3>1, <3>2 DEF Stale
  <2>3. QED
    BY <2>1, <2>2 DEF CacheNext, Step, Factory, Tick, Cancel, Call, Compare, Hit, Enqueue,
                      GiveUp, Found, Store, Fill, FillThrows, FillCancelled
<1>2. QED
  BY <1>1, Inductive, PTL DEF CacheSpec, UpstreamSpared
===============================================================================
