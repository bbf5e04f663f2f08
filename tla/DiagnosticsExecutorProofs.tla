---------------------- MODULE DiagnosticsExecutorProofs ----------------------
(***************************************************************************)
(* Proofs about DiagnosticsExecutor for every finite set of requests and   *)
(* every MaxConcurrent and MaxQueued the options allow.                    *)
(***************************************************************************)
EXTENDS DiagnosticsExecutor, ProofLemmas

LEMMA FiniteRequests == IsFiniteSet(Requests)
BY ExecutorAssumption DEF ExecutorAssumption

\* The ledgers are written by appending one reason.
LEMMA Reasons ==
  ASSUME NEW log \in Seq(Codes), NEW x \in Codes
  PROVE  /\ Append(log, x) \in Seq(Codes)
         /\ log = <<>> => Append(log, x) = <<x>>
<1>1. Append(log, x) \in Seq(Codes)
  BY AppendProperties
<1>2. Append(<<>>, x) = <<x>>
  OBVIOUS
<1>3. QED
  BY <1>1, <1>2

(***************************************************************************)
(* The inductive invariant                                                 *)
(***************************************************************************)

\* The safety properties do not stand alone: that slots stay within their range
\* needs SlotsConserved, that the counters do not go negative needs
\* CountersExact, and the bound on the line needs to know which requests
\* _waiting counts.
IInv ==
  /\ TypeOK
  /\ SlotsConserved
  /\ CountersExact
  /\ LineExact
  /\ AdmittedBounded
  /\ NoIdleSlot
  /\ LedgerExact
  /\ OutcomeHonest

\* The part of it about how many requests are where.
Accounts == SlotsConserved /\ CountersExact /\ AdmittedBounded

LEMMA InitIInv == Init => IInv
<1> SUFFICES ASSUME Init PROVE IInv
  OBVIOUS
<1> USE DEF Init
<1>1. TypeOK
  BY ExecutorAssumption DEF TypeOK, ExecutorAssumption, Phases, Idle, Endings
<1>2. ASSUME NEW S, "idle" \notin S
      PROVE  At(S) = {} /\ Cardinality(At(S)) = 0
  BY <1>2, FS_EmptySet DEF At
<1>3. Accounts
  BY <1>2, ExecutorAssumption
     DEF Accounts, SlotsConserved, CountersExact, AdmittedBounded, Holding,
         Counted, Busy, Admitted, ExecutorAssumption
<1>4. LineExact /\ NoIdleSlot
  BY <1>2 DEF LineExact, NoIdleSlot, ToSet
<1>5. LedgerExact /\ OutcomeHonest
  BY ExecutorAssumption
     DEF LedgerExact, LedgerOf, OutcomeHonest, ExecutorAssumption, Exceptions, Endings
<1>6. QED
  BY <1>1, <1>3, <1>4, <1>5 DEF IInv, Accounts

\* Which phases hold a slot, are counted in _waiting, are counted in the gauge,
\* and were let through the counter.
LEMMA PhaseTable ==
  /\ \A p \in {"granted", "acquired", "running", "unwinding", "releasing"} : p \in Holding
  /\ \A p \in {"idle", "probing", "counting", "refused", "queueing",
          "parked", "timedout", "aborted", "ended"} :
       p \notin Holding
  /\ \A p \in {"refused", "queueing", "parked", "granted", "timedout",
          "aborted"} : p \in Counted
  /\ \A p \in {"idle", "probing", "counting", "acquired", "running",
          "unwinding", "releasing", "ended"} :
       p \notin Counted
  /\ \A p \in {"running", "unwinding", "releasing"} : p \in Busy
  /\ \A p \in {"idle", "probing", "counting", "refused", "queueing",
          "parked", "granted", "timedout", "aborted",
          "acquired", "ended"} :
       p \notin Busy
  /\ \A p \in {"queueing", "parked", "granted", "timedout", "aborted"} : p \in Admitted
  /\ \A p \in {"idle", "probing", "counting", "refused", "acquired",
          "running", "unwinding", "releasing", "ended"} :
       p \notin Admitted
BY DEF Holding, Counted, Busy, Admitted

\* What one request changing its phase does to the four head counts.
LEMMA MoveCounts ==
  ASSUME TypeOK, NEW r \in Requests, NEW p, pc' = [pc EXCEPT ![r] = p]
  PROVE  /\ Shift(Cardinality(At(Holding))', Cardinality(At(Holding)), Holding, pc[r], p)
         /\ Shift(Cardinality(At(Counted))', Cardinality(At(Counted)), Counted, pc[r], p)
         /\ Shift(Cardinality(At(Busy))', Cardinality(At(Busy)), Busy, pc[r], p)
         /\ Shift(Cardinality(At(Admitted))', Cardinality(At(Admitted)), Admitted, pc[r], p)
<1>1. pc \in [Requests -> Phases]
  BY DEF TypeOK
<1>2. ASSUME NEW S
      PROVE  Shift(Cardinality(InPhase(Requests, pc', S)), Cardinality(InPhase(Requests, pc, S)), S, pc[r], p)
  BY <1>1, Move, FiniteRequests
<1>3. QED
  BY <1>2 DEF At, InPhase

\* The head counts are natural numbers, and those between Increment and
\* Decrement are at least those that were let through.
LEMMA Sizes ==
  /\ \A S : IsFiniteSet(At(S)) /\ Cardinality(At(S)) \in Nat
  /\ \A S : IsFiniteSet(At(S)') /\ Cardinality(At(S))' \in Nat
  /\ Cardinality(At(Admitted)) <= Cardinality(At(Counted))
<1>1. \A S : IsFiniteSet(At(S)) /\ Cardinality(At(S)) \in Nat
  BY PhaseSizes, FiniteRequests DEF At, InPhase
<1>2. \A S : IsFiniteSet(At(S)') /\ Cardinality(At(S))' \in Nat
  BY PhaseSizes, FiniteRequests DEF At, InPhase
<1>3. Cardinality(At(Admitted)) <= Cardinality(At(Counted))
  <2>1. Admitted \in SUBSET Counted
    BY DEF Admitted
  <2>2. Cardinality(InPhase(Requests, pc, Admitted)) <= Cardinality(InPhase(Requests, pc, Counted))
    BY <2>1, PhaseMonotone, FiniteRequests
  <2>3. QED
    BY <2>2 DEF At, InPhase
<1>4. QED
  BY <1>1, <1>2, <1>3

(***************************************************************************)
(* Every action preserves it                                               *)
(***************************************************************************)

\* A step that moves one request, not into or out of the line, and leaves the
\* line alone.
LEMMA LineKept ==
  ASSUME TypeOK, LineExact, UNCHANGED queue, NEW r \in Requests, NEW p,
         pc' = [pc EXCEPT ![r] = p], pc[r] # "parked", p # "parked"
  PROVE  LineExact'
<1>1. At({"parked"})' = At({"parked"})
  BY DEF At, TypeOK
<1>2. QED
  BY <1>1 DEF LineExact

LEMMA ArriveInv ==
  ASSUME IInv, NEW r \in Requests, Arrive(r)
  PROVE  IInv'
<1> USE DEF Arrive, IInv
<1>1. TypeOK'
  BY DEF TypeOK, Phases
<1>2. Accounts'
  BY MoveCounts, Sizes, PhaseTable
     DEF Accounts, SlotsConserved, CountersExact, AdmittedBounded, Shift
<1>3. LineExact' /\ NoIdleSlot'
  BY LineKept DEF NoIdleSlot
<1>4. LedgerExact'
  BY DEF LedgerExact, LedgerOf, TypeOK
<1>5. OutcomeHonest'
  BY DEF OutcomeHonest, TypeOK
<1>6. QED
  BY <1>1, <1>2, <1>3, <1>4, <1>5 DEF Accounts

LEMMA CancelInv ==
  ASSUME IInv, NEW r \in Requests, Cancel(r)
  PROVE  IInv'
<1> USE DEF Cancel, IInv
<1>1. TypeOK'
  BY DEF TypeOK
<1>2. At(Holding)' = At(Holding) /\ At(Counted)' = At(Counted)
      /\ At(Busy)' = At(Busy) /\ At(Admitted)' = At(Admitted)
      /\ At({"parked"})' = At({"parked"})
  BY DEF At
<1>3. Accounts'
  BY <1>2 DEF Accounts, SlotsConserved, CountersExact, AdmittedBounded
<1>4. LineExact' /\ NoIdleSlot'
  BY <1>2 DEF LineExact, NoIdleSlot
<1>5. LedgerExact'
  BY DEF LedgerExact, LedgerOf
<1>6. OutcomeHonest'
  BY DEF OutcomeHonest, TypeOK
<1>7. QED
  BY <1>1, <1>3, <1>4, <1>5, <1>6 DEF Accounts

LEMMA ProbeInv ==
  ASSUME IInv, NEW r \in Requests, Probe(r)
  PROVE  IInv'
<1> USE DEF Probe, ProbeOr, IInv
<1>1. slots \in Nat /\ MaxConcurrent \in Nat
  BY ExecutorAssumption DEF TypeOK, ExecutorAssumption
<1>2. Accounts'
  <2> USE DEF Accounts, SlotsConserved, CountersExact, AdmittedBounded, Shift
  <2>1. CASE pc' = [pc EXCEPT ![r] = "ended"] /\ UNCHANGED slots
    BY <2>1, MoveCounts, Sizes, PhaseTable
  <2>2. CASE slots > 0 /\ slots' = slots - 1 /\ pc' = [pc EXCEPT ![r] = "acquired"]
    <3>1. /\ Cardinality(At(Holding))' = Cardinality(At(Holding)) + 1
          /\ Cardinality(At(Counted))' = Cardinality(At(Counted))
          /\ Cardinality(At(Busy))' = Cardinality(At(Busy))
          /\ Cardinality(At(Admitted))' = Cardinality(At(Admitted))
      BY <2>2, MoveCounts, PhaseTable
    <3>2. QED
      BY <1>1, <2>2, <3>1, Sizes
  <2>3. CASE pc' = [pc EXCEPT ![r] = "counting"] /\ UNCHANGED slots
    BY <2>3, MoveCounts, Sizes, PhaseTable
  <2>4. QED
    BY <2>1, <2>2, <2>3
<1>3. LineExact'
  BY LineKept
<1>4. NoIdleSlot'
  BY <1>1 DEF NoIdleSlot
<1>5. TypeOK'
  <2>1. slots' \in 0..MaxConcurrent
    BY <1>1 DEF TypeOK
  <2>2. QED
    BY <2>1 DEF TypeOK, Phases, Idle, Holding, Counted, Endings
<1>6. LedgerExact'
  BY ZenonT(60), ExecutorAssumption
     DEF LedgerExact, LedgerOf, TypeOK, ExecutorAssumption, Exceptions, Endings
<1>7. OutcomeHonest'
  BY DEF OutcomeHonest, TypeOK
<1>8. QED
  BY <1>2, <1>3, <1>4, <1>5, <1>6, <1>7 DEF Accounts

LEMMA CountInv ==
  ASSUME IInv, NEW r \in Requests, Count(r)
  PROVE  IInv'
<1> USE DEF Count, IInv
<1>1. waiting \in Nat /\ MaxQueued \in Nat
  BY ExecutorAssumption DEF TypeOK, ExecutorAssumption
<1>2. Accounts'
  <2> USE DEF Accounts, SlotsConserved, CountersExact, AdmittedBounded, Shift
  <2>1. CASE waiting + 1 > MaxQueued /\ pc' = [pc EXCEPT ![r] = "refused"]
    <3>1. /\ Cardinality(At(Holding))' = Cardinality(At(Holding))
          /\ Cardinality(At(Counted))' = Cardinality(At(Counted)) + 1
          /\ Cardinality(At(Busy))' = Cardinality(At(Busy))
          /\ Cardinality(At(Admitted))' = Cardinality(At(Admitted))
      BY ZenonT(60), <2>1, MoveCounts, PhaseTable
    <3>2. QED
      BY <1>1, <3>1, Sizes
  <2>2. CASE waiting + 1 <= MaxQueued /\ pc' = [pc EXCEPT ![r] = "queueing"]
    <3>1. /\ Cardinality(At(Holding))' = Cardinality(At(Holding))
          /\ Cardinality(At(Counted))' = Cardinality(At(Counted)) + 1
          /\ Cardinality(At(Busy))' = Cardinality(At(Busy))
          /\ Cardinality(At(Admitted))' = Cardinality(At(Admitted)) + 1
      BY ZenonT(60), <1>1, <2>2, MoveCounts, PhaseTable
    <3>2. QED
      BY <1>1, <2>2, <3>1, Sizes
  <2>3. \/ waiting + 1 > MaxQueued /\ pc' = [pc EXCEPT ![r] = "refused"]
        \/ waiting + 1 <= MaxQueued /\ pc' = [pc EXCEPT ![r] = "queueing"]
    <3>1. waiting' = waiting + 1 /\ waiting' \in Nat
      BY <1>1
    <3>2. waiting' > MaxQueued => pc' = [pc EXCEPT ![r] = "refused"]
      OBVIOUS
    <3>3. ~(waiting' > MaxQueued) => pc' = [pc EXCEPT ![r] = "queueing"]
      OBVIOUS
    <3> HIDE DEF IInv, Count
    <3>4. QED
      BY <1>1, <3>1, <3>2, <3>3
  <2>4. QED
    BY <2>1, <2>2, <2>3
<1>3. LineExact'
  BY LineKept
<1>4. NoIdleSlot'
  BY DEF NoIdleSlot
<1>5. TypeOK'
  BY <1>1 DEF TypeOK, Phases, Counted
<1>6. LedgerExact' /\ OutcomeHonest'
  BY DEF LedgerExact, LedgerOf, OutcomeHonest, TypeOK
<1>7. QED
  BY <1>2, <1>3, <1>4, <1>5, <1>6 DEF Accounts

LEMMA RefuseInv ==
  ASSUME IInv, NEW r \in Requests, Refuse(r)
  PROVE  IInv'
<1> USE DEF Refuse, IInv
<1>1. /\ Cardinality(At(Holding))' = Cardinality(At(Holding))
      /\ Cardinality(At(Counted))' = Cardinality(At(Counted)) - 1
      /\ Cardinality(At(Busy))' = Cardinality(At(Busy))
      /\ Cardinality(At(Admitted))' = Cardinality(At(Admitted))
  BY MoveCounts, PhaseTable DEF Shift
<1>2. Accounts'
  BY <1>1, Sizes DEF Accounts, SlotsConserved, CountersExact, AdmittedBounded
<1>3. LineExact'
  BY LineKept
<1>4. NoIdleSlot'
  BY DEF NoIdleSlot
<1>5. TypeOK'
  <2>1. waiting' \in Nat
    BY <1>2, Sizes DEF Accounts, CountersExact
  <2>2. /\ failed \in [Requests -> Seq(Codes)]
        /\ rejected \in [Requests -> Seq(Codes)]
    BY DEF TypeOK
  <2>3. /\ failed' \in [Requests -> Seq(Codes)]
        /\ rejected' \in [Requests -> Seq(Codes)]
    <3>1. /\ Append(failed[r], "busy") \in Seq(Codes)
          /\ Append(rejected[r], "queue_full") \in Seq(Codes)
      <4>1. failed[r] \in Seq(Codes) /\ rejected[r] \in Seq(Codes)
        BY <2>2
      <4>2. "busy" \in Codes /\ "queue_full" \in Codes
        BY DEF Codes, Endings
      <4>3. QED
        BY <4>1, <4>2, Reasons
    <3>2. QED
      BY <2>2, <3>1
  <2>4. QED
    BY <2>1, <2>3 DEF TypeOK, Phases, Idle, Endings
<1>6. LedgerExact'
  <2>1. failed[r] = <<>> /\ rejected[r] = <<>>
    BY DEF LedgerExact, LedgerOf, TypeOK
  <2>2. failed'[r] = <<"busy">> /\ rejected'[r] = <<"queue_full">>
    BY <2>1, Reasons DEF TypeOK
  <2>3. QED
    BY <2>2, ExecutorAssumption
       DEF LedgerExact, LedgerOf, TypeOK, ExecutorAssumption, Exceptions, Endings
<1>7. OutcomeHonest'
  BY DEF OutcomeHonest, TypeOK
<1>8. QED
  BY <1>2, <1>3, <1>4, <1>5, <1>6, <1>7 DEF Accounts

LEMMA EnqueueInv ==
  ASSUME IInv, NEW r \in Requests, Enqueue(r)
  PROVE  IInv'
<1> USE DEF Enqueue, IInv
<1>1. slots \in Nat /\ MaxConcurrent \in Nat /\ queue \in Seq(Requests)
  BY ExecutorAssumption DEF TypeOK, ExecutorAssumption
<1>2. Accounts'
  <2> USE DEF Accounts, SlotsConserved, CountersExact, AdmittedBounded
  <2>1. CASE /\ UNCHANGED slots
             /\ \E p \in {"aborted", "parked"} : pc' = [pc EXCEPT ![r] = p]
    <3>1. /\ Cardinality(At(Holding))' = Cardinality(At(Holding))
          /\ Cardinality(At(Counted))' = Cardinality(At(Counted))
          /\ Cardinality(At(Busy))' = Cardinality(At(Busy))
          /\ Cardinality(At(Admitted))' = Cardinality(At(Admitted))
      BY ZenonT(60), <2>1, MoveCounts, PhaseTable DEF Shift
    <3>2. QED
      BY <2>1, <3>1
  <2>2. CASE slots > 0 /\ slots' = slots - 1 /\ pc' = [pc EXCEPT ![r] = "granted"]
    <3>1. /\ Cardinality(At(Holding))' = Cardinality(At(Holding)) + 1
          /\ Cardinality(At(Counted))' = Cardinality(At(Counted))
          /\ Cardinality(At(Busy))' = Cardinality(At(Busy))
          /\ Cardinality(At(Admitted))' = Cardinality(At(Admitted))
      BY <2>2, MoveCounts, PhaseTable DEF Shift
    <3>2. QED
      BY <1>1, <2>2, <3>1, Sizes
  <2>3. QED
    BY <2>1, <2>2
<1>3. LineExact'
  <2>1. CASE /\ UNCHANGED queue
             /\ \E p \in {"aborted", "granted"} : pc' = [pc EXCEPT ![r] = p]
    BY <2>1, LineKept
  <2>2. CASE queue' = Append(queue, r) /\ pc' = [pc EXCEPT ![r] = "parked"]
    <3>1. At({"parked"})' = At({"parked"}) \cup {r}
      BY <2>2 DEF At, TypeOK
    <3>2. r \notin ToSet(queue)
      BY DEF LineExact, At
    <3>3. \A i, j \in 1..Len(queue') : queue'[i] = queue'[j] => i = j
      BY <1>1, <2>2, <3>2 DEF LineExact, ToSet
    <3>4. ToSet(queue') = ToSet(queue) \cup {r}
      BY <1>1, <2>2 DEF ToSet
    <3>5. QED
      BY <3>1, <3>3, <3>4 DEF LineExact
  <2>3. QED
    BY <2>1, <2>2
<1>4. NoIdleSlot'
  BY <1>1 DEF NoIdleSlot
<1>5. TypeOK'
  <2>1. slots' \in 0..MaxConcurrent
    BY <1>1 DEF TypeOK
  <2>2. queue' \in Seq(Requests)
    BY <1>1
  <2>3. QED
    BY <2>1, <2>2 DEF TypeOK, Phases, Holding, Counted
<1>6. LedgerExact' /\ OutcomeHonest'
  BY ZenonT(60) DEF LedgerExact, LedgerOf, OutcomeHonest, TypeOK
<1>7. QED
  BY <1>2, <1>3, <1>4, <1>5, <1>6 DEF Accounts

LEMMA GiveUpInv ==
  ASSUME IInv, NEW r \in Requests, GiveUp(r)
  PROVE  IInv'
<1> USE DEF IInv
<1>1. queue \in Seq(Requests)
  BY DEF TypeOK
<1>2. PICK i \in 1..Len(queue) : queue[i] = r /\ queue' = RemoveAt(queue, i)
  BY DEF GiveUp
<1>3. /\ pc[r] = "parked"
      /\ \E p \in {"aborted", "timedout"} : pc' = [pc EXCEPT ![r] = p]
      /\ UNCHANGED <<cancelled, expired, slots, waiting, active, raised,
                     outcome, failed, rejected>>
  BY DEF GiveUp
<1>4. /\ Cardinality(At(Holding))' = Cardinality(At(Holding))
      /\ Cardinality(At(Counted))' = Cardinality(At(Counted))
      /\ Cardinality(At(Busy))' = Cardinality(At(Busy))
      /\ Cardinality(At(Admitted))' = Cardinality(At(Admitted))
  BY <1>3, MoveCounts, PhaseTable DEF Shift
<1>5. Accounts'
  BY <1>3, <1>4 DEF Accounts, SlotsConserved, CountersExact, AdmittedBounded
<1>6. /\ queue' \in Seq(Requests)
      /\ \A j, k \in 1..Len(queue') : queue'[j] = queue'[k] => j = k
      /\ ToSet(queue') = ToSet(queue) \ {r}
  BY <1>1, <1>2, Unlink DEF LineExact
<1>7. LineExact'
  <2>1. At({"parked"})' = At({"parked"}) \ {r}
    BY <1>3 DEF At, TypeOK
  <2>2. QED
    BY <1>6, <2>1 DEF LineExact
<1>8. NoIdleSlot'
  BY <1>1, <1>2, <1>3 DEF NoIdleSlot
<1>9. TypeOK'
  BY <1>3, <1>6 DEF TypeOK, Phases, Counted
<1>10. LedgerExact'
  BY <1>3 DEF LedgerExact, LedgerOf, TypeOK
<1>11. OutcomeHonest'
  BY DEF GiveUp, OutcomeHonest, TypeOK
<1>12. QED
  BY <1>5, <1>7, <1>8, <1>9, <1>10, <1>11 DEF Accounts

\* The end of the second WaitAsync has three branches; each is its own lemma.
LEMMA LeaveGrantedInv ==
  ASSUME IInv, NEW r \in Requests, LeaveWait(r), pc[r] = "granted"
  PROVE  IInv'
<1> USE DEF IInv
<1>1. /\ pc' = [pc EXCEPT ![r] = "acquired"]
      /\ waiting' = waiting - 1
      /\ UNCHANGED <<cancelled, expired, slots, queue, active, raised, outcome,
                     failed, rejected>>
  BY DEF LeaveWait
<1>2. /\ Cardinality(At(Holding))' = Cardinality(At(Holding))
      /\ Cardinality(At(Counted))' = Cardinality(At(Counted)) - 1
      /\ Cardinality(At(Busy))' = Cardinality(At(Busy))
      /\ Cardinality(At(Admitted))' = Cardinality(At(Admitted)) - 1
  BY <1>1, MoveCounts, PhaseTable DEF Shift
<1>3. Accounts'
  BY <1>1, <1>2, Sizes, ExecutorAssumption
     DEF Accounts, SlotsConserved, CountersExact, AdmittedBounded, ExecutorAssumption
<1>4. LineExact' /\ NoIdleSlot'
  BY <1>1, LineKept DEF NoIdleSlot
<1>5. TypeOK'
  <2>1. waiting' \in Nat
    BY <1>3, Sizes DEF Accounts, CountersExact
  <2>2. QED
    BY <1>1, <2>1 DEF TypeOK, Phases, Holding
<1>6. LedgerExact' /\ OutcomeHonest'
  BY <1>1 DEF LedgerExact, LedgerOf, OutcomeHonest, TypeOK
<1>7. QED
  BY <1>3, <1>4, <1>5, <1>6 DEF Accounts

LEMMA LeaveTimedOutInv ==
  ASSUME IInv, NEW r \in Requests, LeaveWait(r), pc[r] = "timedout"
  PROVE  IInv'
<1> USE DEF IInv
<1>1. /\ pc' = [pc EXCEPT ![r] = "ended"]
      /\ waiting' = waiting - 1
      /\ outcome' = [outcome EXCEPT ![r] = "busy"]
      /\ failed' = [failed EXCEPT ![r] = Append(@, "busy")]
      /\ rejected' = [rejected EXCEPT ![r] = Append(@, "queue_timeout")]
      /\ UNCHANGED <<cancelled, expired, slots, queue, active, raised>>
  BY DEF LeaveWait
<1>2. /\ Cardinality(At(Holding))' = Cardinality(At(Holding))
      /\ Cardinality(At(Counted))' = Cardinality(At(Counted)) - 1
      /\ Cardinality(At(Busy))' = Cardinality(At(Busy))
      /\ Cardinality(At(Admitted))' = Cardinality(At(Admitted)) - 1
  BY <1>1, MoveCounts, PhaseTable DEF Shift
<1>3. Accounts'
  BY <1>1, <1>2, Sizes, ExecutorAssumption
     DEF Accounts, SlotsConserved, CountersExact, AdmittedBounded, ExecutorAssumption
<1>4. LineExact' /\ NoIdleSlot'
  BY <1>1, LineKept DEF NoIdleSlot
<1>5. failed[r] \in Seq(Codes) /\ rejected[r] \in Seq(Codes)
  BY DEF TypeOK
<1>6. /\ Append(failed[r], "busy") \in Seq(Codes)
      /\ Append(rejected[r], "queue_timeout") \in Seq(Codes)
  <2>1. "busy" \in Codes /\ "queue_timeout" \in Codes
    BY DEF Codes, Endings
  <2>2. QED
    BY <1>5, <2>1, Reasons
<1>7. TypeOK'
  <2>1. waiting' \in Nat
    BY <1>3, Sizes DEF Accounts, CountersExact
  <2>2. QED
    BY <1>1, <1>6, <2>1 DEF TypeOK, Phases, Idle, Endings
<1>8. LedgerExact'
  <2>1. failed[r] = <<>> /\ rejected[r] = <<>>
    BY DEF LedgerExact, LedgerOf, TypeOK
  <2>2. failed'[r] = <<"busy">> /\ rejected'[r] = <<"queue_timeout">>
    BY <1>1, <2>1, Reasons DEF TypeOK
  <2>3. QED
    BY <1>1, <2>2, ExecutorAssumption
       DEF LedgerExact, LedgerOf, TypeOK, ExecutorAssumption, Exceptions, Endings
<1>9. OutcomeHonest'
  BY <1>1 DEF OutcomeHonest, TypeOK
<1>10. QED
  BY <1>3, <1>4, <1>7, <1>8, <1>9 DEF Accounts

LEMMA LeaveAbortedInv ==
  ASSUME IInv, NEW r \in Requests, LeaveWait(r), pc[r] = "aborted"
  PROVE  IInv'
<1> USE DEF IInv
<1>1. /\ pc' = [pc EXCEPT ![r] = "ended"]
      /\ waiting' = waiting - 1
      /\ outcome' = [outcome EXCEPT ![r] = "cancelled"]
      /\ UNCHANGED <<cancelled, expired, slots, queue, active, raised, failed,
                     rejected>>
  BY DEF LeaveWait
<1>2. /\ Cardinality(At(Holding))' = Cardinality(At(Holding))
      /\ Cardinality(At(Counted))' = Cardinality(At(Counted)) - 1
      /\ Cardinality(At(Busy))' = Cardinality(At(Busy))
      /\ Cardinality(At(Admitted))' = Cardinality(At(Admitted)) - 1
  BY <1>1, MoveCounts, PhaseTable DEF Shift
<1>3. Accounts'
  BY <1>1, <1>2, Sizes, ExecutorAssumption
     DEF Accounts, SlotsConserved, CountersExact, AdmittedBounded, ExecutorAssumption
<1>4. LineExact' /\ NoIdleSlot'
  BY <1>1, LineKept DEF NoIdleSlot
<1>5. TypeOK'
  <2>1. waiting' \in Nat
    BY <1>3, Sizes DEF Accounts, CountersExact
  <2>2. QED
    BY <1>1, <2>1 DEF TypeOK, Phases, Idle, Endings
<1>6. LedgerExact'
  BY <1>1, ExecutorAssumption
     DEF LedgerExact, LedgerOf, TypeOK, ExecutorAssumption, Exceptions, Endings
<1>7. OutcomeHonest'
  BY <1>1 DEF OutcomeHonest, TypeOK
<1>8. QED
  BY <1>3, <1>4, <1>5, <1>6, <1>7 DEF Accounts

LEMMA StartInv ==
  ASSUME IInv, NEW r \in Requests, Start(r)
  PROVE  IInv'
<1> USE DEF Start, IInv
<1>1. /\ Cardinality(At(Holding))' = Cardinality(At(Holding))
      /\ Cardinality(At(Counted))' = Cardinality(At(Counted))
      /\ Cardinality(At(Busy))' = Cardinality(At(Busy)) + 1
      /\ Cardinality(At(Admitted))' = Cardinality(At(Admitted))
  BY MoveCounts, PhaseTable DEF Shift
<1>2. Accounts'
  BY <1>1, Sizes DEF Accounts, SlotsConserved, CountersExact, AdmittedBounded
<1>3. LineExact' /\ NoIdleSlot'
  BY LineKept DEF NoIdleSlot
<1>4. TypeOK'
  BY DEF TypeOK, Phases, Holding
<1>5. LedgerExact' /\ OutcomeHonest'
  BY DEF LedgerExact, LedgerOf, OutcomeHonest, TypeOK
<1>6. QED
  BY <1>2, <1>3, <1>4, <1>5 DEF Accounts

LEMMA ExpireInv ==
  ASSUME IInv, NEW r \in Requests, Expire(r)
  PROVE  IInv'
<1> USE DEF Expire, IInv
<1>1. TypeOK'
  BY DEF TypeOK
<1>2. At(Holding)' = At(Holding) /\ At(Counted)' = At(Counted)
      /\ At(Busy)' = At(Busy) /\ At(Admitted)' = At(Admitted)
      /\ At({"parked"})' = At({"parked"})
  BY DEF At
<1>3. Accounts'
  BY <1>2 DEF Accounts, SlotsConserved, CountersExact, AdmittedBounded
<1>4. LineExact' /\ NoIdleSlot'
  BY <1>2 DEF LineExact, NoIdleSlot
<1>5. LedgerExact' /\ OutcomeHonest'
  BY DEF LedgerExact, LedgerOf, OutcomeHonest, TypeOK
<1>6. QED
  BY <1>1, <1>3, <1>4, <1>5 DEF Accounts

LEMMA WorkReturnsInv ==
  ASSUME IInv, NEW r \in Requests, WorkReturns(r)
  PROVE  IInv'
<1> USE DEF WorkReturns, IInv
<1>1. /\ Cardinality(At(Holding))' = Cardinality(At(Holding))
      /\ Cardinality(At(Counted))' = Cardinality(At(Counted))
      /\ Cardinality(At(Busy))' = Cardinality(At(Busy))
      /\ Cardinality(At(Admitted))' = Cardinality(At(Admitted))
  BY MoveCounts, PhaseTable DEF Shift
<1>2. Accounts'
  BY <1>1 DEF Accounts, SlotsConserved, CountersExact, AdmittedBounded
<1>3. LineExact' /\ NoIdleSlot'
  BY LineKept DEF NoIdleSlot
<1>4. TypeOK'
  BY DEF TypeOK, Phases, Holding, Endings
<1>5. LedgerExact'
  BY ExecutorAssumption
     DEF LedgerExact, LedgerOf, TypeOK, ExecutorAssumption, Exceptions, Endings
<1>6. OutcomeHonest'
  BY DEF OutcomeHonest, TypeOK
<1>7. QED
  BY <1>2, <1>3, <1>4, <1>5, <1>6 DEF Accounts

LEMMA WorkThrowsInv ==
  ASSUME IInv, NEW r \in Requests, NEW e \in Exceptions \cup {"operation_cancelled"},
         WorkThrows(r, e), e = "operation_cancelled" => cancelled[r] \/ expired[r]
  PROVE  IInv'
<1> USE DEF WorkThrows, IInv
<1>1. /\ Cardinality(At(Holding))' = Cardinality(At(Holding))
      /\ Cardinality(At(Counted))' = Cardinality(At(Counted))
      /\ Cardinality(At(Busy))' = Cardinality(At(Busy))
      /\ Cardinality(At(Admitted))' = Cardinality(At(Admitted))
  BY MoveCounts, PhaseTable DEF Shift
<1>2. Accounts'
  BY <1>1 DEF Accounts, SlotsConserved, CountersExact, AdmittedBounded
<1>3. LineExact' /\ NoIdleSlot'
  BY LineKept DEF NoIdleSlot
<1>4. TypeOK'
  BY DEF TypeOK, Phases, Holding, Endings
<1>5. LedgerExact'
  BY DEF LedgerExact, LedgerOf, TypeOK
<1>6. OutcomeHonest'
  <2>1. e # "none"
    BY ExecutorAssumption DEF ExecutorAssumption, Exceptions, Endings
  <2>2. QED
    BY <2>1 DEF OutcomeHonest, TypeOK
<1>7. QED
  BY <1>2, <1>3, <1>4, <1>5, <1>6 DEF Accounts

LEMMA CatchInv ==
  ASSUME IInv, NEW r \in Requests, Catch(r)
  PROVE  IInv'
<1> USE DEF IInv
<1> DEFINE reason == IF raised[r] # "operation_cancelled" THEN raised[r]
                     ELSE IF cancelled[r] THEN "cancelled" ELSE "timeout"
<1>1. /\ pc[r] = "unwinding"
      /\ pc' = [pc EXCEPT ![r] = "releasing"]
      /\ outcome' = [outcome EXCEPT ![r] = reason]
      /\ failed' = [failed EXCEPT ![r] = Append(@, reason)]
      /\ rejected' = [rejected EXCEPT ![r] =
                        IF reason \in Refusals THEN Append(@, reason) ELSE @]
      /\ UNCHANGED <<cancelled, expired, slots, queue, waiting, active, raised>>
  BY DEF Catch, CatchAs, ReasonOf
<1>2. /\ Cardinality(At(Holding))' = Cardinality(At(Holding))
      /\ Cardinality(At(Counted))' = Cardinality(At(Counted))
      /\ Cardinality(At(Busy))' = Cardinality(At(Busy))
      /\ Cardinality(At(Admitted))' = Cardinality(At(Admitted))
  BY <1>1, MoveCounts, PhaseTable DEF Shift
<1>3. Accounts'
  BY <1>1, <1>2 DEF Accounts, SlotsConserved, CountersExact, AdmittedBounded
<1>4. LineExact' /\ NoIdleSlot'
  BY <1>1, LineKept DEF NoIdleSlot
<1>5. /\ reason \in Exceptions \cup {"cancelled", "timeout"}
      /\ reason = "cancelled" => cancelled[r]
      /\ reason = "timeout" => expired[r]
  <2>1. raised[r] \in Exceptions \cup {"operation_cancelled"}
    BY <1>1 DEF OutcomeHonest, TypeOK
  <2>2. "cancelled" \notin Exceptions /\ "timeout" \notin Exceptions
    BY ExecutorAssumption DEF ExecutorAssumption, Exceptions, Endings
  <2>3. QED
    BY <2>1, <2>2 DEF OutcomeHonest
<1> HIDE DEF reason
<1>6. /\ failed[r] = <<>> /\ rejected[r] = <<>>
      /\ failed[r] \in Seq(Codes) /\ rejected[r] \in Seq(Codes)
  BY <1>1 DEF LedgerExact, LedgerOf, TypeOK
<1>7. /\ Append(failed[r], reason) \in Seq(Codes)
      /\ Append(rejected[r], reason) \in Seq(Codes)
      /\ Append(failed[r], reason) = <<reason>>
      /\ Append(rejected[r], reason) = <<reason>>
  <2>1. reason \in Codes
    BY <1>5 DEF Codes, Endings
  <2>2. QED
    BY <1>6, <2>1, Reasons
<1>8. TypeOK'
  BY <1>1, <1>5, <1>7 DEF TypeOK, Phases, Holding, Endings
<1>9. LedgerExact'
  <2>1. /\ failed'[r] = <<reason>>
        /\ rejected'[r] = IF reason \in Refusals THEN <<reason>> ELSE <<>>
        /\ outcome'[r] = reason
    BY <1>1, <1>6, <1>7 DEF TypeOK
  <2>2. reason \notin {"none", "ok", "busy"}
        /\ "cancelled" \notin Refusals /\ "cancelled" \notin Exceptions
    BY <1>5, ExecutorAssumption DEF ExecutorAssumption, Exceptions, Endings
  <2>3. LedgerOf(r)'
    BY <2>1, <2>2 DEF LedgerOf
  <2>4. \A q \in Requests \ {r} : LedgerOf(q)'
    BY <1>1 DEF LedgerExact, LedgerOf, TypeOK
  <2>5. \A q \in Requests : outcome'[q] # "none" <=> pc'[q] \in {"releasing", "ended"}
    BY <1>1, <2>2 DEF LedgerExact, TypeOK
  <2>6. QED
    BY <2>3, <2>4, <2>5 DEF LedgerExact
<1>10. OutcomeHonest'
  BY <1>1, <1>5 DEF OutcomeHonest, TypeOK
<1>11. QED
  BY <1>3, <1>4, <1>8, <1>9, <1>10 DEF Accounts

\* Releasing with nobody in line gives the slot back.
LEMMA ReleaseFreeInv ==
  ASSUME IInv, NEW r \in Requests, Release(r), queue = <<>>
  PROVE  IInv'
<1> USE DEF IInv
<1>1. /\ pc[r] = "releasing"
      /\ pc' = [pc EXCEPT ![r] = "ended"]
      /\ slots' = slots + 1
      /\ active' = active - 1
      /\ UNCHANGED <<cancelled, expired, queue, waiting, raised, outcome, failed,
                     rejected>>
  BY DEF Release, HandOver
<1>2. slots \in Nat /\ MaxConcurrent \in Nat
  BY ExecutorAssumption DEF TypeOK, ExecutorAssumption
<1>3. /\ Cardinality(At(Holding))' = Cardinality(At(Holding)) - 1
      /\ Cardinality(At(Counted))' = Cardinality(At(Counted))
      /\ Cardinality(At(Busy))' = Cardinality(At(Busy)) - 1
      /\ Cardinality(At(Admitted))' = Cardinality(At(Admitted))
  BY <1>1, MoveCounts, PhaseTable DEF Shift
<1>4. Accounts'
  BY <1>1, <1>2, <1>3, Sizes DEF Accounts, SlotsConserved, CountersExact, AdmittedBounded
<1>5. LineExact' /\ NoIdleSlot'
  BY <1>1, LineKept DEF NoIdleSlot
<1>6. TypeOK'
  <2>1. slots' \in 0..MaxConcurrent /\ active' \in Nat
    BY <1>1, <1>2, <1>4, Sizes DEF Accounts, SlotsConserved, CountersExact
  <2>2. QED
    BY <1>1, <2>1 DEF TypeOK, Phases, Idle
<1>7. LedgerExact' /\ OutcomeHonest'
  BY <1>1 DEF LedgerExact, LedgerOf, OutcomeHonest, TypeOK
<1>8. QED
  BY <1>4, <1>5, <1>6, <1>7 DEF Accounts

\* Releasing with a line hands the slot to the request that has waited longest:
\* two requests move, one after the other.
LEMMA ReleaseHandOverInv ==
  ASSUME IInv, NEW r \in Requests, Release(r), queue # <<>>
  PROVE  IInv'
<1> USE DEF IInv
<1> DEFINE h == Head(queue)
           mid == [pc EXCEPT ![r] = "ended"]
<1>1. /\ pc[r] = "releasing"
      /\ pc' = [pc EXCEPT ![r] = "ended", ![h] = "granted"]
      /\ queue' = Tail(queue)
      /\ active' = active - 1
      /\ UNCHANGED <<cancelled, expired, slots, waiting, raised, outcome, failed,
                     rejected>>
  BY DEF Release, HandOver
<1>2. queue \in Seq(Requests) /\ pc \in [Requests -> Phases]
  BY DEF TypeOK
<1>3. h \in Requests /\ h = queue[1] /\ pc[h] = "parked" /\ h # r
  BY <1>1, <1>2 DEF LineExact, ToSet, At
<1>4. /\ mid \in [Requests -> Phases]
      /\ mid[h] = "parked"
      /\ pc' = [mid EXCEPT ![h] = "granted"]
  BY <1>1, <1>2, <1>3 DEF Phases, Idle
<1> HIDE DEF h, mid
<1>5. /\ Cardinality(At(Holding))' = Cardinality(At(Holding))
      /\ Cardinality(At(Counted))' = Cardinality(At(Counted))
      /\ Cardinality(At(Busy))' = Cardinality(At(Busy)) - 1
      /\ Cardinality(At(Admitted))' = Cardinality(At(Admitted))
  <2>1. ASSUME NEW S
        PROVE  /\ Shift(Cardinality(InPhase(Requests, mid, S)), Cardinality(InPhase(Requests, pc, S)),
                        S, "releasing", "ended")
               /\ Shift(Cardinality(InPhase(Requests, pc', S)), Cardinality(InPhase(Requests, mid, S)),
                        S, "parked", "granted")
    <3>1. Shift(Cardinality(InPhase(Requests, mid, S)), Cardinality(InPhase(Requests, pc, S)), S, pc[r], "ended")
      BY <1>2, Move, FiniteRequests DEF mid
    <3>2. Shift(Cardinality(InPhase(Requests, [mid EXCEPT ![h] = "granted"], S)),
                Cardinality(InPhase(Requests, mid, S)), S, mid[h], "granted")
      BY <1>3, <1>4, Move, FiniteRequests
    <3>3. QED
      BY <1>1, <1>4, <3>1, <3>2
  <2>2. ASSUME NEW S
        PROVE  /\ Cardinality(InPhase(Requests, mid, S)) \in Nat
               /\ At(S) = InPhase(Requests, pc, S) /\ At(S)' = InPhase(Requests, pc', S)
    <3>1. Cardinality(InPhase(Requests, mid, S)) \in Nat
      BY PhaseSizes, FiniteRequests
    <3>2. QED
      BY <3>1 DEF At, InPhase
  <2>3. QED
    BY <2>1, <2>2, Sizes, PhaseTable DEF Shift
<1>6. Accounts'
  BY <1>1, <1>5, Sizes DEF Accounts, SlotsConserved, CountersExact, AdmittedBounded
<1>7. /\ queue' \in Seq(Requests)
      /\ \A j, k \in 1..Len(queue') : queue'[j] = queue'[k] => j = k
      /\ ToSet(queue') = ToSet(queue) \ {h}
  <2>1. queue' = RemoveAt(queue, 1) /\ 1 \in 1..Len(queue)
    BY <1>1, <1>2 DEF RemoveAt
  <2>2. QED
    BY <1>2, <1>3, <2>1, Unlink DEF LineExact
<1>8. LineExact'
  <2>1. At({"parked"})' = At({"parked"}) \ {h}
    BY <1>1, <1>2, <1>3 DEF At
  <2>2. QED
    BY <1>7, <2>1 DEF LineExact
<1>9. NoIdleSlot'
  BY <1>1 DEF NoIdleSlot
<1>10. TypeOK'
  <2>1. active' \in Nat
    BY <1>6, Sizes DEF Accounts, CountersExact
  <2>2. pc' \in [Requests -> Phases]
    BY <1>4 DEF Phases, Holding
  <2>3. QED
    BY <1>1, <1>7, <2>1, <2>2 DEF TypeOK
<1>11. LedgerExact' /\ OutcomeHonest'
  BY <1>1, <1>2, <1>3 DEF LedgerExact, LedgerOf, OutcomeHonest
<1>12. QED
  BY <1>6, <1>8, <1>9, <1>10, <1>11 DEF Accounts

(***************************************************************************)
(* Theorems                                                                *)
(***************************************************************************)

LEMMA StepIInv == IInv /\ [Next]_vars => IInv'
<1> SUFFICES ASSUME IInv, [Next]_vars
             PROVE  IInv'
  OBVIOUS
<1>1. ASSUME NEW r \in Requests, Arrive(r) PROVE IInv'
  BY <1>1, ArriveInv
<1>2. ASSUME NEW r \in Requests, Cancel(r) PROVE IInv'
  BY <1>2, CancelInv
<1>3. ASSUME NEW r \in Requests, Probe(r) PROVE IInv'
  BY <1>3, ProbeInv
<1>4. ASSUME NEW r \in Requests, Count(r) PROVE IInv'
  BY <1>4, CountInv
<1>5. ASSUME NEW r \in Requests, Refuse(r) PROVE IInv'
  BY <1>5, RefuseInv
<1>6. ASSUME NEW r \in Requests, Enqueue(r) PROVE IInv'
  BY <1>6, EnqueueInv
<1>7. ASSUME NEW r \in Requests, GiveUp(r) PROVE IInv'
  BY <1>7, GiveUpInv
<1>8. ASSUME NEW r \in Requests, LeaveWait(r) PROVE IInv'
  <2>1. pc[r] \in {"granted", "timedout", "aborted"}
    BY <1>8 DEF LeaveWait
  <2>2. QED
    BY <1>8, <2>1, LeaveGrantedInv, LeaveTimedOutInv, LeaveAbortedInv
<1>9. ASSUME NEW r \in Requests, Start(r) PROVE IInv'
  BY <1>9, StartInv
<1>10. ASSUME NEW r \in Requests, Expire(r) PROVE IInv'
  BY <1>10, ExpireInv
<1>11. ASSUME NEW r \in Requests, WorkReturns(r) PROVE IInv'
  BY <1>11, WorkReturnsInv
<1>12. ASSUME NEW r \in Requests, NEW e \in Exceptions, WorkThrows(r, e) PROVE IInv'
  <2>1. e # "operation_cancelled"
    BY ExecutorAssumption DEF ExecutorAssumption, Exceptions, Endings
  <2>2. QED
    BY <1>12, <2>1, WorkThrowsInv
<1>13. ASSUME NEW r \in Requests, WorkCancelled(r) PROVE IInv'
  BY <1>13, WorkThrowsInv DEF WorkCancelled
<1>14. ASSUME NEW r \in Requests, Catch(r) PROVE IInv'
  BY <1>14, CatchInv
<1>15. ASSUME NEW r \in Requests, Release(r) PROVE IInv'
  BY <1>15, ReleaseFreeInv, ReleaseHandOverInv
<1>16. ASSUME UNCHANGED vars PROVE IInv'
  <2>1. /\ At(Holding)' = At(Holding) /\ At(Counted)' = At(Counted)
        /\ At(Busy)' = At(Busy) /\ At(Admitted)' = At(Admitted)
        /\ At({"parked"})' = At({"parked"})
    BY <1>16 DEF At, vars
  <2>2. QED
    BY <1>16, <2>1
       DEF vars, IInv, TypeOK, SlotsConserved, CountersExact, LineExact,
           AdmittedBounded, NoIdleSlot, LedgerExact, LedgerOf, OutcomeHonest
<1>17. QED
  BY <1>1, <1>2, <1>3, <1>4, <1>5, <1>6, <1>7, <1>8, <1>9, <1>10, <1>11, <1>12,
     <1>13, <1>14, <1>15, <1>16 DEF Next, System, AllEnded

\* The inductive invariant holds in every reachable state.
THEOREM Invariance == Spec => []IInv
<1>1. Init => IInv
  BY InitIInv
<1>2. IInv /\ [Next]_vars => IInv'
  BY StepIInv
<1>3. QED
  BY <1>1, <1>2, PTL DEF Spec

\* Type correctness: _slots stays between 0 and MaxConcurrent, and neither
\* _waiting nor the Active gauge is ever negative.
THEOREM TypeCorrectness == Spec => []TypeOK
<1>1. IInv => TypeOK
  BY DEF IInv
<1>2. QED
  BY <1>1, Invariance, PTL

\* No slot leaks and none is invented, however requests wait, expire, fail and
\* are cancelled.
THEOREM SlotConservation == Spec => []SlotsConserved
<1>1. IInv => SlotsConserved
  BY DEF IInv
<1>2. QED
  BY <1>1, Invariance, PTL

\* The counters the code keeps beside the semaphore are exact.
THEOREM CounterExactness == Spec => []CountersExact
<1>1. IInv => CountersExact
  BY DEF IInv
<1>2. QED
  BY <1>1, Invariance, PTL

\* No more than MaxQueued requests are ever parked.
THEOREM BoundedLine == Spec => []LineBounded
<1>1. IInv => LineBounded
  <2> SUFFICES ASSUME IInv
               PROVE  LineBounded
    OBVIOUS
  <2>1. Len(queue) = Cardinality(At({"parked"}))
    BY DistinctLength DEF IInv, TypeOK, LineExact
  <2>2. {"parked"} \in SUBSET Admitted
    BY DEF Admitted, Counted
  <2>3. Cardinality(At({"parked"})) <= Cardinality(At(Admitted))
    <3>1. Cardinality(InPhase(Requests, pc, {"parked"})) <= Cardinality(InPhase(Requests, pc, Admitted))
      BY <2>2, PhaseMonotone, FiniteRequests
    <3>2. QED
      BY <3>1 DEF At, InPhase
  <2>4. QED
    BY <2>1, <2>3, Sizes, ExecutorAssumption
       DEF IInv, AdmittedBounded, LineBounded, ExecutorAssumption
<1>2. QED
  BY <1>1, Invariance, PTL

\* Nobody is parked beside a free slot.
THEOREM NoLostWakeup == Spec => []NoIdleSlot
<1>1. IInv => NoIdleSlot
  BY DEF IInv
<1>2. QED
  BY <1>1, Invariance, PTL

\* Every failure of a call that held a slot, and every refusal, is counted once
\* under the right reason.
THEOREM LedgerExactness == Spec => []LedgerExact
<1>1. IInv => LedgerExact
  BY DEF IInv
<1>2. QED
  BY <1>1, Invariance, PTL

\* What a caller is told is what happened to it.
THEOREM OutcomeHonesty == Spec => []OutcomeHonest
<1>1. IInv => OutcomeHonest
  BY DEF IInv
<1>2. QED
  BY <1>1, Invariance, PTL

(***************************************************************************)
(* The executor implements BoundedAdmission                                *)
(***************************************************************************)

\* The stage of every phase.
LEMMA StageTable ==
  /\ \A p \in {"idle", "probing", "counting", "queueing"} : StageOf(p) = "new"
  /\ StageOf("parked") = "waiting"
  /\ \A p \in Holding : StageOf(p) = "serving"
  /\ \A p \in {"ended", "timedout", "aborted", "refused"} : StageOf(p) = "done"
BY DEF StageOf, Holding

\* A request is served, in the sense of BoundedAdmission, when it holds a slot.
LEMMA ServedIsHolding ==
  Admission!Served = At(Holding)
<1>1. \A p : StageOf(p) = "serving" <=> p \in Holding
  BY DEF StageOf, Holding
<1>2. QED
  BY <1>1 DEF Admission!Served, At, Stages

\* The operators BoundedAdmission takes from the libraries are those used here.
LEMMA SameOperators ==
  /\ \A S : Admission!Cardinality(S) = Cardinality(S)
  /\ \A s, i : Admission!RemoveAt(s, i) = RemoveAt(s, i)
<1>1. \A S : Admission!Cardinality(S) = Cardinality(S)
  BY DEF Admission!Cardinality, Cardinality
<1>2. \A s, i : Admission!RemoveAt(s, i) = RemoveAt(s, i)
  BY DEF Admission!RemoveAt, RemoveAt
<1>3. QED
  BY <1>1, <1>2

\* A step that moves one request changes its stage alone.
LEMMA StageMove ==
  ASSUME TypeOK, NEW r \in Requests, NEW p, pc' = [pc EXCEPT ![r] = p]
  PROVE  /\ Stages[r] = StageOf(pc[r])
         /\ Stages' = [Stages EXCEPT ![r] = StageOf(p)]
BY DEF TypeOK, Stages

\* A step that moves one request within a stage and keeps the line stutters.
LEMMA StageStutter ==
  ASSUME TypeOK, NEW r \in Requests, NEW p, pc' = [pc EXCEPT ![r] = p],
         StageOf(p) = StageOf(pc[r]), UNCHANGED queue
  PROVE  UNCHANGED Admission!avars
<1>1. Stages' = Stages
  BY DEF TypeOK, Stages
<1>2. QED
  BY <1>1 DEF Admission!avars

\* A request that takes a free slot is admitted past an empty line.
LEMMA AdmitStep ==
  ASSUME IInv, NEW r \in Requests, NEW p \in Holding,
         StageOf(pc[r]) = "new", slots > 0,
         pc' = [pc EXCEPT ![r] = p], UNCHANGED queue
  PROVE  Admission!Admit(r)
<1>1. /\ Stages[r] = "new"
      /\ Stages' = [Stages EXCEPT ![r] = "serving"]
  <2>1. TypeOK /\ StageOf(p) = "serving"
    BY StageTable DEF IInv
  <2>2. QED
    BY <2>1, StageMove
<1>2. queue = <<>>
  BY DEF IInv, NoIdleSlot, TypeOK
<1>3. Cardinality(Admission!Served) < MaxConcurrent
  BY ServedIsHolding, Sizes, ExecutorAssumption
     DEF IInv, SlotsConserved, TypeOK, ExecutorAssumption
<1>4. QED
  BY <1>1, <1>2, <1>3, SameOperators DEF Admission!Admit

\* A request that ends without ever being served is turned away.
LEMMA TurnAwayStep ==
  ASSUME TypeOK, NEW r \in Requests, NEW p, pc' = [pc EXCEPT ![r] = p],
         StageOf(pc[r]) = "new", StageOf(p) = "done", UNCHANGED queue
  PROVE  Admission!TurnAway(r)
BY StageMove DEF Admission!TurnAway

\* Parking finds the slots taken and the line short: the request that is about
\* to park is itself among the MaxQueued that were let through.
LEMMA JoinStep ==
  ASSUME IInv, NEW r \in Requests, pc[r] = "queueing", slots = 0,
         pc' = [pc EXCEPT ![r] = "parked"], queue' = Append(queue, r)
  PROVE  Admission!Join(r)
<1> DEFINE parked == At({"parked"})
<1>1. /\ Stages[r] = "new"
      /\ Stages' = [Stages EXCEPT ![r] = "waiting"]
  <2>1. TypeOK /\ StageOf("queueing") = "new" /\ StageOf("parked") = "waiting"
    BY StageTable DEF IInv
  <2>2. QED
    BY <2>1, StageMove
<1>2. Cardinality(Admission!Served) = MaxConcurrent
  BY ServedIsHolding, Sizes DEF IInv, SlotsConserved
<1>3. Len(queue) = Cardinality(parked)
  BY DistinctLength DEF IInv, TypeOK, LineExact
<1>4. /\ IsFiniteSet(parked) /\ Cardinality(parked) \in Nat
      /\ IsFiniteSet(At(Admitted)) /\ Cardinality(At(Admitted)) \in Nat
  BY Sizes
<1>5. r \notin parked /\ parked \cup {r} \in SUBSET At(Admitted)
  BY DEF At, Admitted, Counted
<1>6. Cardinality(parked \cup {r}) = Cardinality(parked) + 1
  BY <1>4, <1>5, FS_AddElement
<1>7. Cardinality(parked \cup {r}) <= Cardinality(At(Admitted))
  BY <1>4, <1>5, FS_Subset
<1>8. Len(queue) < MaxQueued
  BY <1>3, <1>4, <1>6, <1>7, ExecutorAssumption
     DEF IInv, AdmittedBounded, ExecutorAssumption
<1>9. QED
  BY <1>1, <1>2, <1>8, SameOperators DEF Admission!Join

\* Giving up is walking out of the line.
LEMMA WalkOutStep ==
  ASSUME IInv, NEW r \in Requests, GiveUp(r)
  PROVE  Admission!WalkOut(r)
<1>1. PICK p \in {"aborted", "timedout"} : pc' = [pc EXCEPT ![r] = p]
  BY DEF GiveUp
<1>2. pc[r] = "parked" /\ StageOf(p) = "done"
  BY StageTable DEF GiveUp
<1>3. /\ Stages[r] = "waiting"
      /\ Stages' = [Stages EXCEPT ![r] = "done"]
  <2>1. TypeOK /\ StageOf("parked") = "waiting"
    BY StageTable DEF IInv
  <2>2. QED
    BY <1>1, <1>2, <2>1, StageMove
<1>4. \E i \in 1..Len(queue) : queue[i] = r /\ queue' = RemoveAt(queue, i)
  BY DEF GiveUp
<1>5. QED
  BY <1>3, <1>4, SameOperators DEF Admission!WalkOut

\* Releasing is departing, with the head of the line served next.
LEMMA DepartStep ==
  ASSUME IInv, NEW r \in Requests, Release(r)
  PROVE  Admission!Depart(r)
<1>1. pc[r] = "releasing" /\ Stages[r] = "serving"
  BY StageTable, PhaseTable DEF Release, HandOver, IInv, TypeOK, Stages
<1>2. CASE queue = <<>>
  <2>1. pc' = [pc EXCEPT ![r] = "ended"] /\ UNCHANGED queue
    BY <1>2 DEF Release, HandOver
  <2>2. Stages' = [Stages EXCEPT ![r] = "done"]
    <3>1. TypeOK /\ StageOf("ended") = "done"
      BY StageTable DEF IInv
    <3>2. QED
      BY <2>1, <3>1, StageMove
  <2>3. QED
    BY <1>1, <1>2, <2>1, <2>2 DEF Admission!Depart
<1>3. CASE queue # <<>>
  <2>1. /\ pc' = [pc EXCEPT ![r] = "ended", ![Head(queue)] = "granted"]
        /\ queue' = Tail(queue)
    BY <1>3 DEF Release, HandOver
  <2>2. StageOf("ended") = "done" /\ StageOf("granted") = "serving"
    BY StageTable, PhaseTable
  <2>3. Stages' = [Stages EXCEPT ![r] = "done", ![Head(queue)] = "serving"]
    <3>1. pc \in [Requests -> Phases] /\ Head(queue) \in Requests
      BY <1>3 DEF IInv, TypeOK
    <3> DEFINE Served(q) == IF q = Head(queue) THEN "serving"
                            ELSE IF q = r THEN "done" ELSE StageOf(pc[q])
    <3>2. Stages' = [q \in Requests |-> Served(q)]
      BY <2>1, <2>2, <3>1 DEF Stages
    <3>3. [Stages EXCEPT ![r] = "done", ![Head(queue)] = "serving"]
            = [q \in Requests |-> Served(q)]
      BY <3>1 DEF Stages
    <3>4. QED
      BY <3>2, <3>3
  <2>4. QED
    BY <1>1, <1>3, <2>1, <2>3 DEF Admission!Depart
<1>4. QED
  BY <1>2, <1>3

\* Every step of the executor is a step of BoundedAdmission or a stutter.
LEMMA AdmissionStep ==
  ASSUME IInv, [Next]_vars
  PROVE  [Admission!ANext]_(Admission!avars)
<1> USE DEF Admission!ANext
<1>0. TypeOK
  BY DEF IInv
<1>1. ASSUME NEW r \in Requests, Arrive(r) PROVE UNCHANGED Admission!avars
  BY <1>0, <1>1, StageStutter, StageTable DEF Arrive
<1>2. ASSUME NEW r \in Requests, Cancel(r) PROVE UNCHANGED Admission!avars
  BY <1>2 DEF Cancel, Admission!avars, Stages
<1>3. ASSUME NEW r \in Requests, Probe(r)
      PROVE  Admission!Admit(r) \/ Admission!TurnAway(r) \/ UNCHANGED Admission!avars
  <2>1. pc[r] = "probing" /\ StageOf(pc[r]) = "new" /\ UNCHANGED queue
    BY <1>3, StageTable DEF Probe, ProbeOr
  <2>2. CASE pc' = [pc EXCEPT ![r] = "ended"]
    <3>1. StageOf("ended") = "done"
      BY StageTable
    <3>2. QED
      BY <1>0, <2>1, <2>2, <3>1, TurnAwayStep
  <2>3. CASE slots > 0 /\ pc' = [pc EXCEPT ![r] = "acquired"]
    BY <2>1, <2>3, AdmitStep, PhaseTable
  <2>4. CASE pc' = [pc EXCEPT ![r] = "counting"]
    <3>1. StageOf("counting") = StageOf(pc[r])
      BY <2>1, StageTable
    <3>2. QED
      BY <1>0, <2>1, <2>4, <3>1, StageStutter
  <2>5. QED
    BY <1>3, <2>2, <2>3, <2>4 DEF Probe, ProbeOr
<1>4. ASSUME NEW r \in Requests, Count(r)
      PROVE  Admission!TurnAway(r) \/ UNCHANGED Admission!avars
  <2>1. pc[r] = "counting" /\ StageOf(pc[r]) = "new" /\ UNCHANGED queue
    BY <1>4, StageTable DEF Count
  <2>2. CASE pc' = [pc EXCEPT ![r] = "refused"]
    <3>1. StageOf("refused") = "done"
      BY StageTable
    <3>2. QED
      BY <1>0, <2>1, <2>2, <3>1, TurnAwayStep
  <2>3. CASE pc' = [pc EXCEPT ![r] = "queueing"]
    <3>1. StageOf("queueing") = StageOf(pc[r])
      BY <2>1, StageTable
    <3>2. QED
      BY <1>0, <2>1, <2>3, <3>1, StageStutter
  <2>4. QED
    BY <1>4, <2>2, <2>3 DEF Count
<1>5. ASSUME NEW r \in Requests, Refuse(r) PROVE UNCHANGED Admission!avars
  <2>1. StageOf("refused") = StageOf("ended")
    BY StageTable
  <2>2. QED
    BY <1>0, <1>5, <2>1, StageStutter DEF Refuse
<1>6. ASSUME NEW r \in Requests, Enqueue(r)
      PROVE  Admission!Admit(r) \/ Admission!Join(r) \/ Admission!TurnAway(r)
  <2>1. pc[r] = "queueing" /\ StageOf(pc[r]) = "new"
    BY <1>6, StageTable DEF Enqueue
  <2>2. CASE pc' = [pc EXCEPT ![r] = "aborted"] /\ UNCHANGED queue
    <3>1. StageOf("aborted") = "done"
      BY StageTable
    <3>2. QED
      BY <1>0, <2>1, <2>2, <3>1, TurnAwayStep
  <2>3. CASE slots > 0 /\ pc' = [pc EXCEPT ![r] = "granted"] /\ UNCHANGED queue
    BY <2>1, <2>3, AdmitStep, PhaseTable
  <2>4. CASE /\ slots = 0
             /\ queue' = Append(queue, r)
             /\ pc' = [pc EXCEPT ![r] = "parked"]
    BY <2>1, <2>4, JoinStep
  <2>5. QED
    BY <1>6, <2>2, <2>3, <2>4 DEF Enqueue
<1>7. ASSUME NEW r \in Requests, GiveUp(r) PROVE Admission!WalkOut(r)
  BY <1>7, WalkOutStep
<1>8. ASSUME NEW r \in Requests, LeaveWait(r) PROVE UNCHANGED Admission!avars
  <2>1. UNCHANGED queue
    BY <1>8 DEF LeaveWait
  <2>2. CASE pc[r] = "granted" /\ pc' = [pc EXCEPT ![r] = "acquired"]
    <3>1. StageOf("acquired") = StageOf("granted")
      BY StageTable, PhaseTable
    <3>2. QED
      BY <1>0, <2>1, <2>2, <3>1, StageStutter
  <2>3. CASE pc[r] \in {"timedout", "aborted"} /\ pc' = [pc EXCEPT ![r] = "ended"]
    <3>1. StageOf("ended") = StageOf(pc[r])
      BY <2>3, StageTable
    <3>2. QED
      BY <1>0, <2>1, <2>3, <3>1, StageStutter
  <2>4. QED
    BY <1>8, <2>2, <2>3 DEF LeaveWait
<1>9. ASSUME NEW r \in Requests, NEW p \in Busy, pc[r] \in Holding,
             pc' = [pc EXCEPT ![r] = p], UNCHANGED queue
      PROVE  UNCHANGED Admission!avars
  <2>1. StageOf(p) = StageOf(pc[r])
    BY <1>9, StageTable DEF Busy, Holding
  <2>2. QED
    BY <1>0, <1>9, <2>1, StageStutter
<1>10. ASSUME NEW r \in Requests, Start(r) PROVE UNCHANGED Admission!avars
  BY <1>9, <1>10, PhaseTable DEF Start
<1>11. ASSUME NEW r \in Requests, Expire(r) PROVE UNCHANGED Admission!avars
  BY <1>11 DEF Expire, Admission!avars, Stages
<1>12. ASSUME NEW r \in Requests, WorkReturns(r) PROVE UNCHANGED Admission!avars
  BY <1>9, <1>12, PhaseTable DEF WorkReturns
<1>13. ASSUME NEW r \in Requests, NEW e, WorkThrows(r, e) PROVE UNCHANGED Admission!avars
  BY <1>9, <1>13, PhaseTable DEF WorkThrows
<1>14. ASSUME NEW r \in Requests, Catch(r) PROVE UNCHANGED Admission!avars
  BY <1>9, <1>14, PhaseTable DEF Catch, CatchAs, ReasonOf
<1>15. ASSUME NEW r \in Requests, Release(r) PROVE Admission!Depart(r)
  BY <1>15, DepartStep
<1>16. ASSUME UNCHANGED vars PROVE UNCHANGED Admission!avars
  BY <1>16 DEF vars, Admission!avars, Stages
<1>17. QED
  BY <1>1, <1>2, <1>3, <1>4, <1>5, <1>6, <1>7, <1>8, <1>10, <1>11, <1>12, <1>13,
     <1>14, <1>15, <1>16 DEF Next, System, WorkCancelled, AllEnded

\* The executor, with its counter, its timers and its races, is the bounded
\* admission BoundedAdmission describes.
THEOREM Implementation == Spec => ImplementsAdmission
<1>1. Init => Admission!AInit
  <2>1. Init => queue = <<>> /\ \A r \in Requests : pc[r] = "idle"
    BY DEF Init
  <2>2. StageOf("idle") = "new"
    BY StageTable
  <2>3. QED
    BY <2>1, <2>2 DEF Admission!AInit, Stages
<1>2. IInv /\ [Next]_vars => [Admission!ANext]_(Admission!avars)
  BY AdmissionStep
<1>3. QED
  BY <1>1, <1>2, Invariance, PTL DEF Spec, ImplementsAdmission, Admission!ASpec

\* No exit leaks a slot, a place in the line or a unit of the gauge.
THEOREM NothingLeaked == Spec => []NothingLeaks
<1>1. SlotsConserved /\ CountersExact => NothingLeaks
  BY DEF NothingLeaks
<1>2. QED
  BY <1>1, SlotConservation, CounterExactness, PTL

\* Metrics, what callers are told and what happened agree.
THEOREM HonestBooking == Spec => []BookedHonestly
<1>1. LedgerExact /\ OutcomeHonest => BookedHonestly
  BY DEF BookedHonestly
<1>2. QED
  BY <1>1, LedgerExactness, OutcomeHonesty, PTL
==============================================================================
