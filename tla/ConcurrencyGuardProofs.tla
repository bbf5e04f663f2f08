----------------------- MODULE ConcurrencyGuardProofs -----------------------
(***************************************************************************)
(* Proofs about ConcurrencyGuard for every finite set of requests, every   *)
(* set of clients and every MaxConcurrentPerIp the options allow.          *)
(***************************************************************************)
EXTENDS ConcurrencyGuard, ProofLemmas

\* What the tracker owes to one client.
Sound(c) ==
  /\ c \in keys => inFlight[c] = Cardinality(At(c, Inside))
  /\ c \notin keys => Cardinality(At(c, Inside)) = 0
  /\ Cardinality(At(c, {"running"})) <= MaxConcurrentPerIp
  /\ c \in keys /\ inFlight[c] = 0 => At(c, {"removing"}) # {}

\* The limit on what runs follows from the exact count, since what runs is
\* counted; the exact count needs to know that the request about to remove a key
\* remembers the count zero.
IInv ==
  /\ TypeOK
  /\ \A c \in Clients : Sound(c)
  /\ \A r \in Requests : remaining[r] = 0

\* How many requests of a client are where, before and after a step.
LEMMA Sizes ==
  /\ \A c, S : IsFiniteSet(At(c, S)) /\ Cardinality(At(c, S)) \in Nat
  /\ \A c, S : IsFiniteSet(At(c, S)') /\ Cardinality(At(c, S))' \in Nat
  /\ \A c : Cardinality(At(c, {"running"}))' <= Cardinality(At(c, Inside))'
<1>1. ASSUME NEW c PROVE IsFiniteSet(Of(c))
  <2>1. Of(c) \in SUBSET Requests
    BY DEF Of
  <2>2. QED
    BY <2>1, FS_Subset, GuardAssumption DEF GuardAssumption
<1>2. \A c, S : IsFiniteSet(At(c, S)) /\ Cardinality(At(c, S)) \in Nat
  BY <1>1, PhaseSizes DEF At, InPhase
<1>3. \A c, S : IsFiniteSet(At(c, S)') /\ Cardinality(At(c, S))' \in Nat
  BY <1>1, PhaseSizes DEF At, InPhase
<1>4. ASSUME NEW c
      PROVE  Cardinality(At(c, {"running"}))' <= Cardinality(At(c, Inside))'
  <2>1. {"running"} \in SUBSET Inside
    BY DEF Inside
  <2>2. Cardinality(InPhase(Of(c), pc', {"running"})) <= Cardinality(InPhase(Of(c), pc', Inside))
    BY <1>1, <2>1, PhaseMonotone
  <2>3. QED
    BY <2>2 DEF At, InPhase
<1>5. QED
  BY <1>2, <1>3, <1>4

\* Which phases are counted, and which are running.
LEMMA PhaseTable ==
  /\ \A p \in {"rejecting", "running", "leaving"} : p \in Inside
  /\ \A p \in {"idle", "removing"} : p \notin Inside
  /\ \A p \in {"idle", "rejecting", "leaving", "removing"} : p \notin {"running"}
BY DEF Inside

\* A request that moves shifts the head counts of its own client and leaves
\* the requests of the others where they are.
LEMMA MoveCounts ==
  ASSUME TypeOK, NEW r \in Requests, NEW c, c = ClientOf[r],
         NEW p, pc' = [pc EXCEPT ![r] = p]
  PROVE  /\ Shift(Cardinality(At(c, Inside))', Cardinality(At(c, Inside)), Inside, pc[r], p)
         /\ Shift(Cardinality(At(c, {"running"}))', Cardinality(At(c, {"running"})),
                  {"running"}, pc[r], p)
         /\ \A d \in Clients \ {c} :
              /\ At(d, Inside)' = At(d, Inside)
              /\ At(d, {"running"})' = At(d, {"running"})
              /\ At(d, {"removing"})' = At(d, {"removing"})
<1>1. pc \in [Requests -> Phases] /\ r \in Of(c)
  BY DEF TypeOK, Of
<1>2. ASSUME NEW S
      PROVE  Shift(Cardinality(InPhase(Of(c), pc', S)),
                   Cardinality(InPhase(Of(c), pc, S)), S, pc[r], p)
  <2>1. Of(c) \in SUBSET Requests
    BY DEF Of
  <2>2. IsFiniteSet(Of(c))
    BY <2>1, FS_Subset, GuardAssumption DEF GuardAssumption
  <2>3. QED
    BY <1>1, <2>2, Move
<1>3. ASSUME NEW d \in Clients \ {c}, NEW S PROVE At(d, S)' = At(d, S)
  BY <1>1 DEF At, Of
<1>4. QED
  BY <1>2, <1>3 DEF At, InPhase

\* What Enter adds one to is the number of the client's requests inside, whether
\* the client has a key or not.
LEMMA EnterCounts ==
  ASSUME NEW c \in Clients, Sound(c)
  PROVE  AddOrUpdate(c, 1, inFlight[c] + 1) = Cardinality(At(c, Inside)) + 1
BY DEF AddOrUpdate, Sound

\* A request inside the guard is counted, so its client's count is positive.
LEMMA CountedPresent ==
  ASSUME IInv, NEW r \in Requests, pc[r] \in Inside, NEW c \in Clients, c = ClientOf[r]
  PROVE  c \in keys /\ Cardinality(At(c, Inside)) > 0
<1>1. r \in At(c, Inside)
  BY DEF At, Of
<1>2. Cardinality(At(c, Inside)) # 0
  BY <1>1, Sizes, FS_EmptySet
<1>3. QED
  BY <1>2, Sizes DEF IInv, Sound

\* A step of one client's request that leaves the entries of the others alone
\* leaves them sound.
LEMMA OthersSound ==
  ASSUME IInv, NEW r \in Requests, NEW c \in Clients, c = ClientOf[r],
         NEW p, pc' = [pc EXCEPT ![r] = p],
         \A d \in Clients \ {c} : inFlight'[d] = inFlight[d] /\ (d \in keys' <=> d \in keys)
  PROVE  \A d \in Clients \ {c} : Sound(d)'
<1> TAKE d \in Clients \ {c}
<1>1. /\ At(d, Inside)' = At(d, Inside)
      /\ At(d, {"running"})' = At(d, {"running"})
      /\ At(d, {"removing"})' = At(d, {"removing"})
  BY MoveCounts DEF IInv
<1>2. Sound(d)
  BY DEF IInv
<1>3. QED
  BY <1>1, <1>2 DEF Sound

LEMMA InitIInv == Init => IInv
<1> SUFFICES ASSUME Init PROVE IInv
  OBVIOUS
<1>1. \A c : At(c, Inside) = {} /\ At(c, {"running"}) = {}
  BY DEF Init, At, Of, Inside
<1>2. \A c : Cardinality(At(c, Inside)) = 0 /\ Cardinality(At(c, {"running"})) = 0
  BY <1>1, FS_EmptySet
<1>3. \A c \in Clients : Sound(c)
  BY <1>2, GuardAssumption DEF Sound, Init, GuardAssumption
<1>4. QED
  BY <1>3 DEF IInv, Init, TypeOK, Phases

LEMMA EnterInv ==
  ASSUME IInv, NEW r \in Requests, NEW c \in Clients, c = ClientOf[r], Enter(r)
  PROVE  IInv'
<1> DEFINE current == AddOrUpdate(c, 1, inFlight[c] + 1)
<1>1. /\ current = Cardinality(At(c, Inside)) + 1
      /\ current \in Nat
      /\ current # 0
      /\ MaxConcurrentPerIp \in Nat
  BY EnterCounts, Sizes, GuardAssumption DEF IInv, GuardAssumption
<1>2. /\ pc[r] = "idle"
      /\ keys' = keys \cup {c}
      /\ inFlight' = [inFlight EXCEPT ![c] = current]
      /\ UNCHANGED remaining
  BY DEF Enter
<1>3. \/ current > MaxConcurrentPerIp /\ pc' = [pc EXCEPT ![r] = "rejecting"]
      \/ ~(current > MaxConcurrentPerIp) /\ pc' = [pc EXCEPT ![r] = "running"]
  BY DEF Enter
<1> HIDE DEF current
<1>4. PICK p \in {"rejecting", "running"} : pc' = [pc EXCEPT ![r] = p]
  BY <1>3
<1>5. TypeOK'
  BY <1>1, <1>2, <1>4 DEF IInv, TypeOK, Phases
<1>6. /\ inFlight'[c] = current
      /\ \A d \in Clients \ {c} : inFlight'[d] = inFlight[d] /\ (d \in keys' <=> d \in keys)
  BY <1>2 DEF IInv, TypeOK
<1>7. Cardinality(At(c, Inside))' = current
  BY <1>1, <1>2, <1>4, MoveCounts, PhaseTable DEF IInv, Shift
<1>8. Cardinality(At(c, {"running"}))' <= MaxConcurrentPerIp
  <2>1. CASE pc' = [pc EXCEPT ![r] = "rejecting"]
    <3>1. Cardinality(At(c, {"running"}))' = Cardinality(At(c, {"running"}))
      BY <1>2, <2>1, MoveCounts, PhaseTable DEF IInv, Shift
    <3>2. QED
      BY <3>1 DEF IInv, Sound
  <2>2. CASE ~(current > MaxConcurrentPerIp)
    BY <1>1, <1>7, <2>2, Sizes
  <2>3. QED
    BY <1>3, <2>1, <2>2
<1>9. Sound(c)'
  BY <1>1, <1>2, <1>6, <1>7, <1>8 DEF Sound
<1>10. \A d \in Clients : Sound(d)'
  BY <1>4, <1>6, <1>9, OthersSound
<1>11. QED
  BY <1>2, <1>5, <1>10 DEF IInv

LEMMA FinishInv ==
  ASSUME IInv, NEW r \in Requests, NEW c \in Clients, c = ClientOf[r], Finish(r)
  PROVE  IInv'
<1>1. /\ pc[r] \in {"rejecting", "running"}
      /\ pc[r] \in Inside
      /\ pc' = [pc EXCEPT ![r] = "leaving"]
      /\ UNCHANGED <<keys, inFlight, remaining>>
  BY PhaseTable DEF Finish
<1>2. TypeOK'
  BY <1>1 DEF IInv, TypeOK, Phases
<1>3. Sound(c)'
  <2>1. Cardinality(At(c, Inside))' = Cardinality(At(c, Inside))
    BY <1>1, MoveCounts, PhaseTable DEF IInv, Shift
  <2>2. Cardinality(At(c, {"running"}))' <= Cardinality(At(c, {"running"}))
    <3>1. \/ Cardinality(At(c, {"running"}))' = Cardinality(At(c, {"running"}))
          \/ Cardinality(At(c, {"running"}))' = Cardinality(At(c, {"running"})) - 1
      BY <1>1, MoveCounts, PhaseTable DEF IInv, Shift
    <3>2. QED
      BY <3>1, Sizes
  <2>3. Cardinality(At(c, {"running"}))' <= MaxConcurrentPerIp
    BY <2>2, Sizes, GuardAssumption DEF IInv, Sound, GuardAssumption
  <2>4. c \in keys /\ inFlight[c] > 0 /\ inFlight[c] = Cardinality(At(c, Inside))
    BY <1>1, CountedPresent DEF IInv, Sound
  <2>5. QED
    BY <1>1, <2>1, <2>3, <2>4 DEF Sound
<1>4. \A d \in Clients : Sound(d)'
  BY <1>1, <1>3, OthersSound
<1>5. QED
  BY <1>1, <1>2, <1>4 DEF IInv

LEMMA DecrementInv ==
  ASSUME IInv, NEW r \in Requests, NEW c \in Clients, c = ClientOf[r], Decrement(r)
  PROVE  IInv'
<1> DEFINE left == AddOrUpdate(c, 0, inFlight[c] - 1)
<1>1. pc[r] = "leaving" /\ pc[r] \in Inside
  BY PhaseTable DEF Decrement
<1>2. /\ c \in keys
      /\ Cardinality(At(c, Inside)) \in Nat
      /\ left = Cardinality(At(c, Inside)) - 1
      /\ left \in Nat
  BY <1>1, CountedPresent, Sizes DEF IInv, Sound, AddOrUpdate
<1>3. /\ keys' = keys
      /\ inFlight' = [inFlight EXCEPT ![c] = left]
  BY <1>2 DEF Decrement
<1>4. \/ /\ left <= 0
         /\ remaining' = [remaining EXCEPT ![r] = left]
         /\ pc' = [pc EXCEPT ![r] = "removing"]
      \/ /\ left > 0
         /\ pc' = [pc EXCEPT ![r] = "idle"]
         /\ UNCHANGED remaining
  BY DEF Decrement
<1> HIDE DEF left
<1>5. PICK p \in {"removing", "idle"} : pc' = [pc EXCEPT ![r] = p]
  BY <1>4
<1>6. remaining' \in [Requests -> Nat] /\ \A q \in Requests : remaining'[q] = 0
  BY <1>2, <1>4 DEF IInv, TypeOK
<1>7. TypeOK'
  BY <1>2, <1>3, <1>5, <1>6 DEF IInv, TypeOK, Phases
<1>8. /\ inFlight'[c] = left
      /\ \A d \in Clients \ {c} : inFlight'[d] = inFlight[d] /\ (d \in keys' <=> d \in keys)
  BY <1>3 DEF IInv, TypeOK
<1>9. Sound(c)'
  <2>1. Cardinality(At(c, Inside))' = left
    BY <1>1, <1>2, <1>5, MoveCounts, PhaseTable DEF IInv, Shift
  <2>2. Cardinality(At(c, {"running"}))' = Cardinality(At(c, {"running"}))
    BY <1>1, <1>5, MoveCounts, PhaseTable DEF IInv, Shift
  <2>3. left = 0 => At(c, {"removing"})' # {}
    <3>1. left = 0 => pc' = [pc EXCEPT ![r] = "removing"]
      BY <1>4
    <3>2. QED
      BY <3>1 DEF At, Of, IInv, TypeOK
  <2>4. QED
    BY <1>2, <1>3, <1>8, <2>1, <2>2, <2>3 DEF IInv, Sound
<1>10. \A d \in Clients : Sound(d)'
  BY <1>5, <1>8, <1>9, OthersSound
<1>11. QED
  BY <1>6, <1>7, <1>10 DEF IInv

LEMMA RemoveInv ==
  ASSUME IInv, NEW r \in Requests, NEW c \in Clients, c = ClientOf[r], TryRemove(r)
  PROVE  IInv'
<1>1. /\ pc[r] = "removing"
      /\ pc' = [pc EXCEPT ![r] = "idle"]
      /\ UNCHANGED <<inFlight, remaining>>
      /\ \/ inFlight[c] = 0 /\ keys' = keys \ {c}
         \/ inFlight[c] # 0 /\ keys' = keys
  BY DEF TryRemove, IInv
<1>2. TypeOK'
  BY <1>1 DEF IInv, TypeOK, Phases
<1>3. Sound(c)'
  <2>1. Cardinality(At(c, Inside))' = Cardinality(At(c, Inside))
    BY <1>1, MoveCounts, PhaseTable DEF IInv, Shift
  <2>2. Cardinality(At(c, {"running"}))' = Cardinality(At(c, {"running"}))
    BY <1>1, MoveCounts, PhaseTable DEF IInv, Shift
  <2>3. QED
    BY <1>1, <2>1, <2>2 DEF IInv, Sound
<1>4. \A d \in Clients : Sound(d)'
  BY <1>1, <1>3, OthersSound
<1>5. QED
  BY <1>1, <1>2, <1>4 DEF IInv

\* The invariant gives each of the properties the runs check.
LEMMA Consequences == IInv => TypeOK /\ CountExact /\ RunningBounded /\ NoStaleKey
<1> SUFFICES ASSUME IInv PROVE CountExact /\ RunningBounded /\ NoStaleKey
  BY DEF IInv
<1>1. CountExact
  BY Sizes, FS_EmptySet DEF IInv, Sound, CountExact
<1>2. RunningBounded
  BY DEF IInv, Sound, RunningBounded
<1>3. NoStaleKey
  <2> SUFFICES ASSUME NEW c \in keys, inFlight[c] = 0
               PROVE  \E r \in At(c, {"removing"}) : remaining[r] = 0
    BY DEF NoStaleKey
  <2>1. c \in Clients
    BY DEF IInv, TypeOK
  <2>2. PICK r \in At(c, {"removing"}) : TRUE
    BY <2>1 DEF IInv, Sound
  <2>3. QED
    BY <2>2 DEF IInv, At, Of
<1>4. QED
  BY <1>1, <1>2, <1>3

\* The invariant holds in every reachable state.
THEOREM Invariance == Spec => []IInv
<1>1. IInv /\ [Next]_vars => IInv'
  <2> SUFFICES ASSUME IInv, [Next]_vars PROVE IInv'
    OBVIOUS
  <2>1. ASSUME NEW r \in Requests,
               Enter(r) \/ Finish(r) \/ Decrement(r) \/ TryRemove(r)
        PROVE  IInv'
    <3>1. ClientOf[r] \in Clients
      BY GuardAssumption DEF GuardAssumption
    <3>2. QED
      BY <2>1, <3>1, EnterInv, FinishInv, DecrementInv, RemoveInv
  <2>2. CASE UNCHANGED vars
    <3>1. \A c \in Clients : Sound(c)' <=> Sound(c)
      BY <2>2 DEF vars, Sound, At
    <3>2. QED
      BY <2>2, <3>1 DEF vars, IInv, TypeOK
  <2>3. QED
    BY <2>1, <2>2 DEF Next
<1>2. QED
  BY <1>1, InitIInv, PTL DEF Spec

\* The counts in the tracker stay natural numbers.
THEOREM TypeCorrectness == Spec => []TypeOK
<1>1. IInv => TypeOK
  BY Consequences
<1>2. QED
  BY <1>1, Invariance, PTL

\* The dictionary counts each client's requests inside the guard, although
\* Leave decrements and removes in two steps.
THEOREM CountExactness == Spec => []CountExact
<1>1. IInv => CountExact
  BY Consequences
<1>2. QED
  BY <1>1, Invariance, PTL

\* No client has more than MaxConcurrentPerIp diagnostics running.
THEOREM BoundedPerClient == Spec => []RunningBounded
<1>1. IInv => RunningBounded
  BY Consequences
<1>2. QED
  BY <1>1, Invariance, PTL

\* A key whose count is zero is about to be removed: the dictionary does not
\* keep the clients that once called.
THEOREM NoKeyLeftBehind == Spec => []NoStaleKey
<1>1. IInv => NoStaleKey
  BY Consequences
<1>2. QED
  BY <1>1, Invariance, PTL

\* A request is turned away only if at least MaxConcurrentPerIp others of its
\* client are inside the guard.
THEOREM RejectionAtLimit == Spec => RejectedAtLimit
<1>1. ASSUME IInv, [Next]_vars, NEW r \in Requests,
             pc[r] = "idle", pc'[r] = "rejecting"
      PROVE  Cardinality(At(ClientOf[r], Inside)) >= MaxConcurrentPerIp
  <2> DEFINE n == Cardinality(At(ClientOf[r], Inside))
  <2>1. PICK q \in Requests : Enter(q) \/ Finish(q) \/ Decrement(q) \/ TryRemove(q)
    BY <1>1 DEF Next, vars
  <2>2. Enter(r)
    BY <1>1, <2>1 DEF Enter, Finish, Decrement, TryRemove, IInv, TypeOK
  <2>3. ClientOf[r] \in Clients /\ n \in Nat /\ MaxConcurrentPerIp \in Nat
    BY Sizes, GuardAssumption DEF GuardAssumption
  <2>4. AddOrUpdate(ClientOf[r], 1, inFlight[ClientOf[r]] + 1) = n + 1
    BY <1>1, <2>3, EnterCounts DEF IInv
  <2>5. n + 1 > MaxConcurrentPerIp
    BY <1>1, <2>2, <2>4 DEF Enter, IInv, TypeOK
  <2>6. QED
    BY <2>3, <2>5
<1>2. IInv /\ [Next]_vars =>
        [\A r \in Requests : pc[r] = "idle" /\ pc'[r] = "rejecting" =>
           Cardinality(At(ClientOf[r], Inside)) >= MaxConcurrentPerIp]_vars
  BY <1>1
<1>3. QED
  BY <1>2, Invariance, PTL DEF Spec, RejectedAtLimit
===============================================================================
