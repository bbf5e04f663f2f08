---------------------------- MODULE WorkerProofs ----------------------------
(***************************************************************************)
(* Proofs about the two background activities of the diagnostics host:     *)
(* ProcessRunner, for every cap, every pipe size and every amount of       *)
(* output, and ConnectivityMonitor, for every set of families, every       *)
(* number of targets, every window and every number of points.             *)
(***************************************************************************)
EXTENDS ProcessRunner, ConnectivityMonitor, ProofLemmas

------------------------------------------------------------------------------
(* ProcessRunner                                                            *)

\* Where RunAsync is decides whether the tool can still be running.
ChildKnown ==
  /\ pc \in {"starting", "failed"} => child = "none"
  /\ pc \in {"started", "waiting"} => child # "none"
  /\ pc \in {"draining", "returned", "threw"} => child \in Exits

\* What the reader of stdout has seen when it stops.
OutKnown ==
  /\ truncated <=> reader["out"] \in {"limit", "over"}
  /\ truncated => kept["out"] < written["out"]
  /\ reader["out"] = "done" /\ pc # "threw" =>
       child \in Exits /\ kept["out"] = written["out"]
  /\ pc = "returned" => reader["out"] \in Stopped
  /\ pc \in {"starting", "started", "failed"} => reader["out"] = "reading"

\* The result is complete because a reader stops at the end of the file only
\* after the tool has exited; nothing is orphaned because RunAsync passes the
\* exit, or TryKill, on every way out.
RunnerInv ==
  /\ TypeOK
  /\ ChildKnown
  /\ OutKnown
  /\ KilledForAReason

LEMMA CapType == Cap \in [Streams -> Nat]
BY RunnerAssumption DEF RunnerAssumption, Cap

\* TryKill leaves an exited child as it is and kills a running one.
LEMMA Killing ==
  ASSUME TypeOK, TryKill, child # "none"
  PROVE  /\ child' \in Exits
         /\ helper' \in BOOLEAN
         /\ child # "running" => child' = child
         /\ child = "running" => child' = "killed"
BY DEF TryKill, TypeOK, Exits

LEMMA RunnerInitInv == Init => RunnerInv
<1> SUFFICES ASSUME Init PROVE RunnerInv
  OBVIOUS
<1>1. TypeOK
  <2>1. \A s \in Streams : kept[s] = 0 /\ written[s] = 0 /\ reader[s] = "reading"
    BY DEF Init
  <2>2. \A s \in Streams : kept[s] <= Cap[s] /\ Buffered(s) \in 0..PipeSize
    BY <2>1, CapType, RunnerAssumption DEF RunnerAssumption, Buffered
  <2>3. /\ written \in [Streams -> 0..MaxWrites]
        /\ kept \in [Streams -> Nat]
        /\ reader \in [Streams -> {"reading", "limit"} \cup Stopped]
    BY RunnerAssumption DEF Init, RunnerAssumption
  <2>4. QED
    BY <2>2, <2>3
       DEF Init, TypeOK, RunnerAssumption, Exits, Ended, Watching, Stopped
<1>2. ChildKnown /\ OutKnown /\ KilledForAReason
  BY DEF Init, ChildKnown, OutKnown, KilledForAReason, Exits, Streams
<1>3. QED
  BY <1>1, <1>2 DEF RunnerInv

LEMMA RunnerStep == RunnerInv /\ [Next]_vars => RunnerInv'
<1> SUFFICES ASSUME RunnerInv, [Next]_vars PROVE RunnerInv'
  OBVIOUS
<1>0. TypeOK /\ ChildKnown /\ OutKnown /\ KilledForAReason /\ PipeSize \in Nat /\ MaxWrites \in Nat
  BY RunnerAssumption DEF RunnerInv, RunnerAssumption
<1> USE DEF Streams, Exits, Ended, Watching, Stopped
<1>1. CASE Start
  BY <1>0, <1>1 DEF Start, RunnerInv, TypeOK, Buffered, ChildKnown, OutKnown, KilledForAReason
<1>2. CASE Watch
  BY <1>0, <1>2 DEF Watch, RunnerInv, TypeOK, Buffered, ChildKnown, OutKnown, KilledForAReason
<1>3. CASE Notify
  BY <1>0, <1>3, Killing DEF Notify, RunnerInv, TypeOK, Buffered, ChildKnown, OutKnown, KilledForAReason
<1>4. CASE LimitKill
  <2>1. pc \in Watching \cup Ended /\ child # "none" /\ truncated
    BY <1>0, <1>4 DEF LimitKill, TypeOK, ChildKnown, OutKnown
  <2>2. QED
    BY <1>0, <1>4, <2>1, Killing DEF LimitKill, RunnerInv, TypeOK, Buffered, ChildKnown, OutKnown, KilledForAReason
<1>5. CASE SeeExit
  BY <1>0, <1>5 DEF SeeExit, RunnerInv, TypeOK, Buffered, ChildKnown, OutKnown, KilledForAReason
<1>6. CASE Throw
  BY <1>0, <1>6, Killing DEF Throw, RunnerInv, TypeOK, Buffered, ChildKnown, OutKnown, KilledForAReason
<1>7. CASE Return
  BY <1>0, <1>7, Killing DEF Return, RunnerInv, TypeOK, Buffered, ChildKnown, OutKnown, KilledForAReason
<1>8. ASSUME NEW s \in Streams, Read(s) PROVE RunnerInv'
  <2>1. TypeOK'
    BY <1>0, <1>8, CapType DEF Read, TypeOK, Buffered
  <2>2. QED
    BY <1>0, <1>8, <2>1 DEF Read, RunnerInv, TypeOK, ChildKnown, OutKnown, KilledForAReason
<1>9. ASSUME NEW s \in Streams, ReadOver(s) PROVE RunnerInv'
  <2>1. TypeOK'
    BY <1>0, <1>9, CapType DEF ReadOver, TypeOK, Buffered
  <2>2. QED
    <3>1. OutKnown'
      <4>1. written[s] > kept[s] /\ reader[s] = "reading"
        BY <1>0, <1>9 DEF ReadOver, TypeOK, Buffered
      <4>2. QED
        BY <1>0, <1>9, <4>1 DEF ReadOver, TypeOK, OutKnown
    <3>2. QED
      BY <1>0, <1>9, <2>1, <3>1 DEF ReadOver, RunnerInv, ChildKnown, KilledForAReason
<1>10. ASSUME NEW s \in Streams, EndOfFile(s) PROVE RunnerInv'
  <2>1. TypeOK'
    BY <1>0, <1>10 DEF EndOfFile, TypeOK, Buffered
  <2>2. QED
    <3>1. pc # "threw" => child \in Exits /\ kept[s] = written[s]
      BY <1>0, <1>10 DEF EndOfFile, TypeOK, Buffered, WriterGone
    <3>2. OutKnown'
      BY <1>0, <1>10, <3>1 DEF EndOfFile, TypeOK, OutKnown
    <3>3. QED
      BY <1>0, <1>10, <2>1, <3>2 DEF EndOfFile, RunnerInv, ChildKnown, KilledForAReason
<1>11. CASE Cancel
  BY <1>0, <1>11 DEF Cancel, RunnerInv, TypeOK, Buffered, ChildKnown, OutKnown, KilledForAReason
<1>12. CASE SpawnHelper
  BY <1>0, <1>12 DEF SpawnHelper, RunnerInv, TypeOK, Buffered, ChildKnown, OutKnown, KilledForAReason
<1>13. CASE HelperLeaves
  BY <1>0, <1>13 DEF HelperLeaves, RunnerInv, TypeOK, Buffered, ChildKnown, OutKnown, KilledForAReason
<1>14. ASSUME NEW s \in Streams, Write(s) PROVE RunnerInv'
  <2>1. TypeOK'
    BY <1>0, <1>14, CapType DEF Write, TypeOK, Buffered
  <2>2. QED
    BY <1>0, <1>14, <2>1 DEF Write, RunnerInv, TypeOK, ChildKnown, OutKnown, KilledForAReason
<1>15. ASSUME NEW status \in {"ok", "error"}, Exit(status) PROVE RunnerInv'
  BY <1>0, <1>15 DEF Exit, RunnerInv, TypeOK, Buffered, ChildKnown, OutKnown, KilledForAReason
<1>16. CASE UNCHANGED vars
  BY <1>0, <1>16 DEF vars, RunnerInv, TypeOK, Buffered, ChildKnown, OutKnown, KilledForAReason
<1>17. QED
  BY <1>1, <1>2, <1>3, <1>4, <1>5, <1>6, <1>7, <1>8, <1>9, <1>10, <1>11, <1>12,
     <1>13, <1>14, <1>15, <1>16 DEF Next, System, Over

\* The invariant holds in every reachable state.
THEOREM Invariance == Spec => []RunnerInv
BY RunnerInitInv, RunnerStep, PTL DEF Spec

\* The readers keep to their caps and take no more than was written.
THEOREM TypeCorrectness == Spec => []TypeOK
<1>1. RunnerInv => TypeOK
  BY DEF RunnerInv
<1>2. QED
  BY <1>1, Invariance, PTL

\* No tool is left running when RunAsync is over.
THEOREM NothingOrphaned == Spec => []NoOrphan
<1>1. RunnerInv => NoOrphan
  BY DEF RunnerInv, ChildKnown, NoOrphan, Ended, Exits
<1>2. QED
  BY <1>1, Invariance, PTL

\* A result says that it is truncated exactly when it misses some output.
THEOREM HonestTruncation == Spec => []TruncationReported
<1>1. RunnerInv => TruncationReported
  BY DEF RunnerInv, TypeOK, OutKnown, TruncationReported, Stopped, Streams
<1>2. QED
  BY <1>1, Invariance, PTL

\* Only a cancelled or an overflowing tool is ever killed.
THEOREM KilledWithCause == Spec => []KilledForAReason
<1>1. RunnerInv => KilledForAReason
  BY DEF RunnerInv
<1>2. QED
  BY <1>1, Invariance, PTL

------------------------------------------------------------------------------
(* Downsample                                                               *)

LEMMA Division ==
  ASSUME NEW a \in Nat, NEW b \in Nat \ {0}
  PROVE  a \div b \in Nat /\ (a \div b) * b <= a /\ a < (a \div b) * b + b
OBVIOUS

LEMMA Scaling ==
  ASSUME NEW a \in Nat, NEW b \in Nat, NEW c \in Nat, a <= b
  PROVE  a * c <= b * c /\ a * c \in Nat
OBVIOUS

\* The chunks of a list that is longer than MaxPoints are at most MaxPoints, the last
\* of them begins within the list, and together they are the list.
LEMMA Chunks ==
  ASSUME NEW n \in Nat, n > MaxPoints, NEW size,
         size = (n + MaxPoints - 1) \div MaxPoints,
         NEW k, k = (n + size - 1) \div size
  PROVE  /\ size \in Nat \ {0}
         /\ k \in 1..MaxPoints
         /\ (k - 1) * size < n /\ n <= k * size
<1>0. MaxPoints \in Nat \ {0}
  BY MonitorAssumption
<1>1. size \in Nat /\ size * MaxPoints <= n + MaxPoints - 1 /\ n + MaxPoints - 1 < size * MaxPoints + MaxPoints
  <2>1. n + MaxPoints - 1 \in Nat
    BY <1>0
  <2>2. QED
    BY <1>0, <2>1, Division
<1>2. n <= size * MaxPoints /\ size # 0
  <2>1. n <= size * MaxPoints
    BY <1>0, <1>1
  <2>2. size # 0
    BY <1>0, <2>1
  <2>3. QED
    BY <2>1, <2>2
<1>3. k \in Nat /\ k * size <= n + size - 1 /\ n + size - 1 < k * size + size
  <2>1. n + size - 1 \in Nat
    BY <1>1, <1>2
  <2>2. QED
    BY <1>1, <1>2, <2>1, Division
<1>4. n <= k * size
  BY <1>1, <1>3
<1>5. k # 0
  BY <1>0, <1>1, <1>4
<1>6. (k - 1) * size < n
  <2>1. (k - 1) * size = k * size - size
    BY <1>1, <1>3
  <2>2. QED
    BY <1>1, <1>3, <2>1
<1>7. k <= MaxPoints
  <2> SUFFICES ASSUME MaxPoints + 1 <= k PROVE FALSE
    BY <1>0, <1>3
  <2>1. (MaxPoints + 1) * size <= k * size
    BY <1>0, <1>1, <1>3, Scaling
  <2>2. (MaxPoints + 1) * size = size * MaxPoints + size
    BY <1>0, <1>1
  <2> DEFINE a == size * MaxPoints
             b == k * size
  <2>3. a \in Nat /\ b \in Nat /\ a + size <= b /\ n <= a /\ b <= n + size - 1
    BY <1>0, <1>1, <1>2, <1>3, <2>1, <2>2
  <2> HIDE DEF a, b
  <2>4. QED
    BY <1>1, <2>3
<1>8. QED
  BY <1>0, <1>1, <1>2, <1>3, <1>4, <1>5, <1>6, <1>7

\* What a point stands for: all samples between two places, and every sample is behind one.
Covers(first, last, p, s) ==
  /\ last[Len(p)] = Len(s)
  /\ \A i \in 1..Len(p) : first[i] <= last[i]
  /\ \A j \in 1..Len(s) : \E i \in 1..Len(p) : first[i] <= j /\ j <= last[i]
  /\ \A i \in 1..Len(p) : p[i].ok <=> \E j \in 1..Len(s) : first[i] <= j /\ j <= last[i] /\ s[j].ok

StandsFor(p, s) ==
  /\ Len(p) \in 1..MaxPoints
  /\ p[1].at = s[1].at
  /\ \E first, last \in [1..Len(p) -> 1..Len(s)] : Covers(first, last, p, s)

LEMMA PointsStandFor ==
  ASSUME NEW s \in Seq(Sample), s # <<>>
  PROVE  StandsFor(Points(s), s)
<1> DEFINE n == Len(s)
<1>1. n \in Nat \ {0} /\ MaxPoints \in Nat \ {0} /\ 1 \in 1..n /\ n \in 1..n
  BY MonitorAssumption
<1>2. CASE n <= MaxPoints
  <2>1. Points(s) = s
    BY <1>2 DEF Points
  <2> DEFINE same == [i \in 1..n |-> i]
  <2>2. same \in [1..n -> 1..n]
    OBVIOUS
  <2>3. \A i \in 1..n : s[i].ok <=> \E j \in 1..n : same[i] <= j /\ j <= same[i] /\ s[j].ok
    BY <1>1
  <2>4. \A j \in 1..n : \E i \in 1..n : same[i] <= j /\ j <= same[i]
    BY <1>1
  <2>5. same[n] = n /\ \A i \in 1..n : same[i] <= same[i]
    BY <1>1
  <2>6. n \in 1..MaxPoints
    BY <1>1, <1>2
  <2> HIDE DEF same
  <2>7. Covers(same, same, s, s)
    BY <2>3, <2>4, <2>5 DEF Covers
  <2>8. QED
    BY <2>1, <2>2, <2>6, <2>7, Zenon DEF StandsFor
<1>3. CASE n > MaxPoints
  <2> DEFINE size == (n + MaxPoints - 1) \div MaxPoints
             k == (n + size - 1) \div size
             End(i) == IF i * size < n THEN i * size ELSE n
             Chunk(i) == SubSeq(s, (i - 1) * size + 1, End(i))
             p == [i \in 1..k |-> [at |-> Chunk(i)[1].at, ok |-> Answered(Chunk(i)) # {}]]
  <2>1. Points(s) = p
    <3>1. ~(n <= MaxPoints)
      BY <1>1, <1>3
    <3>2. QED
      BY <3>1, Zenon DEF Points
  <2>2. size \in Nat \ {0} /\ k \in 1..MaxPoints /\ (k - 1) * size < n /\ n <= k * size
    BY <1>1, <1>3, Chunks
  <2> HIDE DEF size, k
  <2> DEFINE first == [i \in 1..k |-> (i - 1) * size + 1]
             last == [i \in 1..k |-> End(i)]
  <2>3. ASSUME NEW i \in 1..k
        PROVE  /\ (i - 1) * size + 1 \in 1..n /\ End(i) \in 1..n
               /\ (i - 1) * size + 1 <= End(i)
    <3>1. (i - 1) * size <= (k - 1) * size /\ (i - 1) * size \in Nat
      <4>1. i - 1 \in Nat /\ k - 1 \in Nat /\ i - 1 <= k - 1
        BY <2>2
      <4>2. QED
        BY <2>2, <4>1, Scaling
    <3>2. (i - 1) * size < n
      BY <1>1, <2>2, <3>1
    <3>3. i * size = (i - 1) * size + size
      BY <2>2
    <3>4. QED
      BY <1>1, <2>2, <3>1, <3>2, <3>3
  <2>4. ASSUME NEW i \in 1..k
        PROVE  /\ Chunk(i)[1] = s[(i - 1) * size + 1]
               /\ Answered(Chunk(i)) # {} <=>
                    \E j \in 1..n : first[i] <= j /\ j <= last[i] /\ s[j].ok
    <3> DEFINE a == (i - 1) * size + 1
               e == End(i)
    <3>1. a \in 1..n /\ e \in 1..n /\ a <= e
      BY <2>3
    <3> HIDE DEF a, e
    <3>2. /\ Len(SubSeq(s, a, e)) = e - a + 1
          /\ \A j \in 1..e - a + 1 : SubSeq(s, a, e)[j] = s[a + j - 1]
      BY <1>1, <3>1
    <3>3. SubSeq(s, a, e)[1] = s[a]
      BY <3>1, <3>2
    <3>4. ASSUME NEW j \in 1..n, a <= j, j <= e, s[j].ok PROVE Answered(SubSeq(s, a, e)) # {}
      <4>1. j - a + 1 \in 1..e - a + 1 /\ a + (j - a + 1) - 1 = j
        BY <3>1, <3>4
      <4>2. j - a + 1 \in Answered(SubSeq(s, a, e))
        BY <3>2, <3>4, <4>1 DEF Answered
      <4>3. QED
        BY <4>2
    <3>5. ASSUME NEW m \in Answered(SubSeq(s, a, e))
          PROVE  \E j \in 1..n : a <= j /\ j <= e /\ s[j].ok
      <4>1. m \in 1..e - a + 1 /\ s[a + m - 1].ok
        BY <3>2 DEF Answered
      <4>2. a + m - 1 \in 1..n /\ a <= a + m - 1 /\ a + m - 1 <= e
        BY <1>1, <3>1, <4>1
      <4>3. QED
        BY <4>1, <4>2
    <3>6. first[i] = a /\ last[i] = e /\ Chunk(i) = SubSeq(s, a, e)
      BY DEF a, e
    <3>7. QED
      BY <3>3, <3>4, <3>5, <3>6 DEF a
  <2>5. first \in [1..k -> 1..n] /\ last \in [1..k -> 1..n] /\ \A i \in 1..k : first[i] <= last[i]
    BY <2>3
  <2>6. k \in 1..k /\ 1 \in 1..k /\ last[k] = n /\ (1 - 1) * size + 1 = 1
    BY <1>1, <2>2
  <2>7. ASSUME NEW j \in 1..n PROVE \E i \in 1..k : first[i] <= j /\ j <= last[i]
    <3> DEFINE q == (j - 1) \div size
    <3>1. q \in Nat /\ q * size <= j - 1 /\ j - 1 < q * size + size
      BY <1>1, <2>2, Division
    <3> HIDE DEF q
    <3>2. q < k
      <4> SUFFICES ASSUME k <= q PROVE FALSE
        BY <2>2, <3>1
      <4>1. k * size <= q * size
        BY <2>2, <3>1, Scaling
      <4>2. QED
        BY <1>1, <2>2, <3>1, <4>1
    <3>3. q + 1 \in 1..k
      BY <2>2, <3>1, <3>2
    <3>4. (q + 1) * size = q * size + size /\ (q + 1) - 1 = q
      BY <2>2, <3>1
    <3>5. first[q + 1] <= j /\ j <= last[q + 1]
      BY <1>1, <2>2, <3>1, <3>3, <3>4
    <3>6. QED
      BY <3>3, <3>5
  <2>8. Len(p) = k
    BY <2>2
  <2>9. ASSUME NEW i \in 1..k PROVE p[i].at = Chunk(i)[1].at /\ (p[i].ok <=> Answered(Chunk(i)) # {})
    <3> HIDE DEF Chunk
    <3>1. QED
      OBVIOUS
  <2>10. p[1].at = s[1].at
    <3>1. p[1].at = Chunk(1)[1].at
      BY <2>6, <2>9, Zenon
    <3>2. Chunk(1)[1] = s[(1 - 1) * size + 1]
      BY <2>4, <2>6, Zenon
    <3> HIDE DEF Chunk, p
    <3>3. QED
      BY <2>6, <3>1, <3>2
  <2>11. \A i \in 1..k : p[i].ok <=> \E j \in 1..n : first[i] <= j /\ j <= last[i] /\ s[j].ok
    BY <2>4, <2>9, Zenon
  <2> HIDE DEF p, first, last, Chunk
  <2>12. Covers(first, last, p, s)
    BY <2>5, <2>6, <2>7, <2>8, <2>11, Zenon DEF Covers
  <2>13. QED
    BY <2>1, <2>2, <2>5, <2>8, <2>10, <2>12, Zenon DEF StandsFor
<1>4. QED
  BY <1>1, <1>2, <1>3

\* What one look at a family's samples shows, however many points it is drawn with.
SameStory(s) ==
  LET p == Points(s)
  IN  /\ Len(p) \in 1..MaxPoints
      /\ p[1].at = s[1].at
      /\ Status(s) = "operational" => Last(p).ok
      /\ Status(s) = "outage" => Answered(s) # 1..Len(s)
      /\ Answered(s) = {} <=> Answered(p) = {}
      /\ ~Last(p).ok => ~Last(s).ok
      /\ Answered(s) = 1..Len(s) => Status(s) = "operational" /\ Answered(p) = 1..Len(p)

LEMMA StoryTold ==
  ASSUME NEW s \in Seq(Sample), s # <<>>
  PROVE  SameStory(s)
<1> DEFINE p == Points(s)
           n == Len(s)
           k == Len(p)
<1> HIDE DEF p
<1>1. n \in Nat \ {0} /\ n \in 1..n /\ Last(s) = s[n] /\ Last(p) = p[k]
  BY DEF Last
<1>2. k \in 1..MaxPoints /\ p[1].at = s[1].at
  BY PointsStandFor DEF StandsFor, p
<1>3. PICK first \in [1..k -> 1..n], last \in [1..k -> 1..n] : Covers(first, last, p, s)
  BY PointsStandFor, Zenon DEF StandsFor, p
<1>4. /\ last[k] = n
      /\ \A i \in 1..k : first[i] <= last[i]
      /\ \A j \in 1..n : \E i \in 1..k : first[i] <= j /\ j <= last[i]
      /\ \A i \in 1..k : p[i].ok <=> \E j \in 1..n : first[i] <= j /\ j <= last[i] /\ s[j].ok
  BY <1>3, Zenon DEF Covers
<1>5. \A i \in 1..k : first[i] \in 1..n /\ last[i] \in 1..n
  BY <1>3
<1>6. k \in 1..k
  BY <1>2
<1>7. Last(s).ok => Last(p).ok
  <2> SUFFICES ASSUME s[n].ok PROVE p[k].ok
    BY <1>1
  <2>1. first[k] <= n /\ n <= last[k]
    BY <1>1, <1>4, <1>5, <1>6
  <2>2. \E j \in 1..n : first[k] <= j /\ j <= last[k] /\ s[j].ok
    BY <1>1, <2>1
  <2>3. QED
    BY <1>4, <1>6, <2>2
<1>8. Status(s) = "operational" <=> Last(s).ok
  BY DEF Status
<1>9. Last(s).ok => Status(s) # "outage"
  BY DEF Status
<1>10. Answered(s) = 1..n => Last(s).ok
  BY <1>1 DEF Answered
<1>11. Answered(s) = {} <=> Answered(p) = {}
  <2>1. ASSUME NEW j \in 1..n, s[j].ok PROVE \E i \in 1..k : p[i].ok
    BY <1>4, <2>1
  <2>2. ASSUME NEW i \in 1..k, p[i].ok PROVE \E j \in 1..n : s[j].ok
    BY <1>4, <2>2
  <2>3. QED
    BY <2>1, <2>2 DEF Answered
<1>12. Answered(s) = 1..n => Answered(p) = 1..k
  <2> SUFFICES ASSUME Answered(s) = 1..n, NEW i \in 1..k PROVE p[i].ok
    BY DEF Answered
  <2>1. first[i] \in 1..n /\ first[i] <= first[i] /\ first[i] <= last[i]
    BY <1>4, <1>5
  <2>2. s[first[i]].ok
    BY <2>1 DEF Answered
  <2>3. QED
    BY <1>4, <2>1, <2>2
<1>13. QED
  BY <1>2, <1>7, <1>8, <1>9, <1>10, <1>11, <1>12 DEF SameStory, p

------------------------------------------------------------------------------
(* ConnectivityMonitor                                                      *)

Results == {"pending", "answered", "failed", "thrown", "cancelled"}
Places == {"probing", "recording", "publishing", "waiting", "over"}
RecordedRound == [at : Nat, ok : [Families -> BOOLEAN]]

\* All samples of a family that were ever recorded.
History(f) == [i \in 1..Len(taken) |-> [at |-> taken[i].at, ok |-> taken[i].ok[f]]]

MonitorTypes ==
  /\ now \in Nat /\ stamp \in Nat /\ stamp <= now
  /\ stopping \in BOOLEAN
  /\ loop \in Places
  /\ result \in [Families -> Results]
  /\ samples \in [Families -> Seq(Sample)]
  /\ taken \in Seq(RecordedRound)
  /\ up \in [Families -> {"unset", "up", "down"}]

\* The loop is left, or a probe aborted, only when the service stops.
StopKnown ==
  /\ loop = "over" => stopping
  /\ Cancelled => stopping

\* No round is recorded before the one that is recorded last.
LastRound == taken # <<>> => Last(taken).at <= stamp

\* A gauge is what the last round with samples made of it.
GaugeKnown == \A f \in Configured \ unsent :
  up[f] # "unset" => up[f] = IF Last(Points(samples[f])).ok THEN "up" ELSE "down"

MonitorInv == MonitorTypes /\ StopKnown /\ LastRound /\ WindowKept /\ GaugeKnown

LEMMA ConfiguredFamilies == Configured \subseteq Families
BY DEF Configured

LEMMA FirstResultType ==
  /\ FirstResult \in [Families -> Results]
  /\ \A f \in Families : FirstResult[f] # "cancelled"
BY DEF FirstResult, Results

LEMMA LastRecorded ==
  ASSUME taken \in Seq(RecordedRound), taken # <<>>
  PROVE  Last(taken).at \in Nat
<1>1. Last(taken) \in RecordedRound
  BY DEF Last
<1>2. QED
  BY <1>1 DEF RecordedRound

LEMMA MonitorInitInv == MonitorInit => MonitorInv
<1> SUFFICES ASSUME MonitorInit PROVE MonitorInv
  OBVIOUS
<1>1. /\ now = 0 /\ stamp = 0 /\ stopping = FALSE /\ loop = "probing"
      /\ result = FirstResult /\ samples = [f \in Families |-> <<>>]
      /\ up = [f \in Families |-> "unset"] /\ taken = <<>>
  BY DEF MonitorInit
<1>2. MonitorTypes
  <2>1. samples \in [Families -> Seq(Sample)] /\ taken \in Seq(RecordedRound)
    BY <1>1
  <2>2. up \in [Families -> {"unset", "up", "down"}]
    BY <1>1
  <2>3. now \in Nat /\ stamp \in Nat /\ stamp <= now
    BY <1>1
  <2>4. stopping \in BOOLEAN /\ loop \in Places
    BY <1>1, Zenon DEF Places
  <2>5. QED
    BY <1>1, <2>1, <2>2, <2>3, <2>4, FirstResultType, Zenon DEF MonitorTypes
<1>3. StopKnown
  BY <1>1, FirstResultType DEF StopKnown, Cancelled
<1>4. LastRound
  BY <1>1 DEF LastRound
<1>5. WindowKept
  <2> SUFFICES ASSUME NEW f \in Configured PROVE samples[f] = Within(History(f), Window, Last(taken).at)
    BY DEF WindowKept, History
  <2>1. Len(taken) = 0
    BY <1>1
  <2>2. History(f) = <<>>
    BY <2>1 DEF History
  <2>3. samples[f] = <<>>
    BY <1>1, ConfiguredFamilies
  <2>4. QED
    BY <2>2, <2>3, WithinEmpty
<1>6. GaugeKnown
  BY <1>1, ConfiguredFamilies DEF GaugeKnown
<1>7. QED
  BY <1>2, <1>3, <1>4, <1>5, <1>6 DEF MonitorInv

\* A round's samples are added to windows that were pruned round by round.
LEMMA RecordKeepsWindow ==
  ASSUME MonitorInv, RecordBoth
  PROVE  WindowKept' /\ LastRound' /\ MonitorTypes'
<1>1. /\ samples' = [f \in Families |-> Recorded(f)]
      /\ taken' = Append(taken, [at |-> stamp, ok |-> [f \in Families |-> result[f] = "answered"]])
      /\ result' = FirstResult /\ loop' = "publishing"
      /\ now' = now /\ stamp' = stamp /\ stopping' = stopping /\ up' = up
  BY DEF RecordBoth
<1>2. /\ now \in Nat /\ stamp \in Nat /\ stamp <= now
      /\ samples \in [Families -> Seq(Sample)] /\ taken \in Seq(RecordedRound)
  BY DEF MonitorInv, MonitorTypes
<1> DEFINE judged == [f \in Families |-> result[f] = "answered"]
           round == [at |-> stamp, ok |-> judged]
<1>3. judged \in [Families -> BOOLEAN] /\ round.at = stamp /\ round.ok = judged
  OBVIOUS
<1>4. round \in RecordedRound
  BY <1>2, <1>3 DEF RecordedRound
<1>5. taken' = Append(taken, round)
  BY <1>1
<1> HIDE DEF judged, round
<1>6. /\ taken' \in Seq(RecordedRound)
      /\ Len(taken') = Len(taken) + 1 /\ Len(taken) \in Nat /\ taken'[Len(taken) + 1] = round
      /\ \A i \in 1..Len(taken) : taken'[i] = taken[i]
  BY <1>2, <1>4, <1>5
<1>7. taken' # <<>> /\ Last(taken') = round
  BY <1>6 DEF Last
<1>8. Window \in Nat
  BY MonitorAssumption
<1>9. ASSUME NEW f \in Families
      PROVE  /\ samples'[f] \in Seq(Sample)
             /\ f \in Configured => samples'[f] = Within(History(f)', Window, Last(taken').at)
  <2> DEFINE e == [at |-> stamp, ok |-> judged[f]]
             s == samples[f]
             h == History(f)
  <2>1. e \in Sample /\ e.at = stamp /\ NotOlder(e, Window, stamp)
    BY <1>2, <1>3, <1>8 DEF Sample, NotOlder
  <2>2. samples'[f] = IF f \in Configured THEN Within(Append(s, e), Window, stamp) ELSE s
    BY <1>1 DEF Recorded, judged
  <2> HIDE DEF e
  <2>3. s \in Seq(Sample)
    BY <1>2
  <2>4. Append(s, e) \in Seq(Sample)
    BY <2>1, <2>3
  <2>5. Within(Append(s, e), Window, stamp) \in Seq(Sample)
    BY <2>4, WithinElements
  <2>6. h \in Seq(Sample) /\ Len(h) = Len(taken)
    <3>1. ASSUME NEW i \in 1..Len(taken) PROVE [at |-> taken[i].at, ok |-> taken[i].ok[f]] \in Sample
      <4>1. taken[i] \in RecordedRound
        BY <1>2
      <4>2. taken[i].at \in Nat /\ taken[i].ok \in [Families -> BOOLEAN]
        BY <4>1 DEF RecordedRound
      <4>3. QED
        BY <4>2 DEF Sample
    <3>2. QED
      BY <1>6, <3>1 DEF History
  <2>7. History(f)' = Append(h, e)
    <3>1. History(f)' = [i \in 1..Len(taken) + 1 |-> [at |-> taken'[i].at, ok |-> taken'[i].ok[f]]]
      BY <1>6 DEF History
    <3>2. /\ Append(h, e) \in Seq(Sample) /\ Len(Append(h, e)) = Len(taken) + 1
          /\ \A i \in 1..Len(taken) + 1 : Append(h, e)[i] = IF i = Len(taken) + 1 THEN e ELSE h[i]
      BY <1>6, <2>1, <2>6
    <3>3. ASSUME NEW i \in 1..Len(taken) + 1
          PROVE  [at |-> taken'[i].at, ok |-> taken'[i].ok[f]] = IF i = Len(taken) + 1 THEN e ELSE h[i]
      <4>1. CASE i = Len(taken) + 1
        <5>1. taken'[i] = round
          BY <1>6, <4>1
        <5>2. QED
          BY <1>3, <4>1, <5>1 DEF e
      <4>2. CASE i # Len(taken) + 1
        <5>1. i \in 1..Len(taken)
          BY <1>6, <4>2
        <5>2. h[i] = [at |-> taken[i].at, ok |-> taken[i].ok[f]]
          BY <5>1 DEF History
        <5>3. taken'[i] = taken[i]
          BY <1>6, <5>1
        <5>4. QED
          BY <4>2, <5>2, <5>3
      <4>3. QED
        BY <4>1, <4>2
    <3>4. \A i \in 1..Len(taken) + 1 : History(f)'[i] = Append(h, e)[i]
      <4> HIDE DEF h
      <4>1. QED
        BY <3>1, <3>2, <3>3
    <3>5. History(f)' \in Seq(Sample) /\ Len(History(f)') = Len(taken) + 1
      <4>1. \A i \in 1..Len(taken) + 1 : Append(h, e)[i] \in Sample
        BY <3>2
      <4>2. History(f)' = [i \in 1..Len(taken) + 1 |-> Append(h, e)[i]]
        BY <3>1, <3>2, <3>3
      <4> DEFINE x == Append(h, e)
                 m == Len(taken) + 1
                 g == [i \in 1..m |-> x[i]]
      <4>3. m \in Nat
        BY <1>6
      <4>4. \A i \in 1..m : x[i] \in Sample
        BY <4>1, Zenon
      <4> HIDE DEF x, m
      <4>5. g \in Seq(Sample) /\ Len(g) = m
        BY <4>3, <4>4
      <4>6. QED
        BY <4>2, <4>5, Zenon DEF x, m
    <3>6. QED
      BY <3>2, <3>4, <3>5, SeqEqual
  <2> HIDE DEF h, s
  <2>8. CASE f \in Configured
    <3>1. s = Within(h, Window, Last(taken).at)
      BY <2>8 DEF MonitorInv, WindowKept, History, h, s
    <3>2. Within(s, Window, stamp) = Within(h, Window, stamp)
      <4>1. CASE taken = <<>>
        <5>1. h = <<>>
          BY <2>6, <4>1
        <5>2. QED
          BY <3>1, <5>1, WithinEmpty
      <4>2. CASE taken # <<>>
        <5>1. Last(taken).at \in Nat /\ Last(taken).at <= stamp
          BY <1>2, <4>2, LastRecorded DEF MonitorInv, LastRound
        <5>2. \A x \in Sample : x.at \in Nat
          BY DEF Sample
        <5>3. QED
          BY <1>2, <1>8, <2>6, <3>1, <5>1, <5>2, WithinTwice
      <4>3. QED
        BY <4>1, <4>2
    <3>3. Within(Append(s, e), Window, stamp) = Append(Within(s, Window, stamp), e)
      BY <2>1, <2>3, WithinAppend DEF s
    <3>4. Within(Append(h, e), Window, stamp) = Append(Within(h, Window, stamp), e)
      BY <2>1, <2>6, WithinAppend
    <3>5. samples'[f] = Within(History(f)', Window, stamp)
      BY <2>2, <2>7, <2>8, <3>2, <3>3, <3>4, Zenon
    <3>6. Last(taken').at = stamp
      BY <1>3, <1>7
    <3>7. QED
      BY <2>2, <2>5, <2>8, <3>5, <3>6 DEF s
  <2>9. CASE f \notin Configured
    BY <2>2, <2>3, <2>9 DEF s
  <2>10. QED
    BY <2>8, <2>9
<1>10. WindowKept'
  <2> SUFFICES ASSUME NEW f \in Configured
               PROVE  samples'[f] = Within(History(f)', Window, Last(taken').at)
    BY DEF WindowKept, History, Configured
  <2>1. QED
    BY <1>9, ConfiguredFamilies
<1>11. LastRound'
  BY <1>1, <1>2, <1>3, <1>7 DEF LastRound
<1>12. MonitorTypes'
  <2>1. samples' \in [Families -> Seq(Sample)]
    <3>1. \A f \in Families : Recorded(f) \in Seq(Sample)
      BY <1>1, <1>9
    <3>2. QED
      BY <1>1, <3>1
  <2>2. /\ now' \in Nat /\ stamp' \in Nat /\ stamp' <= now' /\ stopping' \in BOOLEAN
        /\ up' \in [Families -> {"unset", "up", "down"}] /\ loop' \in Places
        /\ result' \in [Families -> Results]
    BY <1>1, <1>2, FirstResultType DEF MonitorInv, MonitorTypes, Places
  <2>3. QED
    BY <1>6, <2>1, <2>2 DEF MonitorTypes
<1>13. QED
  BY <1>10, <1>11, <1>12

\* The steps that leave the windows and the history alone.
LEMMA WindowsLeft ==
  ASSUME MonitorInv, UNCHANGED <<samples, taken>>
  PROVE  WindowKept'
<1>1. Configured' = Configured
  BY DEF Configured
<1>2. QED
  BY <1>1 DEF MonitorInv, WindowKept

LEMMA GaugesLeft ==
  ASSUME MonitorInv, UNCHANGED <<samples, unsent, up>>
  PROVE  GaugeKnown'
<1>1. Configured' = Configured /\ \A f \in Families : Points(samples[f])' = Points(samples[f])
  BY DEF Configured, Points
<1>2. QED
  BY <1>1, ConfiguredFamilies DEF MonitorInv, GaugeKnown

\* A probe's step.
LEMMA ProbeKeeps ==
  ASSUME MonitorInv, NEW f \in Families, Answer(f) \/ Miss(f) \/ Fault(f) \/ Abort(f)
  PROVE  MonitorInv'
<1>1. /\ UNCHANGED <<now, stopping, loop, stamp, samples, unsent, up, taken>>
      /\ \E r \in Results : result' = [result EXCEPT ![f] = r] /\ (r = "cancelled" => stopping)
  BY DEF Answer, Miss, Fault, Abort, Results
<1>2. PICK r \in Results : result' = [result EXCEPT ![f] = r] /\ (r = "cancelled" => stopping)
  BY <1>1
<1>3. MonitorTypes'
  BY <1>1, <1>2 DEF MonitorInv, MonitorTypes
<1>4. StopKnown'
  BY <1>1, <1>2 DEF MonitorInv, MonitorTypes, StopKnown, Cancelled
<1>5. LastRound'
  BY <1>1 DEF MonitorInv, LastRound
<1>6. QED
  BY <1>1, <1>3, <1>4, <1>5, WindowsLeft, GaugesLeft DEF MonitorInv

\* A step of the loop, of the clock or of the host that records nothing and
\* publishes nothing.
LEMMA QuietKeeps ==
  ASSUME MonitorInv, Tick \/ StopService \/ Gather \/ RoundOver \/ NextTick \/ StopWaiting
  PROVE  MonitorInv'
<1> USE DEF MonitorInv
<1>1. UNCHANGED <<samples, unsent, up, taken>>
  BY DEF Tick, StopService, Gather, RoundOver, NextTick, StopWaiting
<1>2. /\ now' \in Nat /\ stamp' \in Nat /\ stamp <= stamp' /\ stamp' <= now' /\ stopping' \in BOOLEAN
      /\ stopping => stopping'
  <2>1. \/ now' = now /\ (stamp' = stamp \/ stamp' = now)
        \/ now' = now + 1 /\ stamp' = stamp
    BY DEF Tick, StopService, Gather, RoundOver, NextTick, StopWaiting
  <2>2. stopping' = stopping \/ stopping' = TRUE
    BY DEF Tick, StopService, Gather, RoundOver, NextTick, StopWaiting
  <2>3. now \in Nat /\ stamp \in Nat /\ stamp <= now
    BY DEF MonitorTypes
  <2>4. stopping' \in BOOLEAN /\ (stopping => stopping')
    BY <2>2, Zenon DEF MonitorTypes
  <2>5. QED
    BY <2>1, <2>3, <2>4
<1>3. loop' \in Places /\ (loop' = "over" => stopping')
  BY DEF MonitorTypes, StopKnown, Places, Tick, StopService, Gather, RoundOver, NextTick, StopWaiting
<1>4. result' = result \/ result' = FirstResult
  BY DEF Tick, StopService, Gather, RoundOver, NextTick, StopWaiting
<1>5. MonitorTypes'
  BY <1>1, <1>2, <1>3, <1>4, FirstResultType DEF MonitorTypes
<1>6. Cancelled' => stopping'
  <2>1. CASE result' = result
    BY <1>2, <2>1 DEF StopKnown, Cancelled
  <2>2. CASE result' = FirstResult
    BY <2>2, FirstResultType DEF Cancelled
  <2>3. QED
    BY <1>4, <2>1, <2>2
<1>7. LastRound'
  <2> SUFFICES ASSUME taken # <<>> PROVE Last(taken).at <= stamp'
    BY <1>1 DEF LastRound
  <2>1. Last(taken).at \in Nat
    BY LastRecorded DEF MonitorTypes
  <2>2. QED
    BY <1>2, <2>1 DEF LastRound, MonitorTypes
<1>8. QED
  BY <1>1, <1>3, <1>5, <1>6, <1>7, WindowsLeft, GaugesLeft DEF StopKnown

LEMMA RecordKeeps ==
  ASSUME MonitorInv, RecordBoth
  PROVE  MonitorInv'
<1>1. loop' = "publishing" /\ result' = FirstResult /\ unsent' = Configured
  BY DEF RecordBoth
<1>2. StopKnown'
  BY <1>1, FirstResultType DEF StopKnown, Cancelled
<1>3. Configured' = Configured
  BY DEF Configured
<1>4. GaugeKnown'
  BY <1>1, <1>3 DEF GaugeKnown
<1>5. QED
  BY <1>2, <1>4, RecordKeepsWindow DEF MonitorInv

LEMMA PublishKeeps ==
  ASSUME MonitorInv, NEW f \in Families, Publish(f)
  PROVE  MonitorInv'
<1>1. /\ UNCHANGED <<now, stopping, loop, result, stamp, samples, taken>>
      /\ up' = [up EXCEPT ![f] = IF Last(Points(samples[f])).ok THEN "up" ELSE "down"]
      /\ unsent' = unsent \ {f}
  BY DEF Publish
<1>2. MonitorTypes'
  BY <1>1 DEF MonitorInv, MonitorTypes
<1>3. StopKnown' /\ LastRound'
  BY <1>1 DEF MonitorInv, StopKnown, LastRound, Cancelled
<1>4. WindowKept'
  BY <1>1, WindowsLeft
<1>5. GaugeKnown'
  <2> SUFFICES ASSUME NEW g \in Configured, g \notin unsent', up'[g] # "unset"
               PROVE  up'[g] = IF Last(Points(samples[g])).ok THEN "up" ELSE "down"
    <3>1. samples' = samples
      BY <1>1
    <3>2. Configured' = Configured
      BY DEF Configured
    <3>3. \A g \in Configured : Points(samples[g])' = Points(samples[g])
      BY <3>1 DEF Points
    <3>4. QED
      BY <3>2, <3>3 DEF GaugeKnown
  <2>1. g \in Families /\ up \in [Families -> {"unset", "up", "down"}]
    BY ConfiguredFamilies DEF MonitorInv, MonitorTypes
  <2>2. CASE g = f
    BY <1>1, <2>1, <2>2
  <2>3. CASE g # f
    <3>1. up'[g] = up[g] /\ g \notin unsent
      BY <1>1, <2>1, <2>3
    <3>2. QED
      BY <3>1 DEF MonitorInv, GaugeKnown
  <2>4. QED
    BY <2>2, <2>3
<1>6. QED
  BY <1>2, <1>3, <1>4, <1>5 DEF MonitorInv

LEMMA MonitorStep == MonitorInv /\ [MonitorNext]_monitorVars => MonitorInv'
<1> SUFFICES ASSUME MonitorInv, [MonitorNext]_monitorVars PROVE MonitorInv'
  OBVIOUS
<1>1. CASE Probes
  BY <1>1, ProbeKeeps DEF Probes
<1>2. CASE RecordBoth
  BY <1>2, RecordKeeps
<1>3. CASE \E f \in Families : Publish(f)
  BY <1>3, PublishKeeps
<1>4. CASE Tick \/ StopService \/ Gather \/ RoundOver \/ NextTick \/ StopWaiting
  BY <1>4, QuietKeeps
<1>5. CASE UNCHANGED monitorVars
  <2>1. UNCHANGED <<now, stopping, loop, result, stamp, samples, unsent, up, taken>>
    BY <1>5 DEF monitorVars
  <2>2. MonitorTypes' /\ StopKnown' /\ LastRound'
    BY <2>1 DEF MonitorInv, MonitorTypes, StopKnown, LastRound, Cancelled
  <2>3. QED
    BY <2>1, <2>2, WindowsLeft, GaugesLeft DEF MonitorInv
<1>6. QED
  BY <1>1, <1>2, <1>3, <1>4, <1>5 DEF MonitorNext, Loop

\* Whatever the probes answer, throw or take, for any families, targets, interval and
\* window, the monitor's state fits together after every step.
THEOREM MonitorInvariant == MonitorSpec => []MonitorInv
BY MonitorInitInv, MonitorStep, PTL DEF MonitorSpec

\* SampleOnceAsync and Record: a window pruned round by round never differs from the
\* one that is cut at once out of all samples ever recorded.
THEOREM WindowKeptAlways == MonitorSpec => []WindowKept
<1>1. MonitorInv => WindowKept
  BY DEF MonitorInv
<1>2. QED
  BY <1>1, MonitorInvariant, PTL

\* ExecuteAsync: an exception of a probe never ends sampling; only the host does.
THEOREM LoopSurvivesAlways == MonitorSpec => []LoopSurvives
<1>1. MonitorInv => LoopSurvives
  BY DEF MonitorInv, StopKnown, LoopSurvives
<1>2. QED
  BY <1>1, MonitorInvariant, PTL

\* Summarise, Downsample and PublishMetrics agree on a window of any length, drawn
\* with any number of points.
THEOREM SnapshotCoherentAlways == MonitorSpec => []SnapshotCoherent
<1>1. MonitorInv => SnapshotCoherent
  <2> SUFFICES ASSUME MonitorInv, NEW f \in Configured, samples[f] # <<>>
               PROVE  SameStory(samples[f])
                      /\ (up[f] = "down" /\ f \notin unsent => ~Last(samples[f]).ok)
    BY Zenon DEF SnapshotCoherent, SameStory
  <2>1. samples[f] \in Seq(Sample)
    BY ConfiguredFamilies DEF MonitorInv, MonitorTypes
  <2>2. SameStory(samples[f])
    BY <2>1, StoryTold
  <2>3. ASSUME up[f] = "down", f \notin unsent PROVE ~Last(samples[f]).ok
    <3>1. ~Last(Points(samples[f])).ok
      BY <2>3 DEF MonitorInv, GaugeKnown
    <3>2. QED
      BY <2>2, <3>1, Zenon DEF SameStory
  <2>4. QED
    BY <2>2, <2>3
<1>2. QED
  BY <1>1, MonitorInvariant, PTL

\* Neither window nor loop suffers from what a probe does.
THEOREM SamplingGoesOn == MonitorSpec => []SamplingKept
<1>1. WindowKept /\ LoopSurvives => SamplingKept
  BY DEF SamplingKept
<1>2. QED
  BY <1>1, WindowKeptAlways, LoopSurvivesAlways, PTL
==============================================================================
