----------------------------- MODULE ProofLemmas -----------------------------
(***************************************************************************)
(* Facts the proofs share: how many processes of a finite set are in given *)
(* phases of their code and how that number shifts when one of them moves, *)
(* what a waiting line looks like after one waiter is unlinked, and what   *)
(* Within leaves of a list.                                                *)
(*                                                                         *)
(* Within is defined by recursion.  What it does to every list is proved   *)
(* by induction: the property is given as a set, whose complement would    *)
(* have a least member (WFMin of the library).                             *)
(***************************************************************************)
EXTENDS Integers, FiniteSets, Sequences, SequencesExt, Recency, FiniteSetTheorems,
        FunctionTheorems, SequenceTheorems, WellFoundedInduction, TLAPS

------------------------------------------------------------------------------
(* Heads and lines                                                          *)

\* The members of R whose phase, as told by f, is in S.
InPhase(R, f, S) == {r \in R : f[r] \in S}

\* How the number of members in S changes when one member goes from phase q
\* to phase p.
Shift(new, old, S, q, p) ==
  /\ (p \in S /\ q \in S) \/ (p \notin S /\ q \notin S) => new = old
  /\ p \in S /\ q \notin S => new = old + 1
  /\ p \notin S /\ q \in S => new = old - 1

\* The members of a finite set in some phases are finitely many.
LEMMA PhaseSizes ==
  ASSUME NEW R, IsFiniteSet(R), NEW f, NEW S
  PROVE  /\ IsFiniteSet(InPhase(R, f, S))
         /\ Cardinality(InPhase(R, f, S)) \in Nat
<1>1. InPhase(R, f, S) \in SUBSET R
  BY DEF InPhase
<1>2. IsFiniteSet(InPhase(R, f, S))
  BY <1>1, FS_Subset
<1>3. QED
  BY <1>2, FS_CardinalityType

\* A larger set of phases holds at least as many members.
LEMMA PhaseMonotone ==
  ASSUME NEW R, IsFiniteSet(R), NEW f, NEW S, NEW T \in SUBSET S
  PROVE  Cardinality(InPhase(R, f, T)) <= Cardinality(InPhase(R, f, S))
<1>1. InPhase(R, f, T) \in SUBSET InPhase(R, f, S)
  BY DEF InPhase
<1>2. QED
  BY <1>1, PhaseSizes, FS_Subset

\* Moving one member to phase p shifts the size of every set of phases.
LEMMA Move ==
  ASSUME NEW R, IsFiniteSet(R), NEW f, NEW r \in R, r \in DOMAIN f, NEW p, NEW S
  PROVE  Shift(Cardinality(InPhase(R, [f EXCEPT ![r] = p], S)),
               Cardinality(InPhase(R, f, S)), S, f[r], p)
<1> DEFINE old == InPhase(R, f, S)
           new == InPhase(R, [f EXCEPT ![r] = p], S)
<1>1. /\ IsFiniteSet(old)
      /\ Cardinality(old) \in Nat
  BY PhaseSizes
<1>2. r \in old <=> f[r] \in S
  BY DEF InPhase
<1>3. CASE p \in S
  <2>1. new = old \cup {r}
    BY <1>3 DEF InPhase
  <2>2. Cardinality(new) = IF r \in old THEN Cardinality(old) ELSE Cardinality(old) + 1
    BY <1>1, <2>1, FS_AddElement
  <2>3. QED
    BY <1>1, <1>2, <1>3, <2>2 DEF Shift
<1>4. CASE p \notin S
  <2>1. new = old \ {r}
    BY <1>4 DEF InPhase
  <2>2. Cardinality(new) = IF r \in old THEN Cardinality(old) - 1 ELSE Cardinality(old)
    BY <1>1, <2>1, FS_RemoveElement
  <2>3. QED
    BY <1>1, <1>2, <1>4, <2>2 DEF Shift
<1>5. QED
  BY <1>3, <1>4

\* A sequence without repetitions is as long as the set of its elements.
LEMMA DistinctLength ==
  ASSUME NEW S, NEW s \in Seq(S),
         \A i, j \in 1..Len(s) : s[i] = s[j] => i = j
  PROVE  Cardinality(ToSet(s)) = Len(s)
<1>1. Len(s) \in Nat /\ DOMAIN s = 1..Len(s)
  OBVIOUS
<1>2. s \in Bijection(1..Len(s), ToSet(s))
  BY <1>1 DEF ToSet, Bijection, Injection, IsInjective, Surjection
<1>3. ExistsBijection(1..Len(s), ToSet(s))
  BY <1>2 DEF ExistsBijection
<1>4. QED
  BY <1>1, <1>3, FS_CountingElements

\* Unlinking a waiter that is in the line once leaves the others, in order.
LEMMA Unlink ==
  ASSUME NEW S, NEW s \in Seq(S), NEW i \in 1..Len(s),
         \A j, k \in 1..Len(s) : s[j] = s[k] => j = k
  PROVE  LET t == RemoveAt(s, i)
         IN  /\ t \in Seq(S)
             /\ \A j, k \in 1..Len(t) : t[j] = t[k] => j = k
             /\ ToSet(t) = ToSet(s) \ {s[i]}
<1> DEFINE t == RemoveAt(s, i)
<1>1. /\ t \in Seq(S)
      /\ Len(t) = Len(s) - 1
      /\ \A j \in 1..Len(s) - 1 : t[j] = IF j < i THEN s[j] ELSE s[j+1]
  <2> DEFINE a == SubSeq(s, 1, i - 1)
             b == SubSeq(s, i + 1, Len(s))
  <2>1. /\ a \in Seq(S)
        /\ Len(a) = i - 1
        /\ \A j \in 1..i - 1 : a[j] = s[j]
    BY SubSeqProperties
  <2>2. /\ b \in Seq(S)
        /\ Len(b) = Len(s) - i
        /\ \A j \in 1..Len(s) - i : b[j] = s[i + j]
    BY SubSeqProperties
  <2>3. t = a \o b
    BY DEF RemoveAt
  <2> HIDE DEF a, b
  <2>4. t \in Seq(S) /\ Len(t) = Len(s) - 1
    BY <2>1, <2>2, <2>3
  <2>5. \A j \in 1..Len(s) - 1 : t[j] = IF j < i THEN s[j] ELSE s[j+1]
    BY <2>1, <2>2, <2>3
  <2>6. QED
    BY <2>4, <2>5
<1>2. \A j, k \in 1..Len(t) : t[j] = t[k] => j = k
  <2> SUFFICES ASSUME NEW j \in 1..Len(t), NEW k \in 1..Len(t), t[j] = t[k]
               PROVE  j = k
    OBVIOUS
  <2> DEFINE Place(n) == IF n < i THEN n ELSE n + 1
  <2>1. \A n \in 1..Len(t) : Place(n) \in 1..Len(s) /\ t[n] = s[Place(n)]
    BY <1>1
  <2>2. Place(j) = Place(k)
    BY <2>1
  <2>3. QED
    BY <2>2
<1>3. ToSet(t) \subseteq ToSet(s) \ {s[i]}
  BY <1>1 DEF ToSet
<1>4. ToSet(s) \ {s[i]} \subseteq ToSet(t)
  <2> SUFFICES ASSUME NEW j \in 1..Len(s), s[j] # s[i]
               PROVE  s[j] \in ToSet(t)
    BY DEF ToSet
  <2>1. CASE j < i
    BY <1>1, <2>1 DEF ToSet
  <2>2. CASE j > i
    <3>1. j - 1 \in 1..Len(t) /\ t[j - 1] = s[j]
      BY <1>1, <2>2
    <3>2. QED
      BY <1>1, <3>1 DEF ToSet
  <2>3. QED
    BY <2>1, <2>2
<1>5. QED
  BY <1>1, <1>2, <1>3, <1>4

------------------------------------------------------------------------------
(* Induction, and lists of dated entries                                    *)

\* Induction over the natural numbers for a property given as a set.
LEMMA SetInduction ==
  ASSUME NEW S, 0 \in S, \A n \in Nat : n \in S => n + 1 \in S
  PROVE  Nat \subseteq S
<1> DEFINE T == Nat \ S
<1> SUFFICES ASSUME T # {} PROVE FALSE
  OBVIOUS
<1>1. PICK x \in T : \A y \in T : ~ (<<y, x>> \in OpToRel(<, Nat))
  <2>1. T \subseteq Nat
    OBVIOUS
  <2> HIDE DEF T
  <2>2. QED
    BY <2>1, WFMin, NatLessThanWellFounded, Zenon
<1>2. x - 1 \in T
  OBVIOUS
<1>3. <<x - 1, x>> \in OpToRel(<, Nat)
  <2>1. x - 1 \in Nat /\ x \in Nat /\ x - 1 < x
    BY <1>2
  <2>2. QED
    BY <2>1, Zenon DEF OpToRel
<1>4. QED
  BY <1>1, <1>2, <1>3, Zenon

\* The equation of Within's recursion.
KeptUpTo(f, s, span, now, n) ==
  f = [i \in 0..n |->
         IF i = 0 THEN <<>>
         ELSE IF NotOlder(s[i], span, now) THEN Append(f[i - 1], s[i]) ELSE f[i - 1]]

LEMMA KeptExists ==
  ASSUME NEW s, NEW span, NEW now, NEW n \in Nat
  PROVE  \E f : KeptUpTo(f, s, span, now, n)
<1> DEFINE S == {m \in Nat : \E f : KeptUpTo(f, s, span, now, m)}
<1>1. 0 \in S
  <2>1. KeptUpTo([i \in 0..0 |-> <<>>], s, span, now, 0)
    BY DEF KeptUpTo
  <2>2. QED
    BY <2>1
<1>2. ASSUME NEW m \in Nat, m \in S PROVE m + 1 \in S
  <2>1. PICK f : KeptUpTo(f, s, span, now, m)
    BY <1>2
  <2> DEFINE last == IF NotOlder(s[m + 1], span, now) THEN Append(f[m], s[m + 1]) ELSE f[m]
             g == [i \in 0..m + 1 |-> IF i = m + 1 THEN last ELSE f[i]]
             Step(i) == IF i = 0 THEN <<>>
                        ELSE IF NotOlder(s[i], span, now) THEN Append(g[i - 1], s[i]) ELSE g[i - 1]
  <2>2. ASSUME NEW i \in 0..m + 1 PROVE g[i] = Step(i)
    <3>1. CASE i = m + 1
      <4>1. g[i - 1] = f[m] /\ g[i] = last
        BY <3>1
      <4>2. QED
        BY <3>1, <4>1
    <3>2. CASE i # m + 1
      <4>1. i \in 0..m /\ g[i] = f[i] /\ (i # 0 => g[i - 1] = f[i - 1])
        BY <3>2
      <4>2. f[i] = IF i = 0 THEN <<>>
                   ELSE IF NotOlder(s[i], span, now) THEN Append(f[i - 1], s[i]) ELSE f[i - 1]
        BY <2>1, <4>1, Zenon DEF KeptUpTo
      <4>3. QED
        BY <4>1, <4>2
    <3>3. QED
      BY <3>1, <3>2
  <2>3. g = [i \in 0..m + 1 |-> Step(i)]
    <3>1. g = [i \in 0..m + 1 |-> g[i]]
      OBVIOUS
    <3> HIDE DEF g, Step
    <3>2. QED
      BY <2>2, <3>1, Zenon
  <2>4. KeptUpTo(g, s, span, now, m + 1)
    <3> HIDE DEF g
    <3>1. QED
      BY <2>3, Zenon DEF KeptUpTo
  <2>5. QED
    BY <2>4
<1>3. Nat \subseteq S
  <2> HIDE DEF S
  <2>1. QED
    BY <1>1, <1>2, SetInduction
<1>4. QED
  BY <1>3

LEMMA KeptEquation ==
  ASSUME NEW f, NEW s, NEW span, NEW now, NEW n \in Nat, KeptUpTo(f, s, span, now, n)
  PROVE  /\ f[0] = <<>>
         /\ \A i \in 1..n : f[i] =
              IF NotOlder(s[i], span, now) THEN Append(f[i - 1], s[i]) ELSE f[i - 1]
<1>1. \A i \in 0..n : f[i] =
         IF i = 0 THEN <<>>
         ELSE IF NotOlder(s[i], span, now) THEN Append(f[i - 1], s[i]) ELSE f[i - 1]
  BY Zenon DEF KeptUpTo
<1>2. 0 \in 0..n /\ \A i \in 1..n : i \in 0..n /\ i # 0
  OBVIOUS
<1>3. QED
  BY <1>1, <1>2, Zenon

\* Two solutions agree as far as their sequences do.
LEMMA KeptUnique ==
  ASSUME NEW s, NEW t, NEW span, NEW now, NEW m \in Nat, NEW n \in Nat,
         NEW f, KeptUpTo(f, s, span, now, m), NEW g, KeptUpTo(g, t, span, now, n),
         m <= n, \A i \in 1..m : s[i] = t[i]
  PROVE  f[m] = g[m]
<1> DEFINE S == {i \in Nat : i <= m => f[i] = g[i]}
<1>1. 0 \in S
  BY KeptEquation
<1>2. ASSUME NEW i \in Nat, i \in S PROVE i + 1 \in S
  <2>1. CASE i + 1 <= m
    <3>1. i + 1 \in 1..m /\ i + 1 \in 1..n /\ i + 1 - 1 = i /\ f[i] = g[i]
      BY <1>2, <2>1
    <3>2. f[i + 1] = IF NotOlder(s[i + 1], span, now) THEN Append(f[i], s[i + 1]) ELSE f[i]
      BY <3>1, KeptEquation
    <3>3. g[i + 1] = IF NotOlder(t[i + 1], span, now) THEN Append(g[i], t[i + 1]) ELSE g[i]
      BY <3>1, KeptEquation
    <3>4. s[i + 1] = t[i + 1]
      BY <3>1
    <3>5. QED
      BY <3>1, <3>2, <3>3, <3>4
  <2>2. QED
    BY <2>1
<1>3. Nat \subseteq S
  <2> HIDE DEF S
  <2>1. QED
    BY <1>1, <1>2, SetInduction
<1>4. QED
  BY <1>3

LEMMA WithinKept ==
  ASSUME NEW U, NEW s \in Seq(U), NEW span, NEW now
  PROVE  \E f : KeptUpTo(f, s, span, now, Len(s)) /\ Within(s, span, now) = f[Len(s)]
<1>1. Len(s) \in Nat
  OBVIOUS
<1>2. \E f : KeptUpTo(f, s, span, now, Len(s))
  BY <1>1, KeptExists
<1>3. KeptUpTo(CHOOSE f : KeptUpTo(f, s, span, now, Len(s)), s, span, now, Len(s))
  BY <1>2, Zenon
<1>4. Within(s, span, now) = (CHOOSE f : KeptUpTo(f, s, span, now, Len(s)))[Len(s)]
  BY Zenon DEF Within, KeptUpTo
<1>5. QED
  BY <1>3, <1>4, Zenon

\* Of nothing, nothing stays.
LEMMA WithinEmpty ==
  ASSUME NEW span, NEW now
  PROVE  Within(<<>>, span, now) = <<>>
<1>1. <<>> \in Seq({}) /\ Len(<<>>) = 0
  OBVIOUS
<1>2. PICK f : KeptUpTo(f, <<>>, span, now, 0) /\ Within(<<>>, span, now) = f[0]
  BY <1>1, WithinKept
<1>3. QED
  BY <1>2, KeptEquation

\* A new entry is judged by itself.
LEMMA WithinAppend ==
  ASSUME NEW U, NEW s \in Seq(U), NEW e \in U, NEW span, NEW now
  PROVE  Within(Append(s, e), span, now) =
           IF NotOlder(e, span, now) THEN Append(Within(s, span, now), e)
           ELSE Within(s, span, now)
<1> DEFINE t == Append(s, e)
           n == Len(s)
<1>1. /\ n \in Nat /\ t \in Seq(U) /\ Len(t) = n + 1 /\ t[n + 1] = e
      /\ \A i \in 1..n : s[i] = t[i]
  OBVIOUS
<1> HIDE DEF t
<1>2. PICK f : KeptUpTo(f, s, span, now, n) /\ Within(s, span, now) = f[n]
  BY WithinKept
<1>3. PICK g : KeptUpTo(g, t, span, now, n + 1) /\ Within(t, span, now) = g[n + 1]
  BY <1>1, WithinKept
<1>4. f[n] = g[n]
  BY <1>1, <1>2, <1>3, KeptUnique
<1>5. g[n + 1] = IF NotOlder(e, span, now) THEN Append(g[n], e) ELSE g[n]
  BY <1>1, <1>3, KeptEquation
<1>6. QED
  BY <1>2, <1>3, <1>4, <1>5 DEF t

\* Induction over sequences, for a property given as a set.
LEMMA SeqInduction ==
  ASSUME NEW U, NEW S, <<>> \in S,
         \A s \in Seq(U) : s \in S => \A e \in U : Append(s, e) \in S
  PROVE  Seq(U) \subseteq S
<1> DEFINE N == {n \in Nat : \A s \in Seq(U) : Len(s) = n => s \in S}
<1>1. 0 \in N
  <2>1. \A s \in Seq(U) : Len(s) = 0 => s = <<>>
    OBVIOUS
  <2>2. QED
    BY <2>1
<1>2. ASSUME NEW n \in Nat, n \in N PROVE n + 1 \in N
  <2> SUFFICES ASSUME NEW s \in Seq(U), Len(s) = n + 1 PROVE s \in S
    OBVIOUS
  <2> DEFINE t == SubSeq(s, 1, n)
  <2>1. t \in Seq(U) /\ Len(t) = n /\ s[n + 1] \in U /\ s = Append(t, s[n + 1])
    OBVIOUS
  <2>2. t \in S
    BY <1>2, <2>1
  <2>3. QED
    BY <2>1, <2>2
<1>3. Nat \subseteq N
  <2> HIDE DEF N
  <2>1. QED
    BY <1>1, <1>2, SetInduction
<1>4. QED
  BY <1>3

\* What stays are entries of s that are fresh, and all of them.
LEMMA WithinElements ==
  ASSUME NEW U, NEW s \in Seq(U), NEW span, NEW now
  PROVE  LET w == Within(s, span, now)
         IN  /\ w \in Seq(U)
             /\ \A i \in 1..Len(w) : NotOlder(w[i], span, now)
             /\ \A k \in 1..Len(s) : NotOlder(s[k], span, now) => \E i \in 1..Len(w) : w[i] = s[k]
<1> DEFINE W(q) == Within(q, span, now)
           Elements(q) ==
             /\ W(q) \in Seq(U)
             /\ \A i \in 1..Len(W(q)) : NotOlder(W(q)[i], span, now)
             /\ \A k \in 1..Len(q) : NotOlder(q[k], span, now) => \E i \in 1..Len(W(q)) : W(q)[i] = q[k]
           S == {q \in Seq(U) : Elements(q)}
<1>1. <<>> \in S
  <2>1. W(<<>>) = <<>>
    BY WithinEmpty
  <2> HIDE DEF W
  <2>2. <<>> \in Seq(U) /\ Len(<<>>) = 0
    OBVIOUS
  <2>3. 1..0 = {}
    OBVIOUS
  <2>4. QED
    BY <2>1, <2>2, <2>3
<1>2. ASSUME NEW q \in Seq(U), q \in S, NEW e \in U PROVE Append(q, e) \in S
  <2>1. W(Append(q, e)) = IF NotOlder(e, span, now) THEN Append(W(q), e) ELSE W(q)
    BY WithinAppend
  <2>2. /\ W(q) \in Seq(U)
        /\ \A i \in 1..Len(W(q)) : NotOlder(W(q)[i], span, now)
        /\ \A k \in 1..Len(q) : NotOlder(q[k], span, now) => \E i \in 1..Len(W(q)) : W(q)[i] = q[k]
    BY <1>2
  <2> HIDE DEF W
  <2>3. CASE NotOlder(e, span, now)
    <3> DEFINE v == W(q)
               a == Append(q, e)
               w == Append(v, e)
    <3>1. W(a) = w
      BY <2>1, <2>3
    <3>2. /\ w \in Seq(U) /\ Len(w) = Len(v) + 1 /\ Len(v) \in Nat
          /\ w[Len(v) + 1] = e /\ \A i \in 1..Len(v) : w[i] = v[i]
      BY <2>2
    <3>3. /\ a \in Seq(U) /\ Len(a) = Len(q) + 1 /\ Len(q) \in Nat
          /\ a[Len(q) + 1] = e /\ \A i \in 1..Len(q) : a[i] = q[i]
      OBVIOUS
    <3>4. ASSUME NEW i \in 1..Len(w) PROVE NotOlder(w[i], span, now)
      BY <2>2, <2>3, <3>2
    <3>5. ASSUME NEW k \in 1..Len(a), NotOlder(a[k], span, now)
          PROVE  \E i \in 1..Len(w) : w[i] = a[k]
      <4>1. CASE k = Len(q) + 1
        BY <3>2, <3>3, <4>1
      <4>2. CASE k \in 1..Len(q)
        <5>1. PICK i \in 1..Len(v) : v[i] = q[k]
          BY <2>2, <3>3, <3>5, <4>2
        <5>2. i \in 1..Len(w) /\ w[i] = a[k]
          BY <3>2, <3>3, <4>2, <5>1
        <5>3. QED
          BY <5>2
      <4>3. QED
        BY <3>3, <4>1, <4>2
    <3>6. QED
      BY <3>1, <3>2, <3>3, <3>4, <3>5
  <2>4. CASE ~NotOlder(e, span, now)
    <3>1. W(Append(q, e)) = W(q)
      BY <2>1, <2>4
    <3> DEFINE a == Append(q, e)
    <3>2. /\ a \in Seq(U)
          /\ \A k \in 1..Len(a) : a[k] = e \/ (k \in 1..Len(q) /\ a[k] = q[k])
      OBVIOUS
    <3> HIDE DEF a
    <3>3. \A k \in 1..Len(a) : NotOlder(a[k], span, now) => \E i \in 1..Len(W(q)) : W(q)[i] = a[k]
      BY <2>2, <2>4, <3>2
    <3>4. W(a) = W(q)
      BY <3>1 DEF a
    <3>5. Elements(a)
      BY <2>2, <3>3, <3>4, Zenon
    <3>6. QED
      BY <3>2, <3>5 DEF a
  <2>5. QED
    BY <2>3, <2>4
<1>3. Seq(U) \subseteq S
  <2> HIDE DEF S
  <2>1. QED
    BY <1>1, <1>2, SeqInduction
<1>4. s \in S
  BY <1>3
<1>5. QED
  BY <1>4

\* Any two of w are two of s, in the same order.
KeepsOrder(w, s) ==
  /\ \A i \in 1..Len(w) : \E k \in 1..Len(s) : w[i] = s[k]
  /\ \A i, j \in 1..Len(w) : i < j =>
       \E k, l \in 1..Len(s) : k < l /\ w[i] = s[k] /\ w[j] = s[l]

\* What stays keeps its order.
LEMMA WithinOrder ==
  ASSUME NEW U, NEW s \in Seq(U), NEW span, NEW now
  PROVE  KeepsOrder(Within(s, span, now), s)
<1> DEFINE W(q) == Within(q, span, now)
           Ordered(q) == KeepsOrder(W(q), q)
           S == {q \in Seq(U) : Ordered(q)}
<1>1. <<>> \in S
  <2>1. W(<<>>) = <<>>
    BY WithinEmpty
  <2> HIDE DEF W
  <2>2. <<>> \in Seq(U) /\ Len(<<>>) = 0
    OBVIOUS
  <2>3. 1..0 = {}
    OBVIOUS
  <2>4. QED
    BY <2>1, <2>2, <2>3 DEF KeepsOrder
<1> USE DEF KeepsOrder
<1>2. ASSUME NEW q \in Seq(U), q \in S, NEW e \in U PROVE Append(q, e) \in S
  <2>1. W(Append(q, e)) = IF NotOlder(e, span, now) THEN Append(W(q), e) ELSE W(q)
    BY WithinAppend
  <2>2. W(q) \in Seq(U)
    BY WithinElements
  <2>3. Ordered(q)
    BY <1>2
  <2> DEFINE v == W(q)
             a == Append(q, e)
  <2>4. /\ a \in Seq(U) /\ Len(a) = Len(q) + 1 /\ Len(q) \in Nat
        /\ a[Len(q) + 1] = e /\ \A i \in 1..Len(q) : a[i] = q[i]
    OBVIOUS
  <2> HIDE DEF W
  <2>5. v \in Seq(U) /\ Len(v) \in Nat
    BY <2>2
  <2> HIDE DEF a, v
  <2>6. ASSUME NEW i \in 1..Len(v) PROVE \E k \in 1..Len(q) : v[i] = a[k]
    <3>1. PICK k \in 1..Len(q) : v[i] = q[k]
      BY <2>3 DEF v
    <3>2. QED
      BY <2>4, <3>1
  <2>7. ASSUME NEW i \in 1..Len(v), NEW j \in 1..Len(v), i < j
        PROVE  \E k, l \in 1..Len(a) : k < l /\ v[i] = a[k] /\ v[j] = a[l]
    <3>1. PICK k \in 1..Len(q), l \in 1..Len(q) : k < l /\ v[i] = q[k] /\ v[j] = q[l]
      BY <2>3, <2>7 DEF v
    <3>2. k \in 1..Len(a) /\ l \in 1..Len(a) /\ v[i] = a[k] /\ v[j] = a[l]
      BY <2>4, <3>1
    <3>3. QED
      BY <3>1, <3>2
  <2>8. CASE NotOlder(e, span, now)
    <3> DEFINE w == Append(v, e)
    <3>1. W(a) = w
      BY <2>1, <2>8 DEF a, v
    <3>2. /\ Len(w) = Len(v) + 1
          /\ w[Len(v) + 1] = e /\ \A i \in 1..Len(v) : w[i] = v[i]
      BY <2>5
    <3> HIDE DEF w
    <3>3. ASSUME NEW i \in 1..Len(w) PROVE \E k \in 1..Len(a) : w[i] = a[k]
      <4>1. CASE i = Len(v) + 1
        BY <2>4, <3>2, <4>1
      <4>2. CASE i \in 1..Len(v)
        <5>1. PICK k \in 1..Len(q) : v[i] = a[k]
          BY <2>6, <4>2
        <5>2. k \in 1..Len(a)
          BY <2>4
        <5>3. QED
          BY <3>2, <4>2, <5>1, <5>2
      <4>3. QED
        BY <2>5, <3>2, <4>1, <4>2
    <3>4. ASSUME NEW i \in 1..Len(w), NEW j \in 1..Len(w), i < j
          PROVE  \E k, l \in 1..Len(a) : k < l /\ w[i] = a[k] /\ w[j] = a[l]
      <4>1. i \in 1..Len(v) /\ w[i] = v[i]
        BY <2>5, <3>2, <3>4
      <4>2. CASE j = Len(v) + 1
        <5>1. PICK k \in 1..Len(q) : v[i] = a[k]
          BY <2>6, <4>1
        <5>2. k \in 1..Len(a) /\ Len(a) \in 1..Len(a) /\ k < Len(a) /\ w[j] = a[Len(a)]
          BY <2>4, <3>2, <4>2
        <5>3. QED
          BY <4>1, <5>1, <5>2
      <4>3. CASE j \in 1..Len(v)
        <5>1. w[j] = v[j]
          BY <3>2, <4>3
        <5>2. QED
          BY <2>7, <3>4, <4>1, <4>3, <5>1
      <4>4. QED
        BY <2>5, <3>2, <4>2, <4>3
    <3>5. Ordered(a)
      <4>1. \A i \in 1..Len(W(a)) : \E k \in 1..Len(a) : W(a)[i] = a[k]
        BY <3>1, <3>3, Zenon
      <4>2. \A i, j \in 1..Len(W(a)) : i < j =>
              \E k, l \in 1..Len(a) : k < l /\ W(a)[i] = a[k] /\ W(a)[j] = a[l]
        BY <3>1, <3>4, Zenon
      <4>3. QED
        BY <4>1, <4>2
    <3>6. QED
      BY <2>4, <3>5 DEF a
  <2>9. CASE ~NotOlder(e, span, now)
    <3>1. W(a) = v
      BY <2>1, <2>9 DEF a, v
    <3>2. ASSUME NEW i \in 1..Len(v) PROVE \E k \in 1..Len(a) : v[i] = a[k]
      <4>1. PICK k \in 1..Len(q) : v[i] = a[k]
        BY <2>6
      <4>2. k \in 1..Len(a)
        BY <2>4
      <4>3. QED
        BY <4>1, <4>2
    <3>3. Ordered(a)
      BY <2>7, <3>1, <3>2
    <3>4. QED
      BY <2>4, <3>3 DEF a
  <2>10. QED
    BY <2>8, <2>9
<1>3. Seq(U) \subseteq S
  <2> HIDE DEF S
  <2>1. QED
    BY <1>1, <1>2, SeqInduction
<1>4. s \in S
  BY <1>3
<1>5. QED
  BY <1>4

\* Removing twice removes what removing once does, later.
LEMMA WithinTwice ==
  ASSUME NEW U, \A e \in U : e.at \in Nat, NEW s \in Seq(U),
         NEW span \in Nat, NEW before \in Nat, NEW now \in Nat, before <= now
  PROVE  Within(Within(s, span, before), span, now) = Within(s, span, now)
<1> DEFINE S == {q \in Seq(U) : Within(Within(q, span, before), span, now) = Within(q, span, now)}
<1>1. <<>> \in S
  BY WithinEmpty
<1>2. ASSUME NEW q \in Seq(U), q \in S, NEW e \in U PROVE Append(q, e) \in S
  <2>1. Within(q, span, before) \in Seq(U)
    BY WithinElements
  <2>2. Within(Append(q, e), span, before) =
          IF NotOlder(e, span, before) THEN Append(Within(q, span, before), e)
          ELSE Within(q, span, before)
    BY WithinAppend
  <2>3. Within(Append(q, e), span, now) =
          IF NotOlder(e, span, now) THEN Append(Within(q, span, now), e)
          ELSE Within(q, span, now)
    BY WithinAppend
  <2>4. Within(Append(Within(q, span, before), e), span, now) =
          IF NotOlder(e, span, now) THEN Append(Within(q, span, now), e)
          ELSE Within(q, span, now)
    BY <1>2, <2>1, WithinAppend
  <2>5. NotOlder(e, span, now) => NotOlder(e, span, before)
    BY DEF NotOlder
  <2>6. Within(Within(q, span, before), span, now) = Within(q, span, now)
    BY <1>2
  <2>7. Within(Within(Append(q, e), span, before), span, now) = Within(Append(q, e), span, now)
    <3>1. CASE NotOlder(e, span, before)
      BY <2>2, <2>3, <2>4, <3>1, Zenon
    <3>2. CASE ~NotOlder(e, span, before)
      BY <2>2, <2>3, <2>5, <2>6, <3>2, Zenon
    <3>3. QED
      BY <3>1, <3>2
  <2>8. Append(q, e) \in Seq(U)
    OBVIOUS
  <2>9. QED
    BY <2>7, <2>8, Zenon
<1>3. Seq(U) \subseteq S
  <2> HIDE DEF S
  <2>1. QED
    BY <1>1, <1>2, SeqInduction
<1>4. QED
  BY <1>3

------------------------------------------------------------------------------
(* Lists of lists, end to end                                               *)

\* The equation of FlattenSeq's recursion.
FlatUpTo(f, ss, n) == f = [i \in 1..n |-> IF i = 1 THEN ss[i] ELSE f[i - 1] \o ss[i]]

LEMMA FlatExists == ASSUME NEW ss, NEW n \in Nat PROVE \E f : FlatUpTo(f, ss, n)
<1> DEFINE S == {m \in Nat : \E f : FlatUpTo(f, ss, m)}
<1>1. 0 \in S
  <2> DEFINE g == [i \in 1..0 |-> ss[i]]
  <2>1. g = [i \in 1..0 |-> IF i = 1 THEN ss[i] ELSE g[i - 1] \o ss[i]]
    OBVIOUS
  <2>2. FlatUpTo(g, ss, 0)
    <3> HIDE DEF g
    <3>1. QED
      BY <2>1, Zenon DEF FlatUpTo
  <2>3. QED
    BY <2>2
<1>2. ASSUME NEW m \in Nat, m \in S PROVE m + 1 \in S
  <2>1. PICK f : FlatUpTo(f, ss, m)
    BY <1>2
  <2> DEFINE g == [i \in 1..m + 1 |-> IF i = m + 1 THEN (IF m = 0 THEN ss[1] ELSE f[m] \o ss[m + 1])
                                      ELSE f[i]]
             Step(i) == IF i = 1 THEN ss[i] ELSE g[i - 1] \o ss[i]
  <2>2. ASSUME NEW i \in 1..m + 1 PROVE g[i] = Step(i)
    <3>1. CASE i = m + 1
      <4>1. m # 0 => g[m] = f[m]
        OBVIOUS
      <4>2. g[i] = IF m = 0 THEN ss[1] ELSE f[m] \o ss[m + 1]
        BY <3>1
      <4>3. (i = 1 <=> m = 0) /\ i - 1 = m
        BY <3>1
      <4>4. QED
        BY <3>1, <4>1, <4>2, <4>3, Zenon
    <3>2. CASE i # m + 1
      <4>1. i \in 1..m /\ g[i] = f[i] /\ (i # 1 => g[i - 1] = f[i - 1])
        BY <3>2
      <4>2. f[i] = IF i = 1 THEN ss[i] ELSE f[i - 1] \o ss[i]
        BY <2>1, <4>1, Zenon DEF FlatUpTo
      <4>3. QED
        BY <4>1, <4>2, Zenon
    <3>3. QED
      BY <3>1, <3>2
  <2>3. g = [i \in 1..m + 1 |-> Step(i)]
    <3>1. g = [i \in 1..m + 1 |-> g[i]]
      OBVIOUS
    <3> HIDE DEF g, Step
    <3>2. QED
      BY <2>2, <3>1, Zenon
  <2>4. FlatUpTo(g, ss, m + 1)
    <3> HIDE DEF g
    <3>1. QED
      BY <2>3, Zenon DEF FlatUpTo
  <2>5. QED
    BY <2>4
<1>3. Nat \subseteq S
  <2> HIDE DEF S
  <2>1. QED
    BY <1>1, <1>2, SetInduction
<1>4. QED
  BY <1>3

LEMMA FlatEquation ==
  ASSUME NEW f, NEW ss, NEW n \in Nat, FlatUpTo(f, ss, n), NEW i \in 1..n
  PROVE  f[i] = IF i = 1 THEN ss[1] ELSE f[i - 1] \o ss[i]
<1>1. f[i] = IF i = 1 THEN ss[i] ELSE f[i - 1] \o ss[i]
  BY Zenon DEF FlatUpTo
<1>2. QED
  BY <1>1, Zenon

\* Two solutions agree as far as their lists do.
LEMMA FlatUnique ==
  ASSUME NEW ss, NEW tt, NEW m \in Nat, NEW n \in Nat, NEW f, FlatUpTo(f, ss, m),
         NEW g, FlatUpTo(g, tt, n), m <= n, \A i \in 1..m : ss[i] = tt[i]
  PROVE  \A i \in 1..m : f[i] = g[i]
<1> DEFINE S == {i \in Nat : i \in 1..m => f[i] = g[i]}
<1>1. 0 \in S
  OBVIOUS
<1>2. ASSUME NEW i \in Nat, i \in S PROVE i + 1 \in S
  <2>1. CASE i + 1 \in 1..m
    <3>1. i + 1 \in 1..n /\ i + 1 - 1 = i /\ ss[i + 1] = tt[i + 1] /\ 1 \in 1..m
      BY <2>1
    <3>2. f[i + 1] = IF i + 1 = 1 THEN ss[1] ELSE f[i] \o ss[i + 1]
      BY <2>1, <3>1, FlatEquation
    <3>3. g[i + 1] = IF i + 1 = 1 THEN tt[1] ELSE g[i] \o tt[i + 1]
      BY <3>1, FlatEquation
    <3>4. i + 1 # 1 => f[i] = g[i]
      BY <1>2, <2>1
    <3>5. f[i + 1] = g[i + 1]
      <4>1. ss[1] = tt[1]
        BY <3>1
      <4>2. QED
        BY <3>1, <3>2, <3>3, <3>4, <4>1, Zenon
    <3>6. QED
      BY <3>5
  <2>2. QED
    BY <2>1
<1>3. Nat \subseteq S
  <2> HIDE DEF S
  <2>1. QED
    BY <1>1, <1>2, SetInduction
<1>4. QED
  BY <1>3

LEMMA Flattened ==
  ASSUME NEW ss, Len(ss) \in Nat, Len(ss) # 0
  PROVE  \E f : FlatUpTo(f, ss, Len(ss)) /\ FlattenSeq(ss) = f[Len(ss)]
<1>1. FlatUpTo(CHOOSE f : FlatUpTo(f, ss, Len(ss)), ss, Len(ss))
  BY FlatExists, Zenon
<1>2. FlattenSeq(ss) = (CHOOSE f : FlatUpTo(f, ss, Len(ss)))[Len(ss)]
  BY Zenon DEF FlattenSeq, FlatUpTo
<1>3. QED
  BY <1>1, <1>2, Zenon

LEMMA FlatEmpty == FlattenSeq(<<>>) = <<>>
<1>1. Len(<<>>) = 0
  OBVIOUS
<1>2. QED
  BY <1>1, Zenon DEF FlattenSeq

\* One list more at the end.
LEMMA FlatAppend ==
  ASSUME NEW U, NEW ss \in Seq(Seq(U)), NEW e \in Seq(U)
  PROVE  FlattenSeq(Append(ss, e)) = FlattenSeq(ss) \o e
<1> DEFINE tt == Append(ss, e)
           n == Len(ss)
<1>1. /\ n \in Nat /\ Len(tt) = n + 1 /\ tt[n + 1] = e /\ \A i \in 1..n : ss[i] = tt[i]
  OBVIOUS
<1> HIDE DEF tt
<1>2. PICK g : FlatUpTo(g, tt, n + 1) /\ FlattenSeq(tt) = g[n + 1]
  BY <1>1, Flattened
<1>3. g[n + 1] = IF n + 1 = 1 THEN tt[1] ELSE g[n] \o e
  <2>1. n + 1 \in Nat /\ n + 1 \in 1..n + 1 /\ n + 1 - 1 = n
    BY <1>1
  <2>2. g[n + 1] = IF n + 1 = 1 THEN tt[1] ELSE g[n + 1 - 1] \o tt[n + 1]
    BY <1>2, <2>1, FlatEquation
  <2>3. QED
    BY <1>1, <2>1, <2>2, Zenon
<1>4. CASE n = 0
  <2>1. ss = <<>>
    BY <1>4
  <2>2. FlattenSeq(tt) = e
    BY <1>1, <1>2, <1>3, <1>4
  <2>3. <<>> \o e = e
    OBVIOUS
  <2>4. QED
    BY <2>1, <2>2, <2>3, FlatEmpty, Zenon DEF tt
<1>5. CASE n # 0
  <2>1. PICK f : FlatUpTo(f, ss, n) /\ FlattenSeq(ss) = f[n]
    BY <1>1, <1>5, Flattened
  <2>2. f[n] = g[n]
    <3>1. n \in 1..n /\ n + 1 \in Nat /\ n <= n + 1
      BY <1>1, <1>5
    <3> HIDE DEF n
    <3>2. \A i \in 1..n : f[i] = g[i]
      BY <1>1, <1>2, <2>1, <3>1, FlatUnique
    <3>3. QED
      BY <3>1, <3>2
  <2>3. g[n + 1] = g[n] \o e
    BY <1>1, <1>3, <1>5
  <2>4. QED
    BY <1>2, <2>1, <2>2, <2>3, Zenon DEF tt
<1>6. QED
  BY <1>4, <1>5

LEMMA FlatTyped == ASSUME NEW U, NEW ss \in Seq(Seq(U)) PROVE FlattenSeq(ss) \in Seq(U)
<1> DEFINE S == {tt \in Seq(Seq(U)) : FlattenSeq(tt) \in Seq(U)}
<1>1. <<>> \in S
  <2>1. <<>> \in Seq(Seq(U)) /\ <<>> \in Seq(U)
    OBVIOUS
  <2>2. QED
    BY <2>1, FlatEmpty, Zenon
<1>2. ASSUME NEW tt \in Seq(Seq(U)), tt \in S, NEW e \in Seq(U) PROVE Append(tt, e) \in S
  <2>1. Append(tt, e) \in Seq(Seq(U))
    OBVIOUS
  <2> DEFINE flat == FlattenSeq(tt)
  <2>2. flat \in Seq(U) /\ FlattenSeq(Append(tt, e)) = flat \o e
    BY <1>2, FlatAppend
  <2> HIDE DEF flat
  <2>3. flat \o e \in Seq(U)
    BY <2>2
  <2>4. QED
    BY <2>1, <2>2, <2>3
<1>3. Seq(Seq(U)) \subseteq S
  <2> HIDE DEF S
  <2>1. QED
    BY <1>1, <1>2, SeqInduction
<1>4. QED
  BY <1>3

LEMMA FlatConcat ==
  ASSUME NEW U, NEW ss \in Seq(Seq(U)), NEW tt \in Seq(Seq(U))
  PROVE  FlattenSeq(ss \o tt) = FlattenSeq(ss) \o FlattenSeq(tt)
<1> DEFINE S == {uu \in Seq(Seq(U)) : FlattenSeq(ss \o uu) = FlattenSeq(ss) \o FlattenSeq(uu)}
<1>1. <<>> \in S
  <2> DEFINE flat == FlattenSeq(ss)
  <2>1. flat \in Seq(U)
    BY FlatTyped
  <2> HIDE DEF flat
  <2>2. ss \o <<>> = ss /\ flat \o <<>> = flat /\ <<>> \in Seq(Seq(U))
    BY <2>1
  <2>3. QED
    BY <2>2, FlatEmpty, Zenon DEF flat
<1>2. ASSUME NEW uu \in Seq(Seq(U)), uu \in S, NEW e \in Seq(U) PROVE Append(uu, e) \in S
  <2>1. ss \o Append(uu, e) = Append(ss \o uu, e) /\ ss \o uu \in Seq(Seq(U))
    OBVIOUS
  <2>2. FlattenSeq(ss \o Append(uu, e)) = FlattenSeq(ss \o uu) \o e
    BY <2>1, FlatAppend
  <2>3. FlattenSeq(Append(uu, e)) = FlattenSeq(uu) \o e
    BY FlatAppend
  <2> DEFINE a == FlattenSeq(ss)
             b == FlattenSeq(uu)
  <2>4. a \in Seq(U) /\ b \in Seq(U) /\ FlattenSeq(ss \o uu) = a \o b
    BY <1>2, FlatTyped
  <2> HIDE DEF a, b
  <2>5. (a \o b) \o e = a \o (b \o e)
    BY <2>4
  <2>6. FlattenSeq(ss \o Append(uu, e)) = a \o FlattenSeq(Append(uu, e))
    BY <2>2, <2>3, <2>4, <2>5, Zenon DEF b
  <2>7. Append(uu, e) \in Seq(Seq(U))
    OBVIOUS
  <2>8. QED
    BY <2>6, <2>7, Zenon DEF a
<1>3. Seq(Seq(U)) \subseteq S
  <2> HIDE DEF S
  <2>1. QED
    BY <1>1, <1>2, SeqInduction
<1>4. QED
  BY <1>3
==============================================================================
