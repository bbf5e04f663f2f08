----------------------------- MODULE RelayProofs -----------------------------
(***************************************************************************)
(* Proofs about DiagnosticRelay, and about the hasher and the feed it is   *)
(* composed with, for any number of requests, codes, days and entries.     *)
(***************************************************************************)
EXTENDS DiagnosticRelay, ProofLemmas

------------------------------------------------------------------------------
(* The hasher                                                               *)

\* A key belongs to one day because it is used only by calls that read that
\* day: _day is always the day of the last key.
HashInv ==
  /\ clock \in Nat \ {0}
  /\ pc \in [Calls -> {"idle", "locking", "done"}]
  /\ today \in [Calls -> Nat]
  /\ made \in Seq(Nat)
  /\ used \in [Calls -> Nat]
  /\ \A r \in Calls : pc[r] # "idle" => today[r] # 0
  /\ day = IF made = <<>> THEN 0 ELSE made[Len(made)]
  /\ \A r \in Calls : pc[r] = "done" =>
       used[r] \in 1..Len(made) /\ made[used[r]] = today[r]
  /\ RotatedByAnotherDay

LEMMA InitHashInv == Init => HashInv
BY DEF Init, HashInv, RotatedByAnotherDay

LEMMA NextHashInv == HashInv /\ [Next]_vars => HashInv'
<1> SUFFICES ASSUME HashInv, [Next]_vars PROVE HashInv'
  OBVIOUS
<1>1. CASE Midnight
  BY <1>1 DEF Midnight, HashInv, RotatedByAnotherDay
<1>2. ASSUME NEW r \in Calls, ReadDay(r) PROVE HashInv'
  BY <1>2 DEF ReadDay, HashInv, RotatedByAnotherDay
<1>3. ASSUME NEW r \in Calls, CurrentKey(r) PROVE HashInv'
  <2>1. /\ made \in Seq(Nat)
        /\ today[r] \in Nat \ {0}
        /\ day = IF made = <<>> THEN 0 ELSE made[Len(made)]
        /\ RotatedByAnotherDay
    BY <1>3 DEF HashInv, CurrentKey
  <2>2. CASE today[r] # day
    <3>1. made' = Append(made, today[r])
      BY <1>3, <2>2 DEF CurrentKey, Rotated
    <3>2. /\ made' \in Seq(Nat)
          /\ Len(made') = Len(made) + 1
          /\ \A k \in 1..Len(made) : made'[k] = made[k]
          /\ made'[Len(made')] = today[r]
      BY <2>1, <3>1
    <3>3. RotatedByAnotherDay'
      <4> SUFFICES ASSUME NEW k \in 1..Len(made') - 1 PROVE made'[k] # made'[k + 1]
        BY DEF RotatedByAnotherDay
      <4>1. CASE k < Len(made)
        <5>1. k \in 1..Len(made) - 1 /\ k \in 1..Len(made) /\ k + 1 \in 1..Len(made)
          BY <2>1, <4>1
        <5>2. made'[k] = made[k] /\ made'[k + 1] = made[k + 1]
          BY <3>2, <5>1
        <5>3. made[k] # made[k + 1]
          BY <2>1, <5>1 DEF RotatedByAnotherDay
        <5>4. QED
          BY <5>2, <5>3
      <4>2. CASE k = Len(made)
        <5>1. /\ Len(made) \in Nat
              /\ Len(made) # 0
              /\ made # <<>>
          BY <2>1, <4>2
        <5>2. made[Len(made)] = day
          BY <2>1, <5>1
        <5>3. made'[k] = day /\ k + 1 = Len(made')
          BY <3>2, <4>2, <5>1, <5>2
        <5>4. QED
          BY <2>2, <3>2, <5>3
      <4>3. QED
        BY <2>1, <3>2, <4>1, <4>2
    <3>4. \A q \in Calls : pc'[q] = "done" =>
            used'[q] \in 1..Len(made') /\ made'[used'[q]] = today'[q]
      <4> SUFFICES ASSUME NEW q \in Calls, pc'[q] = "done"
                   PROVE  used'[q] \in 1..Len(made') /\ made'[used'[q]] = today'[q]
        OBVIOUS
      <4>1. Len(made) \in Nat /\ Len(made') = Len(made) + 1
        BY <2>1, <3>2
      <4>2. CASE q = r
        <5>1. used'[q] = Len(made') /\ today'[q] = today[r]
          BY <1>3, <4>2 DEF HashInv, CurrentKey
        <5>2. QED
          BY <3>2, <4>1, <5>1
      <4>3. CASE q # r
        <5>1. pc[q] = "done" /\ used'[q] = used[q] /\ today'[q] = today[q]
          BY <1>3, <4>3 DEF HashInv, CurrentKey
        <5>2. used[q] \in 1..Len(made) /\ made[used[q]] = today[q]
          BY <5>1 DEF HashInv
        <5>3. QED
          BY <3>2, <4>1, <5>1, <5>2
      <4>4. QED
        BY <4>2, <4>3
    <3>5. day' = IF made' = <<>> THEN 0 ELSE made'[Len(made')]
      <4>1. made' # <<>> /\ day' = today[r]
        BY <1>3, <2>1, <3>2 DEF CurrentKey
      <4>2. QED
        BY <3>2, <4>1
    <3>6. used' \in [Calls -> Nat] /\ Len(made') \in Nat
      BY <1>3, <3>2 DEF HashInv, CurrentKey
    <3>7. /\ clock' \in Nat \ {0}
          /\ pc' \in [Calls -> {"idle", "locking", "done"}]
          /\ today' \in [Calls -> Nat]
          /\ \A q \in Calls : pc'[q] # "idle" => today'[q] # 0
      BY <1>3 DEF HashInv, CurrentKey
    <3>8. QED
      BY <3>2, <3>3, <3>4, <3>5, <3>6, <3>7 DEF HashInv
  <2>3. CASE today[r] = day
    <3>1. made' = made /\ made # <<>> /\ Len(made) \in 1..Len(made)
      BY <1>3, <2>1, <2>3 DEF CurrentKey, Rotated
    <3>2. QED
      BY <1>3, <2>1, <2>3, <3>1 DEF HashInv, CurrentKey, RotatedByAnotherDay
  <2>4. QED
    BY <2>2, <2>3
<1>4. CASE UNCHANGED vars
  BY <1>4 DEF vars, HashInv, RotatedByAnotherDay
<1>5. QED
  BY <1>1, <1>2, <1>3, <1>4 DEF Next

\* No two days share a key, although Hash reads the day before it takes the lock.
THEOREM DaysUnlinkable == Spec => []UnlinkableAcrossDays
<1>1. HashInv => UnlinkableAcrossDays
  BY DEF HashInv, UnlinkableAcrossDays
<1>2. QED
  BY <1>1, InitHashInv, NextHashInv, PTL DEF Spec

\* A key is replaced only for a call that read another day.
THEOREM RotationsAlternate == Spec => []RotatedByAnotherDay
<1>1. HashInv => RotatedByAnotherDay
  BY DEF HashInv
<1>2. QED
  BY <1>1, InitHashInv, NextHashInv, PTL DEF Spec

------------------------------------------------------------------------------
(* The feed                                                                 *)

\* Within, as ActivityLog has it, is Within.
LEMMA FeedWithin ==
  Feed!Pruned = Within(items, Retention, wall)
BY Zenon DEF Feed!Pruned, Feed!Within, Within, Feed!NotOlder, NotOlder

\* KeptUnlessOld needs the ids: an entry that falls off the end is followed by
\* MaxItems newer ones.
FeedInv ==
  /\ wall \in Nat /\ highest \in Nat /\ wall <= highest
  /\ adding \in BOOLEAN
  /\ items \in Seq(Feed!Entry) /\ added \in Seq(Feed!Entry)
  /\ shown.items \in Seq(Feed!Entry)
  /\ \A k \in 1..Len(added) : added[k].id = k /\ added[k].at <= highest
  /\ \A i \in 1..Len(items) : items[i].id \in 1..Len(added) /\ items[i] = added[items[i].id]
  /\ FeedExact

\* What an entry consists of.
LEMMA EntryFields == \A e \in Feed!Entry : e.id \in Nat /\ e.at \in Nat
BY DEF Feed!Entry

LEMMA FeedInitInv == RelayInit => FeedInv
<1> SUFFICES ASSUME FeedAsFound PROVE FeedInv
  BY DEF RelayInit
<1> USE RelayAssumption
<1>1. CASE Feed!Init
  <2>1. /\ wall = 0 /\ highest = 0 /\ adding = FALSE /\ items = <<>> /\ added = <<>>
        /\ shown.items = <<>>
    BY <1>1 DEF Feed!Init
  <2>2. <<>> \in Seq(Feed!Entry) /\ Len(<<>>) = 0
    OBVIOUS
  <2>3. FeedExact
    BY <2>1, <2>2 DEF FeedExact, Feed!ShownIsRecent, Feed!NewestFirst, Feed!KeptUnlessOld
  <2>4. \A k \in 1..Len(<<>>) : FALSE
    BY <2>2
  <2>5. 0 \in Nat /\ 0 <= 0
    OBVIOUS
  <2>6. QED
    BY <2>1, <2>2, <2>3, <2>4, <2>5, Zenon DEF FeedInv
<1>2. ASSUME NEW t \in 0..MaxTime,
             wall = t, highest = t, adding = FALSE,
             added = <<[id |-> 1, at |-> t]>>, items = added,
             shown = [items |-> <<>>, at |-> 0]
      PROVE  FeedInv
  <2>1. /\ added \in Seq(Feed!Entry) /\ Len(added) = 1 /\ added[1].id = 1 /\ added[1].at = t
        /\ t \in Nat
    BY <1>2 DEF Feed!Entry
  <2>2. shown.items = <<>> /\ Len(shown.items) = 0 /\ shown.items \in Seq(Feed!Entry)
    BY <1>2
  <2>3. FeedExact
    BY <1>2, <2>1, <2>2 DEF FeedExact, Feed!ShownIsRecent, Feed!NewestFirst, Feed!KeptUnlessOld
  <2>4. wall \in Nat /\ highest \in Nat /\ wall <= highest /\ adding \in BOOLEAN
    <3>1. wall = t /\ highest = t /\ adding = FALSE
      BY <1>2, Zenon
    <3>2. t <= t
      BY <2>1
    <3>3. QED
      BY <2>1, <3>1, <3>2, Zenon
  <2>5. /\ \A k \in 1..Len(added) : added[k].id = k /\ added[k].at <= highest
        /\ \A i \in 1..Len(items) : items[i].id \in 1..Len(added) /\ items[i] = added[items[i].id]
    <3>1. \A k \in 1..1 : k = 1
      OBVIOUS
    <3>2. QED
      BY <1>2, <2>1, <3>1
  <2>6. QED
    BY <1>2, <2>1, <2>2, <2>3, <2>4, <2>5 DEF FeedInv
<1>3. QED
  BY <1>1, <1>2 DEF FeedAsFound

\* In a list whose ids decrease from n at most, the i-th is at most n + 1 - i.
LEMMA Decreasing ==
  ASSUME NEW s \in Seq(Feed!Entry), NEW n \in Nat,
         \A i, j \in 1..Len(s) : i < j => s[i].id > s[j].id,
         \A i \in 1..Len(s) : s[i].id <= n
  PROVE  \A i \in 1..Len(s) : s[i].id + i <= n + 1
<1> DEFINE S == {m \in Nat : m \in 1..Len(s) => s[m].id + m <= n + 1}
<1>1. 0 \in S
  OBVIOUS
<1>2. \A m \in Nat : m \in S => m + 1 \in S
  <2> SUFFICES ASSUME NEW m \in Nat, m \in S, m + 1 \in 1..Len(s)
               PROVE  s[m + 1].id + (m + 1) <= n + 1
    OBVIOUS
  <2>1. s[m + 1] \in Feed!Entry /\ s[m + 1].id \in Nat
    BY EntryFields
  <2>2. CASE m = 0
    BY <2>1, <2>2
  <2>3. CASE m # 0
    <3>1. m \in 1..Len(s) /\ m < m + 1
      BY <2>3
    <3>2. s[m].id \in Nat /\ s[m].id > s[m + 1].id
      BY <3>1, EntryFields
    <3>3. s[m].id + m <= n + 1
      BY <3>1
    <3>4. QED
      BY <2>1, <3>2, <3>3
  <2>4. QED
    BY <2>2, <2>3
<1>3. Nat \subseteq S
  <2> HIDE DEF S
  <2>1. QED
    BY <1>1, <1>2, SetInduction
<1>4. QED
  BY <1>3

\* Pruning drops nothing but what is too old, and keeps the order.
LEMMA PruneKeeps ==
  ASSUME FeedInv, items' = Feed!Pruned, UNCHANGED <<wall, highest, added>>
  PROVE  /\ items' \in Seq(Feed!Entry)
         /\ \A i \in 1..Len(items') : items'[i].at + Retention >= wall
         /\ \A i \in 1..Len(items') :
              items'[i].id \in 1..Len(added) /\ items'[i] = added[items'[i].id]
         /\ Feed!NewestFirst'
         /\ Feed!KeptUnlessOld'
<1> DEFINE w == Within(items, Retention, wall)
<1> HIDE DEF w
<1>1. items' = w /\ items \in Seq(Feed!Entry)
  BY FeedWithin DEF FeedInv, w
<1>2. /\ w \in Seq(Feed!Entry)
      /\ \A i \in 1..Len(w) : NotOlder(w[i], Retention, wall)
      /\ \A k \in 1..Len(items) : NotOlder(items[k], Retention, wall) => \E i \in 1..Len(w) : w[i] = items[k]
  BY <1>1, WithinElements DEF w
<1>3. /\ \A i \in 1..Len(w) : \E k \in 1..Len(items) : w[i] = items[k]
      /\ \A i, j \in 1..Len(w) : i < j =>
            \E k, l \in 1..Len(items) : k < l /\ w[i] = items[k] /\ w[j] = items[l]
  <2> DEFINE U == Feed!Entry
  <2>1. items \in Seq(U)
    BY <1>1
  <2> HIDE DEF U
  <2>2. KeepsOrder(w, items)
    BY <2>1, WithinOrder DEF w
  <2>3. QED
    BY <2>2 DEF KeepsOrder
<1>4. Feed!NewestFirst'
  <2>1. ASSUME NEW i \in 1..Len(w), NEW j \in 1..Len(w), i < j PROVE w[i].id > w[j].id
    <3>1. PICK k \in 1..Len(items), l \in 1..Len(items) :
            k < l /\ w[i] = items[k] /\ w[j] = items[l]
      BY <1>3, <2>1
    <3>2. items[k].id > items[l].id
      BY <3>1 DEF FeedInv, FeedExact, Feed!NewestFirst
    <3>3. QED
      BY <3>1, <3>2
  <2>2. QED
    BY <1>1, <2>1 DEF Feed!NewestFirst
<1>5. ASSUME NEW i \in 1..Len(w)
      PROVE  w[i].id \in 1..Len(added) /\ w[i] = added[w[i].id]
  <2>1. PICK k \in 1..Len(items) : w[i] = items[k]
    BY <1>3
  <2>2. QED
    BY <2>1 DEF FeedInv
<1>6. ASSUME NEW k \in 1..Len(added), k + MaxItems > Len(added)
      PROVE  (\E i \in 1..Len(w) : w[i] = added[k]) \/ added[k].at + Retention < highest
  <2>1. CASE added[k].at + Retention < highest
    BY <2>1
  <2>2. CASE \E i \in 1..Len(items) : items[i] = added[k]
    <3>1. PICK i \in 1..Len(items) : items[i] = added[k]
      BY <2>2
    <3>2. CASE NotOlder(items[i], Retention, wall)
      <4>1. PICK j \in 1..Len(w) : w[j] = items[i]
        BY <1>2, <3>2
      <4>2. QED
        BY <3>1, <4>1
    <3>3. CASE ~NotOlder(items[i], Retention, wall)
      <4>1. /\ added[k].at \in Nat /\ wall \in Nat /\ highest \in Nat /\ wall <= highest
            /\ Retention \in Nat
        <5>1. added[k] \in Feed!Entry
          BY DEF FeedInv
        <5>2. QED
          BY <5>1, EntryFields, RelayAssumption DEF FeedInv
      <4>2. ~(added[k].at + Retention >= wall)
        BY <3>1, <3>3 DEF NotOlder
      <4>3. QED
        BY <4>1, <4>2
    <3>4. QED
      BY <3>2, <3>3
  <2>3. QED
    BY <1>6, <2>1, <2>2 DEF FeedInv, FeedExact, Feed!KeptUnlessOld
<1>7. Feed!KeptUnlessOld'
  BY <1>1, <1>6 DEF Feed!KeptUnlessOld
<1>8. \A i \in 1..Len(w) : w[i].at + Retention >= wall
  BY <1>2 DEF NotOlder
<1>9. QED
  BY <1>1, <1>2, <1>4, <1>5, <1>7, <1>8

\* What falls off the end is not among the last MaxItems entries.
LEMMA InsertKeeps == ASSUME FeedInv, Feed!AddInserts PROVE FeedInv'
<1> DEFINE n == Len(added)
           entry == [id |-> n + 1, at |-> wall]
           w == <<entry>> \o items
           m == Len(items)
<1>1. /\ n \in Nat /\ m \in Nat /\ wall \in Nat /\ highest \in Nat /\ wall <= highest
      /\ items \in Seq(Feed!Entry) /\ added \in Seq(Feed!Entry) /\ MaxItems \in Nat \ {0}
      /\ Retention \in Nat
  BY RelayAssumption DEF FeedInv
<1>2. /\ adding' = FALSE /\ added' = Append(added, entry) /\ items' = Feed!Capped(w)
      /\ UNCHANGED <<wall, highest, shown>>
  BY Zenon DEF Feed!AddInserts, Feed!With
<1>3. entry \in Feed!Entry /\ entry.id = n + 1 /\ entry.at = wall
  BY <1>1 DEF Feed!Entry
<1> HIDE DEF entry
<1>4. /\ w \in Seq(Feed!Entry) /\ Len(w) = m + 1 /\ w[1] = entry
      /\ \A i \in 1..m : w[i + 1] = items[i]
  BY <1>1, <1>3
<1>5. /\ added' \in Seq(Feed!Entry) /\ Len(added') = n + 1 /\ added'[n + 1] = entry
      /\ \A k \in 1..n : added'[k] = added[k]
  BY <1>1, <1>2, <1>3
<1> HIDE DEF w
<1>6. /\ items' \in Seq(Feed!Entry)
      /\ Len(items') = IF m + 1 > MaxItems THEN MaxItems ELSE m + 1
      /\ \A i \in 1..Len(items') : i \in 1..m + 1 /\ items'[i] = w[i]
  BY <1>1, <1>2, <1>4 DEF Feed!Capped
<1>7. \A k \in 1..n + 1 : added'[k].id = k /\ added'[k].at <= highest
  <2>1. ASSUME NEW k \in 1..n + 1, k # n + 1 PROVE k \in 1..n
    BY <1>1, <2>1
  <2>2. \A k \in 1..n : added[k].id = k /\ added[k].at <= highest
    BY DEF FeedInv
  <2>3. QED
    BY <1>1, <1>3, <1>5, <2>1, <2>2
<1>8. ASSUME NEW i \in 1..m + 1 PROVE w[i].id \in 1..n + 1 /\ w[i] = added'[w[i].id]
  <2>1. CASE i = 1
    BY <1>1, <1>3, <1>4, <1>5, <2>1
  <2>2. CASE i # 1
    <3>1. i - 1 \in 1..m /\ w[i] = items[i - 1]
      BY <1>1, <1>4, <2>2
    <3>2. items[i - 1].id \in 1..n /\ items[i - 1] = added[items[i - 1].id]
      BY <3>1 DEF FeedInv
    <3>3. QED
      BY <1>1, <1>5, <3>1, <3>2
  <2>3. QED
    BY <2>1, <2>2
<1>9. ASSUME NEW i \in 1..m + 1, NEW j \in 1..m + 1, i < j PROVE w[i].id > w[j].id
  <2>1. j - 1 \in 1..m /\ w[j] = items[j - 1] /\ items[j - 1].id \in 1..n
    BY <1>1, <1>4, <1>9 DEF FeedInv
  <2>2. CASE i = 1
    BY <1>1, <1>3, <1>4, <2>1, <2>2
  <2>3. CASE i # 1
    <3>1. i - 1 \in 1..m /\ w[i] = items[i - 1] /\ i - 1 < j - 1
      BY <1>1, <1>4, <1>9, <2>3
    <3>2. items[i - 1].id > items[j - 1].id
      BY <2>1, <3>1 DEF FeedInv, FeedExact, Feed!NewestFirst
    <3>3. QED
      BY <2>1, <3>1, <3>2
  <2>4. QED
    BY <2>2, <2>3
<1>10. \A i \in 1..m + 1 : w[i].id + i <= n + 2
  <2> HIDE DEF n, m
  <2>1. \A i \in 1..Len(w) : w[i].id <= n + 1
    BY <1>1, <1>4, <1>8
  <2>2. \A i, j \in 1..Len(w) : i < j => w[i].id > w[j].id
    BY <1>4, <1>9
  <2>3. \A i \in 1..Len(w) : w[i].id + i <= n + 1 + 1
    <3>1. n + 1 \in Nat /\ w \in Seq(Feed!Entry)
      BY <1>1, <1>4
    <3>2. QED
      BY <2>1, <2>2, <3>1, Decreasing, Zenon
  <2>4. QED
    BY <1>1, <1>4, <2>3
<1>11. ASSUME NEW k \in 1..n + 1, k + MaxItems > n + 1
       PROVE  (\E i \in 1..Len(items') : items'[i] = added'[k]) \/ added'[k].at + Retention < highest
  <2>1. CASE k = n + 1
    <3>1. 1 \in 1..Len(items')
      BY <1>1, <1>6
    <3>2. items'[1] = added'[k]
      BY <1>4, <1>5, <1>6, <2>1, <3>1
    <3>3. QED
      BY <3>1, <3>2
  <2>2. CASE k # n + 1
    <3>1. k \in 1..n /\ k + MaxItems > n /\ added'[k] = added[k]
      BY <1>1, <1>5, <1>11, <2>2
    <3>2. CASE \E i \in 1..m : items[i] = added[k]
      <4>1. PICK i \in 1..m : items[i] = added[k]
        BY <3>2
      <4>2. w[i + 1] = added[k] /\ i + 1 \in 1..m + 1 /\ w[i + 1].id = k
        BY <1>1, <1>4, <3>1, <4>1 DEF FeedInv
      <4>3. k + i + 1 <= n + 2
        BY <1>1, <1>10, <4>2
      <4>4. i + 1 \in 1..Len(items')
        BY <1>1, <1>6, <1>11, <4>2, <4>3
      <4>5. items'[i + 1] = added'[k]
        BY <1>6, <3>1, <4>2, <4>4
      <4>6. QED
        BY <4>4, <4>5
    <3>3. QED
      BY <3>1, <3>2 DEF FeedInv, FeedExact, Feed!KeptUnlessOld
  <2>3. QED
    BY <2>1, <2>2
<1>12. FeedExact'
  <2>1. Feed!NewestFirst'
    BY <1>6, <1>9 DEF Feed!NewestFirst
  <2>2. Feed!KeptUnlessOld'
    BY <1>2, <1>5, <1>11 DEF Feed!KeptUnlessOld
  <2>3. Feed!ShownIsRecent'
    BY <1>2 DEF FeedInv, FeedExact, Feed!ShownIsRecent
  <2>4. QED
    BY <2>1, <2>2, <2>3 DEF FeedExact
<1>13. \A i \in 1..Len(items') : items'[i].id \in 1..Len(added') /\ items'[i] = added'[items'[i].id]
  BY <1>5, <1>6, <1>8
<1>14. QED
  BY <1>1, <1>2, <1>5, <1>6, <1>7, <1>12, <1>13 DEF FeedInv

\* The clock may step back; what it once showed it has shown.
LEMMA FeedNext == ASSUME FeedInv, [Feed!Next]_(Feed!vars) PROVE FeedInv'
<1>1. ASSUME NEW t \in 0..MaxTime, Feed!SetClock(t) PROVE FeedInv'
  <2>1. /\ wall' = t /\ highest' = IF t > highest THEN t ELSE highest
        /\ UNCHANGED <<adding, items, added, shown>> /\ t \in Nat
    BY <1>1, RelayAssumption DEF Feed!SetClock
  <2>2. wall' \in Nat /\ highest' \in Nat /\ wall' <= highest' /\ highest <= highest'
    BY <2>1 DEF FeedInv
  <2>3. \A k \in 1..Len(added) : added[k].at \in Nat
    BY EntryFields DEF FeedInv
  <2>4. \A k \in 1..Len(added) : added[k].id = k /\ added[k].at <= highest'
    BY <2>2, <2>3 DEF FeedInv
  <2>5. Feed!KeptUnlessOld'
    BY <2>1, <2>2, <2>3, RelayAssumption DEF FeedInv, FeedExact, Feed!KeptUnlessOld
  <2>6. Feed!ShownIsRecent' /\ Feed!NewestFirst'
    BY <2>1 DEF FeedInv, FeedExact, Feed!ShownIsRecent, Feed!NewestFirst
  <2>7. QED
    BY <2>1, <2>2, <2>4, <2>5, <2>6 DEF FeedInv, FeedExact
<1>2. CASE Feed!AddPrunes
  <2>1. /\ items' = Feed!Pruned /\ adding' = TRUE
        /\ UNCHANGED <<wall, highest, added, shown>>
    BY <1>2 DEF Feed!AddPrunes
  <2>2. Feed!ShownIsRecent'
    BY <2>1 DEF FeedInv, FeedExact, Feed!ShownIsRecent
  <2>3. QED
    BY <2>1, <2>2, PruneKeeps DEF FeedInv, FeedExact
<1>3. CASE Feed!AddInserts
  BY <1>3, InsertKeeps
<1>4. CASE Feed!Snapshot
  <2>1. /\ items' = Feed!Pruned /\ shown'.items = items' /\ shown'.at = wall
        /\ UNCHANGED <<wall, highest, adding, added>>
    BY <1>4 DEF Feed!Snapshot
  <2>2. Feed!ShownIsRecent'
    BY <2>1, PruneKeeps DEF Feed!ShownIsRecent
  <2>3. QED
    BY <2>1, <2>2, PruneKeeps DEF FeedInv, FeedExact
<1>5. CASE UNCHANGED Feed!vars
  BY <1>5 DEF Feed!vars, FeedInv, FeedExact, Feed!ShownIsRecent, Feed!NewestFirst,
              Feed!KeptUnlessOld
<1>6. QED
  BY <1>1, <1>2, <1>3, <1>4, <1>5 DEF Feed!Next

------------------------------------------------------------------------------
(* The requests                                                             *)

Places == {"idle", "hashing", "validating", "sending", "reading", "explaining",
           "feeding", "inserting", "logging", "catching", "leaving", "over"}

\* The catch clauses are behind the request.
Done == {"leaving", "over"}

RequestType ==
  /\ at \in [Calls -> Places]
  /\ aborted \in [Calls -> BOOLEAN]
  /\ work \in [Calls -> WorkerCodes \cup {"none", "running", "succeeded"}]
  /\ raised \in [Calls -> Codes \cup {"none", "unexpected"}]
  /\ told = [r \in Calls |-> told[r]]

\* The request has entered the feed.
Entered(r) == at[r] \in {"inserting", "logging"} \/ (at[r] \in Done /\ raised[r] = "none")

\* What the place a request is at says of the exception, the worker and the answer.
Journey(r) ==
  /\ at[r] = "catching" => raised[r] # "none"
  /\ at[r] \notin Done \cup {"catching"} => raised[r] = "none"
  /\ raised[r] = "cancelled" => aborted[r]
  /\ raised[r] = "internal_error" => work[r] = "internal_error"
  /\ at[r] \in {"reading", "feeding"} \/ Entered(r) => work[r] = "succeeded"
  /\ at[r] = "explaining" => work[r] \in WorkerCodes
  /\ at[r] = "over" => told[r] = AnswerOf(r)

RequestInv == RequestType /\ \A r \in Calls : Journey(r)

\* The name under which a request that is done with is written down.
BookedAs(r) == IF raised[r] = "none" THEN "ok" ELSE raised[r]

LogLine == [request : Calls, result : Codes \cup {"ok"}, key : Nat]

Booked(line) ==
  /\ at[line.request] \in Done
  /\ raised[line.request] # "unexpected"
  /\ line.result = BookedAs(line.request)

LogInv ==
  /\ audit \in Seq(LogLine)
  /\ \A i \in 1..Len(audit) : Booked(audit[i])
  /\ \A i, j \in 1..Len(audit) : audit[i].request = audit[j].request => i = j
  /\ \A r \in Calls : at[r] \in Done /\ raised[r] # "unexpected" =>
       \E i \in 1..Len(audit) : audit[i].request = r

FeederInv ==
  /\ feeder \in Seq(Calls \cup {"earlier"})
  /\ \A i, j \in 1..Len(feeder) : feeder[i] = feeder[j] => i = j
  /\ \A r \in Calls : Entered(r) <=> \E i \in 1..Len(feeder) : feeder[i] = r
  /\ Len(added) = Len(feeder) - (IF adding THEN 1 ELSE 0)

Busy == {r \in Calls : at[r] \notin {"idle", "over"}}

CountersInv ==
  /\ failed \in [Codes -> Nat] /\ rejected \in [Rejections -> Nat]
  /\ IsFiniteSet(Busy)
  /\ CountersMatchLog

RelayInv ==
  /\ HashInv
  /\ FeedInv
  /\ RequestInv
  /\ LogInv
  /\ FeederInv
  /\ CountersInv

\* The codes of the problems are not names of anything else.
LEMMA CodeNames ==
  /\ WorkerCodes \subseteq Codes
  /\ Codes \cap {"none", "unexpected", "ok", "result", "499", "nothing", "running", "succeeded"} = {}
  /\ Rejections \cup {"service_unavailable", "diagnostic_failed", "cancelled"} \subseteq Codes
  /\ "cancelled" \notin WorkerCodes
BY RelayAssumption DEF Codes, Rejections, ProblemCodes

\* A step of request r.
Step(r) == Arrive(r) \/ RelayStep(r) \/ Answers(r) \/ Breaks(r) \/ Abort(r) \/ WorkEnds(r)

\* Only request r moves.
Only(r) == \A q \in Calls : q # r =>
  /\ at'[q] = at[q] /\ aborted'[q] = aborted[q] /\ work'[q] = work[q]
  /\ raised'[q] = raised[q] /\ told'[q] = told[q]

LEMMA JourneyOfTheOthers ==
  ASSUME RequestInv, NEW r \in Calls, Only(r), RequestType', Journey(r)'
  PROVE  RequestInv'
<1>1. ASSUME NEW q \in Calls, q # r PROVE Journey(q)'
  BY <1>1 DEF RequestInv, Journey, Only, Entered, AnswerOf
<1>2. QED
  BY <1>1 DEF RequestInv

LEMMA RequestInit == RelayInit => RequestInv
BY CodeNames DEF RelayInit, RequestInv, RequestType, Journey, Entered, Done, Places

LEMMA RequestStep == ASSUME RequestInv, NEW r \in Calls, Step(r) PROVE RequestInv'
<1>1. CASE Arrive(r)
  <2>1. RequestType'
    BY <1>1, CodeNames DEF Arrive, RequestInv, RequestType, Journey, Places, Go
  <2>2. Only(r)
    BY <1>1 DEF Arrive, RequestInv, RequestType, Only, Go
  <2>3. Journey(r)'
    BY <1>1, CodeNames DEF Arrive, RequestInv, RequestType, Journey, Entered, AnswerOf, Done, Go
  <2>4. QED
    BY <2>1, <2>2, <2>3, JourneyOfTheOthers
<1>2. CASE HashAddress(r)
  <2>1. RequestType'
    BY <1>2, CodeNames DEF HashAddress, RequestInv, RequestType, Journey, Places, Go
  <2>2. Only(r)
    BY <1>2 DEF HashAddress, RequestInv, RequestType, Only, Go
  <2>3. Journey(r)'
    BY <1>2, CodeNames DEF HashAddress, RequestInv, RequestType, Journey, Entered, AnswerOf, Done, Go
  <2>4. QED
    BY <2>1, <2>2, <2>3, JourneyOfTheOthers
<1>3. CASE Validate(r)
  <2>1. RequestType'
    <3>1. at' \in [Calls -> Places]
      BY <1>3 DEF Validate, Raise, Go, Places, RequestInv, RequestType
    <3>2. raised' \in [Calls -> Codes \cup {"none", "unexpected"}]
      BY <1>3, CodeNames DEF Validate, Raise, Rejections, RequestInv, RequestType
    <3>3. work' \in [Calls -> WorkerCodes \cup {"none", "running", "succeeded"}]
      BY <1>3 DEF Validate, RequestInv, RequestType
    <3>4. QED
      BY <1>3, <3>1, <3>2, <3>3 DEF Validate, RequestInv, RequestType
  <2>2. Only(r)
    BY <1>3 DEF Validate, RequestInv, RequestType, Only, Go, Raise
  <2>3. Journey(r)'
    BY <1>3, CodeNames DEF Validate, RequestInv, RequestType, Journey, Entered, AnswerOf, Done, Go, Raise
  <2>4. QED
    BY <2>1, <2>2, <2>3, JourneyOfTheOthers
<1>4. CASE AwaitCancelled(r)
  <2>1. RequestType'
    BY <1>4, CodeNames DEF AwaitCancelled, RequestInv, RequestType, Journey, Places, Go, Raise, Waiting
  <2>2. Only(r)
    BY <1>4 DEF AwaitCancelled, RequestInv, RequestType, Only, Go, Raise, Waiting
  <2>3. Journey(r)'
    BY <1>4, CodeNames DEF AwaitCancelled, RequestInv, RequestType, Journey, Entered, AnswerOf, Done, Go, Raise, Waiting
  <2>4. QED
    BY <2>1, <2>2, <2>3, JourneyOfTheOthers
<1>5. CASE FeedPrunes(r)
  <2>1. RequestType'
    BY <1>5, CodeNames DEF FeedPrunes, RequestInv, RequestType, Journey, Places, Go
  <2>2. Only(r)
    BY <1>5 DEF FeedPrunes, RequestInv, RequestType, Only, Go
  <2>3. Journey(r)'
    BY <1>5, CodeNames DEF FeedPrunes, RequestInv, RequestType, Journey, Entered, AnswerOf, Done, Go
  <2>4. QED
    BY <2>1, <2>2, <2>3, JourneyOfTheOthers
<1>6. CASE FeedInserts(r)
  <2>1. RequestType'
    BY <1>6, CodeNames DEF FeedInserts, RequestInv, RequestType, Journey, Places, Go
  <2>2. Only(r)
    BY <1>6 DEF FeedInserts, RequestInv, RequestType, Only, Go
  <2>3. Journey(r)'
    BY <1>6, CodeNames DEF FeedInserts, RequestInv, RequestType, Journey, Entered, AnswerOf, Done, Go
  <2>4. QED
    BY <2>1, <2>2, <2>3, JourneyOfTheOthers
<1>7. CASE LogSuccess(r)
  <2>1. RequestType'
    BY <1>7, CodeNames DEF LogSuccess, RequestInv, RequestType, Journey, Places, Go
  <2>2. Only(r)
    BY <1>7 DEF LogSuccess, RequestInv, RequestType, Only, Go
  <2>3. Journey(r)'
    BY <1>7, CodeNames DEF LogSuccess, RequestInv, RequestType, Journey, Entered, AnswerOf, Done, Go
  <2>4. QED
    BY <2>1, <2>2, <2>3, JourneyOfTheOthers
<1>8. CASE Catch(r)
  <2>1. RequestType'
    BY <1>8, CodeNames DEF Catch, RequestInv, RequestType, Journey, Places, Go
  <2>2. Only(r)
    BY <1>8 DEF Catch, RequestInv, RequestType, Only, Go
  <2>3. Journey(r)'
    BY <1>8, CodeNames DEF Catch, RequestInv, RequestType, Journey, Entered, AnswerOf, Done, Go
  <2>4. QED
    BY <2>1, <2>2, <2>3, JourneyOfTheOthers
<1>9. CASE Leave(r)
  <2>1. RequestType'
    BY <1>9, CodeNames DEF Leave, RequestInv, RequestType, Journey, Places, Go
  <2>2. Only(r)
    BY <1>9 DEF Leave, RequestInv, RequestType, Only, Go
  <2>3. Journey(r)'
    BY <1>9, CodeNames DEF Leave, RequestInv, RequestType, Journey, Entered, AnswerOf, Done, Go
  <2>4. QED
    BY <2>1, <2>2, <2>3, JourneyOfTheOthers
<1>10. CASE HeadersArrive(r)
  <2>1. RequestType'
    BY <1>10, CodeNames DEF HeadersArrive, RequestInv, RequestType, Journey, Places, Go
  <2>2. Only(r)
    BY <1>10 DEF HeadersArrive, RequestInv, RequestType, Only, Go
  <2>3. Journey(r)'
    BY <1>10, CodeNames DEF HeadersArrive, RequestInv, RequestType, Journey, Entered, AnswerOf, Done, Go
  <2>4. QED
    BY <2>1, <2>2, <2>3, JourneyOfTheOthers
<1>11. CASE BodyArrives(r)
  <2>1. RequestType'
    BY <1>11, CodeNames DEF BodyArrives, RequestInv, RequestType, Journey, Places, Go, Raise
  <2>2. Only(r)
    BY <1>11 DEF BodyArrives, RequestInv, RequestType, Only, Go, Raise
  <2>3. Journey(r)'
    BY <1>11, CodeNames DEF BodyArrives, RequestInv, RequestType, Journey, Entered, AnswerOf, Done, Go, Raise
  <2>4. QED
    BY <2>1, <2>2, <2>3, JourneyOfTheOthers
<1>12. CASE ProblemArrives(r)
  <2>1. RequestType'
    BY <1>12, CodeNames DEF ProblemArrives, RequestInv, RequestType, Journey, Places, Go, Raise
  <2>2. Only(r)
    BY <1>12 DEF ProblemArrives, RequestInv, RequestType, Only, Go, Raise
  <2>3. Journey(r)'
    BY <1>12, CodeNames DEF ProblemArrives, RequestInv, RequestType, Journey, Entered, AnswerOf, Done, Go, Raise
  <2>4. QED
    BY <2>1, <2>2, <2>3, JourneyOfTheOthers
<1>13. CASE SendFails(r)
  <2>1. RequestType'
    BY <1>13, CodeNames DEF SendFails, RequestInv, RequestType, Journey, Places, Go, Raise, BrokenFor
  <2>2. Only(r)
    BY <1>13 DEF SendFails, RequestInv, RequestType, Only, Go, Raise, BrokenFor
  <2>3. Journey(r)'
    BY <1>13, CodeNames DEF SendFails, RequestInv, RequestType, Journey, Entered, AnswerOf, Done, Go, Raise, BrokenFor
  <2>4. QED
    BY <2>1, <2>2, <2>3, JourneyOfTheOthers
<1>14. CASE BodyBreaks(r)
  <2>1. RequestType'
    BY <1>14, CodeNames DEF BodyBreaks, RequestInv, RequestType, Journey, Places, Go, Raise
  <2>2. Only(r)
    BY <1>14 DEF BodyBreaks, RequestInv, RequestType, Only, Go, Raise
  <2>3. Journey(r)'
    BY <1>14, CodeNames DEF BodyBreaks, RequestInv, RequestType, Journey, Entered, AnswerOf, Done, Go, Raise
  <2>4. QED
    BY <2>1, <2>2, <2>3, JourneyOfTheOthers
<1>15. CASE Abort(r)
  <2>1. RequestType'
    BY <1>15, CodeNames DEF Abort, RequestInv, RequestType, Journey, Places, Go
  <2>2. Only(r)
    BY <1>15 DEF Abort, RequestInv, RequestType, Only, Go
  <2>3. Journey(r)'
    BY <1>15, CodeNames DEF Abort, RequestInv, RequestType, Journey, Entered, AnswerOf, Done, Go
  <2>4. QED
    BY <2>1, <2>2, <2>3, JourneyOfTheOthers
<1>16. CASE WorkEnds(r)
  <2>1. RequestType'
    BY <1>16, CodeNames DEF WorkEnds, RequestInv, RequestType, Journey, Places, Go, Waiting
  <2>2. Only(r)
    BY <1>16 DEF WorkEnds, RequestInv, RequestType, Only, Go, Waiting
  <2>3. Journey(r)'
    BY <1>16, CodeNames DEF WorkEnds, RequestInv, RequestType, Journey, Entered, AnswerOf, Done, Go, Waiting
  <2>4. QED
    BY <2>1, <2>2, <2>3, JourneyOfTheOthers
<1>17. QED
  BY <1>1, <1>2, <1>3, <1>4, <1>5, <1>6, <1>7, <1>8,
     <1>9, <1>10, <1>11, <1>12, <1>13, <1>14, <1>15, <1>16
     DEF Step, RelayStep, Answers, Breaks

------------------------------------------------------------------------------
(* The log, the counters and the makers of the feed's entries               *)

\* No line is written, and no request passes the catch clauses that would have one.
LogKept ==
  /\ UNCHANGED <<failed, rejected, audit>>
  /\ \A q \in Calls : at[q] \in Done => at'[q] \in Done /\ raised'[q] = raised[q]
  /\ \A q \in Calls : at'[q] \in Done /\ raised'[q] # "unexpected" => at[q] \in Done

\* Nothing enters the feed.
FeederKept ==
  /\ UNCHANGED <<feeder, adding, added>>
  /\ \A q \in Calls : Entered(q)' <=> Entered(q)

\* No request comes or goes.
BusyKept == active' = active /\ Busy' = Busy

\* What each step leaves as it is.
LEMMA StepKeeps ==
  ASSUME RequestInv, NEW r \in Calls, Step(r)
  PROVE  /\ LogKept \/ LogSuccess(r) \/ (Catch(r) /\ raised[r] # "unexpected")
         /\ FeederKept \/ FeedPrunes(r) \/ FeedInserts(r)
         /\ BusyKept \/ Arrive(r) \/ Leave(r)
<1>1. CASE Arrive(r)
  <2>1. LogKept
    BY <1>1 DEF Arrive, LogKept, RequestInv, RequestType, Journey, Done, Go, ledgerVars
  <2>2. FeederKept
    BY <1>1 DEF Arrive, FeederKept, Entered, RequestInv, RequestType, Journey, Done, Go, feedVars
  <2>3. QED
    BY <1>1, <2>1, <2>2
<1>2. CASE HashAddress(r)
  <2>1. LogKept
    BY <1>2 DEF HashAddress, LogKept, RequestInv, RequestType, Journey, Done, Go, ledgerVars
  <2>2. FeederKept
    BY <1>2 DEF HashAddress, FeederKept, Entered, RequestInv, RequestType, Journey, Done, Go, feedVars
  <2>3. BusyKept
    BY <1>2 DEF HashAddress, BusyKept, Busy, RequestInv, RequestType, Go, ledgerVars
  <2>4. QED
    BY <1>2, <2>1, <2>2, <2>3
<1>3. CASE Validate(r)
  <2>1. LogKept
    BY <1>3 DEF Validate, LogKept, RequestInv, RequestType, Journey, Done, Go, ledgerVars, Raise
  <2>2. FeederKept
    BY <1>3 DEF Validate, FeederKept, Entered, RequestInv, RequestType, Journey, Done, Go, feedVars, Raise
  <2>3. BusyKept
    BY <1>3 DEF Validate, BusyKept, Busy, RequestInv, RequestType, Go, ledgerVars, Raise
  <2>4. QED
    BY <1>3, <2>1, <2>2, <2>3
<1>4. CASE AwaitCancelled(r)
  <2>1. LogKept
    BY <1>4 DEF AwaitCancelled, LogKept, RequestInv, RequestType, Journey, Done, Go, ledgerVars, Raise, Waiting
  <2>2. FeederKept
    BY <1>4 DEF AwaitCancelled, FeederKept, Entered, RequestInv, RequestType, Journey, Done, Go, feedVars, Raise, Waiting
  <2>3. BusyKept
    BY <1>4 DEF AwaitCancelled, BusyKept, Busy, RequestInv, RequestType, Go, ledgerVars, Raise, Waiting
  <2>4. QED
    BY <1>4, <2>1, <2>2, <2>3
<1>5. CASE FeedPrunes(r)
  <2>1. LogKept
    BY <1>5 DEF FeedPrunes, LogKept, RequestInv, RequestType, Journey, Done, Go, ledgerVars
  <2>2. BusyKept
    BY <1>5 DEF FeedPrunes, BusyKept, Busy, RequestInv, RequestType, Go, ledgerVars
  <2>3. QED
    BY <1>5, <2>1, <2>2
<1>6. CASE FeedInserts(r)
  <2>1. LogKept
    BY <1>6 DEF FeedInserts, LogKept, RequestInv, RequestType, Journey, Done, Go, ledgerVars
  <2>2. BusyKept
    BY <1>6 DEF FeedInserts, BusyKept, Busy, RequestInv, RequestType, Go, ledgerVars
  <2>3. QED
    BY <1>6, <2>1, <2>2
<1>7. CASE LogSuccess(r)
  <2>1. FeederKept
    BY <1>7 DEF LogSuccess, FeederKept, Entered, RequestInv, RequestType, Journey, Done, Go, feedVars
  <2>2. BusyKept
    BY <1>7 DEF LogSuccess, BusyKept, Busy, RequestInv, RequestType, Go, ledgerVars
  <2>3. QED
    BY <1>7, <2>1, <2>2
<1>8. CASE Catch(r)
  <2>1. raised[r] = "unexpected" => LogKept
    BY <1>8 DEF Catch, LogKept, RequestInv, RequestType, Journey, Done, Go, ledgerVars
  <2>2. FeederKept
    BY <1>8 DEF Catch, FeederKept, Entered, RequestInv, RequestType, Journey, Done, Go, feedVars
  <2>3. BusyKept
    BY <1>8 DEF Catch, BusyKept, Busy, RequestInv, RequestType, Go, ledgerVars
  <2>4. QED
    BY <1>8, <2>1, <2>2, <2>3
<1>9. CASE Leave(r)
  <2>1. LogKept
    BY <1>9 DEF Leave, LogKept, RequestInv, RequestType, Journey, Done, Go, ledgerVars
  <2>2. FeederKept
    BY <1>9 DEF Leave, FeederKept, Entered, RequestInv, RequestType, Journey, Done, Go, feedVars
  <2>3. QED
    BY <1>9, <2>1, <2>2
<1>10. CASE HeadersArrive(r)
  <2>1. LogKept
    BY <1>10 DEF HeadersArrive, LogKept, RequestInv, RequestType, Journey, Done, Go, ledgerVars
  <2>2. FeederKept
    BY <1>10 DEF HeadersArrive, FeederKept, Entered, RequestInv, RequestType, Journey, Done, Go, feedVars
  <2>3. BusyKept
    BY <1>10 DEF HeadersArrive, BusyKept, Busy, RequestInv, RequestType, Go, ledgerVars
  <2>4. QED
    BY <1>10, <2>1, <2>2, <2>3
<1>11. CASE BodyArrives(r)
  <2>1. LogKept
    BY <1>11 DEF BodyArrives, LogKept, RequestInv, RequestType, Journey, Done, Go, ledgerVars, Raise
  <2>2. FeederKept
    BY <1>11 DEF BodyArrives, FeederKept, Entered, RequestInv, RequestType, Journey, Done, Go, feedVars, Raise
  <2>3. BusyKept
    BY <1>11 DEF BodyArrives, BusyKept, Busy, RequestInv, RequestType, Go, ledgerVars, Raise
  <2>4. QED
    BY <1>11, <2>1, <2>2, <2>3
<1>12. CASE ProblemArrives(r)
  <2>1. LogKept
    BY <1>12 DEF ProblemArrives, LogKept, RequestInv, RequestType, Journey, Done, Go, ledgerVars, Raise
  <2>2. FeederKept
    BY <1>12 DEF ProblemArrives, FeederKept, Entered, RequestInv, RequestType, Journey, Done, Go, feedVars, Raise
  <2>3. BusyKept
    BY <1>12 DEF ProblemArrives, BusyKept, Busy, RequestInv, RequestType, Go, ledgerVars, Raise
  <2>4. QED
    BY <1>12, <2>1, <2>2, <2>3
<1>13. CASE SendFails(r)
  <2>1. LogKept
    BY <1>13 DEF SendFails, LogKept, RequestInv, RequestType, Journey, Done, Go, ledgerVars, Raise, BrokenFor
  <2>2. FeederKept
    BY <1>13 DEF SendFails, FeederKept, Entered, RequestInv, RequestType, Journey, Done, Go, feedVars, Raise, BrokenFor
  <2>3. BusyKept
    BY <1>13 DEF SendFails, BusyKept, Busy, RequestInv, RequestType, Go, ledgerVars, Raise, BrokenFor
  <2>4. QED
    BY <1>13, <2>1, <2>2, <2>3
<1>14. CASE BodyBreaks(r)
  <2>1. LogKept
    BY <1>14 DEF BodyBreaks, LogKept, RequestInv, RequestType, Journey, Done, Go, ledgerVars, Raise
  <2>2. FeederKept
    BY <1>14 DEF BodyBreaks, FeederKept, Entered, RequestInv, RequestType, Journey, Done, Go, feedVars, Raise
  <2>3. BusyKept
    BY <1>14 DEF BodyBreaks, BusyKept, Busy, RequestInv, RequestType, Go, ledgerVars, Raise
  <2>4. QED
    BY <1>14, <2>1, <2>2, <2>3
<1>15. CASE Abort(r)
  <2>1. LogKept
    BY <1>15 DEF Abort, LogKept, RequestInv, RequestType, Journey, Done, Go, ledgerVars
  <2>2. FeederKept
    BY <1>15 DEF Abort, FeederKept, Entered, RequestInv, RequestType, Journey, Done, Go, feedVars
  <2>3. BusyKept
    BY <1>15 DEF Abort, BusyKept, Busy, RequestInv, RequestType, Go, ledgerVars
  <2>4. QED
    BY <1>15, <2>1, <2>2, <2>3
<1>16. CASE WorkEnds(r)
  <2>1. LogKept
    BY <1>16 DEF WorkEnds, LogKept, RequestInv, RequestType, Journey, Done, Go, ledgerVars, Waiting
  <2>2. FeederKept
    BY <1>16 DEF WorkEnds, FeederKept, Entered, RequestInv, RequestType, Journey, Done, Go, feedVars, Waiting
  <2>3. BusyKept
    BY <1>16 DEF WorkEnds, BusyKept, Busy, RequestInv, RequestType, Go, ledgerVars, Waiting
  <2>4. QED
    BY <1>16, <2>1, <2>2, <2>3
<1>17. QED
  BY <1>1, <1>2, <1>3, <1>4, <1>5, <1>6, <1>7, <1>8,
     <1>9, <1>10, <1>11, <1>12, <1>13, <1>14, <1>15, <1>16
     DEF Step, RelayStep, Answers, Breaks

LEMMA LogLineFields == \A line \in LogLine : line.request \in Calls
BY DEF LogLine

\* A request that is done with is written down once.
LEMMA LogWritten ==
  ASSUME RequestInv, LogInv, HashInv, NEW r \in Calls, at[r] \notin Done,
         Only(r), at'[r] \in Done, raised' = raised, raised[r] # "unexpected",
         audit' = Append(audit, Line(r, BookedAs(r)))
  PROVE  /\ LogInv'
         /\ Line(r, BookedAs(r)) \in LogLine
<1> DEFINE n == Len(audit)
           line == Line(r, BookedAs(r))
<1>1. line.request = r /\ line.result = BookedAs(r) /\ line \in LogLine
  BY CodeNames DEF Line, LogLine, BookedAs, HashInv, RequestInv, RequestType
<1>2. audit \in Seq(LogLine) /\ audit' = Append(audit, line)
  BY DEF LogInv
<1> HIDE DEF line
<1>3. /\ n \in Nat /\ audit' \in Seq(LogLine) /\ Len(audit') = n + 1
      /\ audit'[n + 1] = line /\ \A i \in 1..n : audit'[i] = audit[i]
  BY <1>1, <1>2
<1>4. \A i \in 1..n : audit[i] \in LogLine /\ Booked(audit[i])
  BY <1>2 DEF LogInv
<1>5. \A i \in 1..n : audit[i].request \in Calls /\ audit[i].request # r
  BY <1>4, LogLineFields DEF Booked
<1>6. \A old \in LogLine : old.request # r /\ Booked(old) => Booked(old)'
  BY LogLineFields DEF Booked, BookedAs, Only
<1>7. ASSUME NEW i \in 1..n + 1 PROVE Booked(audit[i])'
  <2>1. CASE i = n + 1
    <3>1. audit'[i] = line /\ line.request = r /\ line.result = BookedAs(r)
      BY <1>1, <1>3, <2>1
    <3>2. QED
      BY <3>1 DEF Booked, BookedAs
  <2>2. CASE i \in 1..n
    <3>1. PICK old \in LogLine : old = audit[i]
      BY <1>4, <2>2
    <3>2. audit'[i] = old /\ Booked(old)'
      BY <1>3, <1>4, <1>5, <1>6, <2>2, <3>1
    <3>3. QED
      BY <3>2 DEF Booked, BookedAs
  <2>3. QED
    BY <1>3, <2>1, <2>2
<1>8. \A i, j \in 1..n + 1 : audit'[i].request = audit'[j].request => i = j
  BY <1>1, <1>3, <1>5 DEF LogInv
<1>9. ASSUME NEW q \in Calls, at'[q] \in Done, raised'[q] # "unexpected"
       PROVE  \E i \in 1..n + 1 : audit'[i].request = q
  <2>1. CASE q = r
    BY <1>1, <1>3, <2>1
  <2>2. CASE q # r
    <3>1. PICK i \in 1..n : audit[i].request = q
      BY <1>9, <2>2 DEF LogInv, Only
    <3>2. i \in 1..n + 1
      BY <1>3
    <3>3. QED
      BY <1>3, <3>1, <3>2
  <2>3. QED
    BY <2>1, <2>2
<1>10. LogInv'
  BY <1>3, <1>7, <1>8, <1>9 DEF LogInv
<1>11. QED
  BY <1>1, <1>10 DEF line

LEMMA LogKeeps ==
  ASSUME LogInv, LogKept
  PROVE  LogInv'
<1>1. \A i \in 1..Len(audit) : audit[i].request \in Calls /\ Booked(audit[i])
  BY LogLineFields DEF LogInv
<1>2. \A line : line.request \in Calls /\ Booked(line) => Booked(line)'
  BY DEF LogKept, Booked, BookedAs
<1>3. ASSUME NEW i \in 1..Len(audit') PROVE Booked(audit[i])'
  <2>1. PICK line : line = audit[i]
    OBVIOUS
  <2>2. audit'[i] = line /\ Booked(line)'
    BY <1>1, <1>2, <2>1 DEF LogKept
  <2>3. QED
    BY <2>2 DEF Booked, BookedAs
<1>4. \A r \in Calls : at'[r] \in Done /\ raised'[r] # "unexpected" =>
        \E i \in 1..Len(audit) : audit[i].request = r
  BY DEF LogInv, LogKept
<1>5. QED
  BY <1>3, <1>4 DEF LogInv, LogKept

LEMMA LogSuccessWrites ==
  ASSUME RequestInv, NEW r \in Calls, LogSuccess(r)
  PROVE  /\ at[r] \notin Done /\ Only(r) /\ at'[r] \in Done /\ UNCHANGED <<raised, failed, rejected>>
         /\ raised[r] = "none" /\ audit' = Append(audit, Line(r, BookedAs(r)))
BY DEF LogSuccess, RequestInv, RequestType, Journey, Only, Go, Done, BookedAs

LEMMA CatchWrites ==
  ASSUME RequestInv, NEW r \in Calls, Catch(r), raised[r] # "unexpected"
  PROVE  /\ at[r] \notin Done /\ Only(r) /\ at'[r] \in Done /\ UNCHANGED raised
         /\ raised[r] \in Codes /\ raised[r] # "none" /\ audit' = Append(audit, Line(r, BookedAs(r)))
         /\ failed' = [failed EXCEPT ![raised[r]] = @ + 1]
         /\ rejected' = IF raised[r] \in Rejections
                        THEN [rejected EXCEPT ![raised[r]] = @ + 1] ELSE rejected
BY CodeNames DEF Catch, RequestInv, RequestType, Journey, Only, Go, Done, BookedAs, CountedAs

LEMMA LogNext ==
  ASSUME RequestInv, LogInv, HashInv, NEW r \in Calls, Step(r)
  PROVE  LogInv'
<1>1. CASE LogKept
  BY <1>1, LogKeeps
<1>2. CASE LogSuccess(r)
  BY <1>2, LogSuccessWrites, LogWritten
<1>3. CASE Catch(r) /\ raised[r] # "unexpected"
  BY <1>3, CatchWrites, LogWritten
<1>4. QED
  BY <1>1, <1>2, <1>3, StepKeeps

------------------------------------------------------------------------------
LEMMA FeederNext ==
  ASSUME RequestInv, FeederInv, FeedInv, NEW r \in Calls, Step(r)
  PROVE  FeederInv'
<1>1. CASE FeederKept
  BY <1>1 DEF FeederInv, FeederKept
<1>2. CASE FeedPrunes(r)
  <2>1. /\ ~adding /\ adding' = TRUE /\ feeder' = Append(feeder, r) /\ UNCHANGED added
    BY <1>2 DEF FeedPrunes, Feed!AddPrunes
  <2>2. ~Entered(r) /\ Entered(r)' /\ \A q \in Calls : q # r => (Entered(q)' <=> Entered(q))
    BY <1>2 DEF FeedPrunes, Entered, Done, Go, RequestInv, RequestType
  <2> DEFINE n == Len(feeder)
  <2>3. /\ n \in Nat /\ feeder' \in Seq(Calls \cup {"earlier"}) /\ Len(feeder') = n + 1
        /\ feeder'[n + 1] = r /\ \A i \in 1..n : feeder'[i] = feeder[i]
    BY <2>1 DEF FeederInv
  <2>4. \A i \in 1..n : feeder[i] # r
    BY <2>2 DEF FeederInv
  <2> HIDE DEF n
  <2>5. \A i, j \in 1..n + 1 : feeder'[i] = feeder'[j] => i = j
    BY <2>3, <2>4 DEF FeederInv, n
  <2>6. \A q \in Calls : Entered(q)' <=> \E i \in 1..n + 1 : feeder'[i] = q
    <3>1. \A q \in Calls : Entered(q) <=> \E i \in 1..n : feeder[i] = q
      BY DEF FeederInv, n
    <3>2. n + 1 \in 1..n + 1 /\ \A i \in 1..n + 1 : i = n + 1 \/ i \in 1..n
      BY <2>3
    <3>3. \A i \in 1..n : i \in 1..n + 1
      BY <2>3
    <3>4. QED
      BY <2>2, <2>3, <3>1, <3>2, <3>3
  <2>7. Len(added) = n
    BY <2>1 DEF FeederInv, n
  <2>8. Len(added') = Len(feeder') - (IF adding' THEN 1 ELSE 0)
    BY <2>1, <2>3, <2>7
  <2>9. QED
    BY <2>3, <2>5, <2>6, <2>8 DEF FeederInv
<1>3. CASE FeedInserts(r)
  <2>1. /\ adding = TRUE /\ adding' = FALSE /\ UNCHANGED feeder
        /\ added' = Append(added, [id |-> Len(added) + 1, at |-> wall])
    BY <1>3 DEF FeedInserts, Feed!AddInserts, FeedInv
  <2>2. \A q \in Calls : Entered(q)' <=> Entered(q)
    BY <1>3 DEF FeedInserts, Entered, Done, Go, RequestInv, RequestType
  <2>3. Len(added') = Len(added) + 1
    BY <2>1 DEF FeedInv
  <2>4. Len(added) = Len(feeder) - 1 /\ Len(feeder) \in Nat
    BY <2>1 DEF FeederInv
  <2>5. Len(added') = Len(feeder') - (IF adding' THEN 1 ELSE 0)
    BY <2>1, <2>3, <2>4
  <2>6. QED
    BY <2>1, <2>2, <2>5 DEF FeederInv
<1>4. QED
  BY <1>1, <1>2, <1>3, StepKeeps

------------------------------------------------------------------------------
\* The lines with a result are one more, or as many, after a line is written.
LEMMA LinesAppended ==
  ASSUME audit \in Seq(LogLine), NEW line \in LogLine, audit' = Append(audit, line), NEW c
  PROVE  /\ Cardinality(LinesWith(c)) \in Nat
         /\ Cardinality(LinesWith(c)') =
              Cardinality(LinesWith(c)) + (IF line.result = c THEN 1 ELSE 0)
<1> DEFINE n == Len(audit)
<1>1. /\ n \in Nat /\ DOMAIN audit = 1..n /\ DOMAIN audit' = 1..n + 1
      /\ audit'[n + 1] = line /\ \A i \in 1..n : audit'[i] = audit[i]
  OBVIOUS
<1>2. LinesWith(c) \subseteq 1..n /\ n + 1 \notin LinesWith(c)
  BY <1>1 DEF LinesWith
<1>3. IsFiniteSet(LinesWith(c)) /\ Cardinality(LinesWith(c)) \in Nat
  <2>1. IsFiniteSet(1..n)
    BY <1>1, FS_Interval
  <2>2. QED
    BY <1>2, <2>1, FS_Subset, FS_CardinalityType
<1>4. CASE line.result = c
  <2>1. LinesWith(c)' = LinesWith(c) \cup {n + 1}
    BY <1>1, <1>4 DEF LinesWith
  <2>2. QED
    BY <1>2, <1>3, <1>4, <2>1, FS_AddElement
<1>5. CASE line.result # c
  <2>1. LinesWith(c)' = LinesWith(c)
    BY <1>1, <1>5 DEF LinesWith
  <2>2. QED
    BY <1>3, <1>5, <2>1
<1>6. QED
  BY <1>4, <1>5

\* The parts of CountersInv that the log is behind, and the one the gauge is.
LedgerInv ==
  /\ failed \in [Codes -> Nat] /\ rejected \in [Rejections -> Nat]
  /\ \A c \in Codes : failed[c] = Cardinality(LinesWith(c))
  /\ \A c \in Rejections : rejected[c] = failed[c]

GaugeInv == IsFiniteSet(Busy) /\ active = Cardinality(Busy)

LEMMA CountersParts == CountersInv <=> LedgerInv /\ GaugeInv
BY DEF CountersInv, CountersMatchLog, LedgerInv, GaugeInv, Busy

LEMMA LedgerNext ==
  ASSUME RequestInv, LogInv, HashInv, LedgerInv, NEW r \in Calls, Step(r)
  PROVE  LedgerInv'
<1>1. CASE LogKept
  BY <1>1 DEF LedgerInv, LogKept, LinesWith
<1> DEFINE line == Line(r, BookedAs(r))
<1>2. CASE LogSuccess(r)
  <2>1. audit \in Seq(LogLine) /\ line \in LogLine /\ audit' = Append(audit, line)
    BY <1>2, LogSuccessWrites, LogWritten DEF LogInv
  <2>2. line.result = "ok" /\ UNCHANGED <<failed, rejected>>
    BY <1>2, LogSuccessWrites DEF Line, BookedAs
  <2> HIDE DEF line
  <2>3. \A c \in Codes : Cardinality(LinesWith(c)') = Cardinality(LinesWith(c))
    BY <2>1, <2>2, LinesAppended, CodeNames
  <2>4. QED
    BY <2>2, <2>3 DEF LedgerInv
<1>3. CASE Catch(r) /\ raised[r] # "unexpected"
  <2>1. audit \in Seq(LogLine) /\ line \in LogLine /\ audit' = Append(audit, line)
    BY <1>3, CatchWrites, LogWritten DEF LogInv
  <2> DEFINE code == raised[r]
  <2>2. /\ line.result = code /\ code \in Codes
        /\ failed' = [failed EXCEPT ![code] = @ + 1]
        /\ rejected' = IF code \in Rejections THEN [rejected EXCEPT ![code] = @ + 1] ELSE rejected
    BY <1>3, CatchWrites DEF Line, BookedAs
  <2> HIDE DEF line, code
  <2>3. \A c \in Codes : Cardinality(LinesWith(c)') =
          Cardinality(LinesWith(c)) + (IF c = code THEN 1 ELSE 0)
    BY <2>1, <2>2, LinesAppended
  <2>4. /\ failed' \in [Codes -> Nat]
        /\ \A c \in Codes : failed'[c] = failed[c] + (IF c = code THEN 1 ELSE 0)
    BY <2>2 DEF LedgerInv
  <2>5. /\ rejected' \in [Rejections -> Nat]
        /\ \A c \in Rejections : rejected'[c] = rejected[c] + (IF c = code THEN 1 ELSE 0)
    BY <2>2 DEF LedgerInv
  <2>6. Rejections \subseteq Codes
    BY CodeNames
  <2>7. \A c \in Codes : failed'[c] = Cardinality(LinesWith(c)')
    BY <2>3, <2>4 DEF LedgerInv
  <2>8. \A c \in Rejections : rejected'[c] = failed'[c]
    BY <2>4, <2>5, <2>6 DEF LedgerInv
  <2>9. QED
    BY <2>4, <2>5, <2>7, <2>8 DEF LedgerInv
<1>4. QED
  BY <1>1, <1>2, <1>3, StepKeeps

LEMMA GaugeNext ==
  ASSUME RequestInv, GaugeInv, NEW r \in Calls, Step(r)
  PROVE  GaugeInv'
<1>1. CASE BusyKept
  BY <1>1 DEF GaugeInv, BusyKept
<1>2. CASE Arrive(r)
  <2>1. r \notin Busy /\ Busy' = Busy \cup {r} /\ active' = active + 1
    BY <1>2 DEF Arrive, Busy, Go, RequestInv, RequestType
  <2>2. QED
    BY <2>1, FS_AddElement DEF GaugeInv
<1>3. CASE Leave(r)
  <2>1. r \in Busy /\ Busy' = Busy \ {r} /\ active' = active - 1
    BY <1>3 DEF Leave, Busy, Go, RequestInv, RequestType
  <2>2. QED
    BY <2>1, FS_RemoveElement DEF GaugeInv
<1>4. QED
  BY <1>1, <1>2, <1>3, StepKeeps

------------------------------------------------------------------------------
(* The theorems                                                             *)

\* Others moves no request, and touches the hasher or the feed only.
LEMMA OthersKeep ==
  ASSUME RelayInv, Others
  PROVE  RelayInv'
<1>1. UNCHANGED <<requestVars, ledgerVars>>
  BY DEF Others
<1>2. [Next]_vars /\ [Feed!Next]_(Feed!vars) /\ UNCHANGED <<feeder, adding, added>>
  BY DEF Others, Next, vars, Feed!Next, Feed!vars, Feed!SetClock, Feed!Snapshot,
         hashVars, feedVars
<1>3. HashInv' /\ FeedInv'
  BY <1>2, NextHashInv, FeedNext DEF RelayInv
<1>4. RequestInv'
  BY <1>1 DEF RelayInv, RequestInv, RequestType, Journey, Entered, AnswerOf, requestVars
<1>5. LogInv'
  BY <1>1, LogKeeps DEF RelayInv, LogKept, requestVars, ledgerVars
<1>6. FeederInv'
  BY <1>1, <1>2 DEF RelayInv, FeederInv, Entered, requestVars
<1>7. CountersInv'
  BY <1>1 DEF RelayInv, CountersInv, CountersMatchLog, LinesWith, Busy, requestVars, ledgerVars
<1>8. QED
  BY <1>3, <1>4, <1>5, <1>6, <1>7 DEF RelayInv

\* A request uses the hasher and the feed as their own specifications allow.
LEMMA StepUses ==
  ASSUME NEW r \in Calls, Step(r)
  PROVE  [Next]_vars /\ [Feed!Next]_(Feed!vars)
<1>1. CASE Arrive(r)
  BY <1>1 DEF Arrive, Next, feedVars, vars, Feed!vars
<1>2. CASE HashAddress(r)
  BY <1>2 DEF HashAddress, Next, feedVars, vars, Feed!vars
<1>3. CASE Validate(r)
  BY <1>3 DEF Validate, feedVars, hashVars, vars, Feed!vars
<1>4. CASE AwaitCancelled(r)
  BY <1>4 DEF AwaitCancelled, feedVars, hashVars, vars, Feed!vars
<1>5. CASE FeedPrunes(r)
  BY <1>5 DEF FeedPrunes, Feed!Next, hashVars, vars
<1>6. CASE FeedInserts(r)
  BY <1>6 DEF FeedInserts, Feed!Next, hashVars, vars
<1>7. CASE LogSuccess(r)
  BY <1>7 DEF LogSuccess, feedVars, hashVars, vars, Feed!vars
<1>8. CASE Catch(r)
  BY <1>8 DEF Catch, feedVars, hashVars, vars, Feed!vars
<1>9. CASE Leave(r)
  BY <1>9 DEF Leave, feedVars, hashVars, vars, Feed!vars
<1>10. CASE HeadersArrive(r)
  BY <1>10 DEF HeadersArrive, feedVars, hashVars, vars, Feed!vars
<1>11. CASE BodyArrives(r)
  BY <1>11 DEF BodyArrives, feedVars, hashVars, vars, Feed!vars
<1>12. CASE ProblemArrives(r)
  BY <1>12 DEF ProblemArrives, feedVars, hashVars, vars, Feed!vars
<1>13. CASE SendFails(r)
  BY <1>13 DEF SendFails, feedVars, hashVars, vars, Feed!vars
<1>14. CASE BodyBreaks(r)
  BY <1>14 DEF BodyBreaks, feedVars, hashVars, vars, Feed!vars
<1>15. CASE Abort(r)
  BY <1>15 DEF Abort, feedVars, hashVars, vars, Feed!vars
<1>16. CASE WorkEnds(r)
  BY <1>16 DEF WorkEnds, feedVars, hashVars, vars, Feed!vars
<1>17. QED
  BY <1>1, <1>2, <1>3, <1>4, <1>5, <1>6, <1>7, <1>8,
     <1>9, <1>10, <1>11, <1>12, <1>13, <1>14, <1>15, <1>16
     DEF Step, RelayStep, Answers, Breaks

LEMMA RelayNextInv == RelayInv /\ [RelayNext]_relayVars => RelayInv'
<1> SUFFICES ASSUME RelayInv, [RelayNext]_relayVars PROVE RelayInv'
  OBVIOUS
<1>1. ASSUME NEW r \in Calls, Step(r) PROVE RelayInv'
  <2>1. HashInv' /\ FeedInv'
    BY <1>1, StepUses, NextHashInv, FeedNext DEF RelayInv
  <2>2. RequestInv' /\ LogInv' /\ FeederInv'
    BY <1>1, RequestStep, LogNext, FeederNext DEF RelayInv
  <2>3. CountersInv'
    <3>1. LedgerInv /\ GaugeInv
      BY CountersParts DEF RelayInv
    <3>2. LedgerInv' /\ GaugeInv'
      BY <1>1, <3>1, LedgerNext, GaugeNext DEF RelayInv
    <3>3. QED
      BY <3>2 DEF CountersInv, CountersMatchLog, LedgerInv, GaugeInv, Busy
  <2>4. QED
    BY <2>1, <2>2, <2>3 DEF RelayInv
<1>2. CASE Others
  BY <1>2, OthersKeep
<1>3. CASE UNCHANGED relayVars
  <2>1. UNCHANGED <<requestVars, ledgerVars, feedVars, hashVars>>
    BY <1>3 DEF relayVars
  <2>2. [Next]_vars /\ [Feed!Next]_(Feed!vars) /\ UNCHANGED <<feeder, adding, added>>
    BY <2>1 DEF vars, Feed!vars, hashVars, feedVars
  <2>3. HashInv' /\ FeedInv'
    BY <2>2, NextHashInv, FeedNext DEF RelayInv
  <2>4. RequestInv'
    BY <2>1 DEF RelayInv, RequestInv, RequestType, Journey, Entered, AnswerOf, requestVars
  <2>5. LogInv'
    BY <2>1, LogKeeps DEF RelayInv, LogKept, requestVars, ledgerVars
  <2>6. FeederInv'
    BY <2>1, <2>2 DEF RelayInv, FeederInv, Entered, requestVars
  <2>7. CountersInv'
    BY <2>1 DEF RelayInv, CountersInv, CountersMatchLog, LinesWith, Busy, requestVars, ledgerVars
  <2>8. QED
    BY <2>3, <2>4, <2>5, <2>6, <2>7 DEF RelayInv
<1>4. QED
  BY <1>1, <1>2, <1>3 DEF RelayNext, Step

LEMMA RelayInitInv == RelayInit => RelayInv
<1> SUFFICES ASSUME RelayInit PROVE RelayInv
  OBVIOUS
<1>1. HashInv /\ FeedInv /\ RequestInv
  BY InitHashInv, FeedInitInv, RequestInit DEF RelayInit
<1>2. audit = <<>> /\ Len(<<>>) = 0 /\ DOMAIN <<>> = {} /\ at = [r \in Calls |-> "idle"]
  BY DEF RelayInit
<1>3. LogInv
  BY <1>2 DEF LogInv, Done
<1>4. FeederInv
  <2>1. \A r \in Calls : ~Entered(r)
    BY <1>2 DEF Entered, Done
  <2>2. CASE Feed!Init /\ feeder = <<>>
    BY <1>2, <2>1, <2>2 DEF FeederInv, Feed!Init
  <2>3. CASE adding = FALSE /\ Len(added) = 1 /\ feeder = <<"earlier">>
    BY <2>1, <2>3, RelayAssumption DEF FeederInv
  <2>4. QED
    BY <2>2, <2>3 DEF RelayInit, FeedAsFound
<1>5. CountersInv
  <2>1. \A c : LinesWith(c) = {}
    BY <1>2 DEF LinesWith
  <2>2. Busy = {}
    BY <1>2 DEF Busy
  <2>3. LedgerInv
    BY <2>1, FS_EmptySet, CodeNames DEF LedgerInv, RelayInit
  <2>4. GaugeInv
    BY <2>2, FS_EmptySet DEF GaugeInv, RelayInit
  <2>5. QED
    BY <2>3, <2>4, CountersParts
<1>6. QED
  BY <1>1, <1>3, <1>4, <1>5 DEF RelayInv

\* The inductive invariant holds of every behaviour.
THEOREM RelayInvariant == RelaySpec => []RelayInv
BY RelayInitInv, RelayNextInv, PTL DEF RelaySpec

\* A request has no line, or one line.
LEMMA LinesOfOne ==
  ASSUME RelayInv, NEW r \in Calls
  PROVE  \/ LinesOf(r) = {}
         \/ \E i \in 1..Len(audit) : LinesOf(r) = {i} /\ audit[i].request = r /\ Booked(audit[i])
<1>1. DOMAIN audit = 1..Len(audit)
  BY DEF RelayInv, LogInv
<1>2. CASE \A i \in 1..Len(audit) : audit[i].request # r
  BY <1>1, <1>2 DEF LinesOf
<1>3. ASSUME NEW i \in 1..Len(audit), audit[i].request = r
      PROVE  LinesOf(r) = {i} /\ Booked(audit[i])
  BY <1>1, <1>3 DEF LinesOf, RelayInv, LogInv
<1>4. QED
  BY <1>2, <1>3

\* What the caller is told, what the log says and what the feed shows agree.
THEOREM ToldAsBookedAlways == RelaySpec => []ToldAsBooked
<1>1. ASSUME RelayInv PROVE ToldAsBooked
  <2> SUFFICES ASSUME NEW r \in Calls, at[r] = "over"
               PROVE  LET logged == {audit[i].result : i \in LinesOf(r)} IN
                      /\ Cardinality(LinesOf(r)) <= 1
                      /\ r \in ToSet(feeder) <=> told[r] = "result"
                      /\ CASE told[r] = "result" -> logged = {"ok"}
                           [] told[r] = "499" -> logged = {"cancelled"} /\ aborted[r]
                           [] told[r] = "internal_error" ->
                                \/ logged = {}
                                \/ logged = {"internal_error"} /\ work[r] = "internal_error"
                           [] OTHER -> logged = {told[r]}
    BY DEF ToldAsBooked
  <2> DEFINE logged == {audit[i].result : i \in LinesOf(r)}
             Agrees(lines) ==
               CASE told[r] = "result" -> lines = {"ok"}
                 [] told[r] = "499" -> lines = {"cancelled"} /\ aborted[r]
                 [] told[r] = "internal_error" ->
                      lines = {} \/ (lines = {"internal_error"} /\ work[r] = "internal_error")
                 [] OTHER -> lines = {told[r]}
  <2>1. at[r] \in Done /\ told[r] = AnswerOf(r) /\ Journey(r) /\ RequestType
    BY <1>1 DEF RelayInv, RequestInv, Journey, Done
  <2>2. Cardinality(LinesOf(r)) <= 1
    <3>1. Cardinality({}) = 0 /\ \A i : Cardinality({i}) = 1
      BY FS_EmptySet, FS_Singleton
    <3>2. CASE LinesOf(r) = {}
      BY <3>1, <3>2
    <3>3. CASE \E i \in 1..Len(audit) : LinesOf(r) = {i}
      <4>1. PICK i \in 1..Len(audit) : LinesOf(r) = {i}
        BY <3>3
      <4>2. Cardinality({i}) = 1
        BY <3>1, Zenon
      <4>3. QED
        BY <4>1, <4>2
    <3>4. QED
      BY <1>1, <3>2, <3>3, LinesOfOne
  <2>3. raised[r] = "unexpected" => logged = {}
    BY <1>1, LinesOfOne DEF Booked
  <2>4. raised[r] # "unexpected" => logged = {BookedAs(r)}
    <3>1. ASSUME raised[r] # "unexpected"
          PROVE  \E i \in 1..Len(audit) : i \in LinesOf(r)
      BY <1>1, <2>1, <3>1 DEF RelayInv, LogInv, LinesOf
    <3>2. QED
      BY <1>1, <3>1, LinesOfOne DEF Booked
  <2>5. r \in ToSet(feeder) <=> raised[r] = "none"
    <3>1. r \in ToSet(feeder) <=> \E i \in 1..Len(feeder) : feeder[i] = r
      BY <1>1 DEF RelayInv, FeederInv, ToSet
    <3>2. (\E i \in 1..Len(feeder) : feeder[i] = r) <=> Entered(r)
      BY <1>1 DEF RelayInv, FeederInv
    <3>3. QED
      BY <2>1, <3>1, <3>2 DEF Entered, Done
  <2>6. told[r] = "result" <=> raised[r] = "none"
    BY <2>1, CodeNames DEF AnswerOf, RequestType
  <2>7. \A lines : lines = logged => Agrees(lines)
    <3> SUFFICES ASSUME NEW lines, lines = logged PROVE Agrees(lines)
      OBVIOUS
    <3> HIDE DEF logged
    <3>1. CASE raised[r] = "none"
      BY <2>4, <2>6, <3>1 DEF BookedAs
    <3>2. CASE raised[r] = "unexpected"
      BY <2>1, <2>3, <3>2 DEF AnswerOf
    <3>3. CASE raised[r] = "cancelled"
      <4>1. aborted[r] /\ told[r] = "499" /\ lines = {"cancelled"}
        BY <2>1, <2>4, <3>3 DEF AnswerOf, BookedAs, Journey
      <4>2. QED
        BY <4>1
    <3>4. CASE raised[r] \in Codes \ {"cancelled"}
      <4>1. told[r] = raised[r] /\ lines = {raised[r]}
        BY <2>1, <2>4, <3>4, CodeNames DEF AnswerOf, BookedAs
      <4>2. told[r] # "result" /\ told[r] # "499"
        BY <3>4, <4>1, CodeNames
      <4>3. told[r] = "internal_error" => work[r] = "internal_error"
        BY <2>1, <4>1 DEF Journey
      <4>4. QED
        BY <4>1, <4>2, <4>3
    <3>5. QED
      BY <2>1, <3>1, <3>2, <3>3, <3>4 DEF RequestType
  <2>8. Agrees(logged)
    BY <2>7, Zenon
  <2>9. QED
    BY <2>2, <2>5, <2>6, <2>8, Zenon
<1>2. QED
  BY <1>1, RelayInvariant, PTL

\* The counters are the log summed up, and the gauge comes back to zero.
THEOREM CountersMatchLogAlways == RelaySpec => []CountersMatchLog
<1>1. RelayInv => CountersMatchLog
  BY DEF RelayInv, CountersInv
<1>2. QED
  BY <1>1, RelayInvariant, PTL

\* Nothing is shown in the feed but a diagnostic that succeeded, each once.
THEOREM FeedIsEarnedAlways == RelaySpec => []FeedIsEarned
<1>1. ASSUME RelayInv PROVE FeedIsEarned
  <2>1. DOMAIN feeder = 1..Len(feeder)
    BY <1>1 DEF RelayInv, FeederInv
  <2>2. IsInjective(feeder)
    BY <1>1, <2>1 DEF RelayInv, FeederInv, IsInjective
  <2>3. ASSUME NEW r \in ToSet(feeder) \ {"earlier"} PROVE work[r] = "succeeded"
    <3>1. PICK i \in 1..Len(feeder) : feeder[i] = r
      BY <2>1 DEF ToSet
    <3>2. r \in Calls
      BY <1>1, <3>1 DEF RelayInv, FeederInv
    <3>3. Entered(r)
      BY <1>1, <3>1, <3>2 DEF RelayInv, FeederInv
    <3>4. QED
      BY <1>1, <3>2, <3>3 DEF RelayInv, RequestInv, Journey
  <2>4. Len(added) = Len(feeder) - (IF adding THEN 1 ELSE 0)
    BY <1>1 DEF RelayInv, FeederInv
  <2>5. QED
    BY <2>2, <2>3, <2>4 DEF FeedIsEarned
<1>2. QED
  BY <1>1, RelayInvariant, PTL

\* The feed shows what is recent, newest first, and loses nothing else.
THEOREM FeedExactAlways == RelaySpec => []FeedExact
<1>1. RelayInv => FeedExact
  BY DEF RelayInv, FeedInv
<1>2. QED
  BY <1>1, RelayInvariant, PTL

\* Behind the relay, too, a name of one day is never a name of another.
THEOREM RelayUnlinkable == RelaySpec => []UnlinkableAcrossDays
<1>1. RelayInv => UnlinkableAcrossDays
  BY DEF RelayInv, HashInv, UnlinkableAcrossDays
<1>2. QED
  BY <1>1, RelayInvariant, PTL

\* The requests use the hasher and the feed as their own specifications allow: every
\* behaviour of the relay is one of the hasher, and moves the feed by the feed's steps.
THEOREM RelayComposes == RelaySpec => Spec /\ [][Feed!Next]_(Feed!vars)
<1>1. RelayInit => Init
  BY DEF RelayInit
<1>2. [RelayNext]_relayVars => [Next]_vars /\ [Feed!Next]_(Feed!vars)
  <2> SUFFICES ASSUME [RelayNext]_relayVars PROVE [Next]_vars /\ [Feed!Next]_(Feed!vars)
    OBVIOUS
  <2>1. CASE \E r \in Calls : Step(r)
    BY <2>1, StepUses
  <2>2. CASE Others
    BY <2>2 DEF Others, Next, vars, Feed!Next, Feed!vars, hashVars, feedVars
  <2>3. CASE UNCHANGED relayVars
    BY <2>3 DEF relayVars, vars, Feed!vars, hashVars, feedVars
  <2>4. QED
    BY <2>1, <2>2, <2>3 DEF RelayNext, Step
<1>3. QED
  BY <1>1, <1>2, PTL DEF RelaySpec, Spec

\* Caller, log, feed and counters tell one story of every request.
THEOREM AccountsAgree == RelaySpec => []OneAccount
<1>1. ToldAsBooked /\ CountersMatchLog => OneAccount
  BY DEF OneAccount
<1>2. QED
  BY <1>1, ToldAsBookedAlways, CountersMatchLogAlways, PTL

\* The feed is what has succeeded lately, and all of it.
THEOREM FeedTrueAlways == RelaySpec => []FeedTrue
<1>1. FeedIsEarned /\ FeedExact => FeedTrue
  BY DEF FeedTrue
<1>2. QED
  BY <1>1, FeedIsEarnedAlways, FeedExactAlways, PTL
==============================================================================
