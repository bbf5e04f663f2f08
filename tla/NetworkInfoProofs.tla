-------------------------- MODULE NetworkInfoProofs --------------------------
(***************************************************************************)
(* Proofs about NetworkInfo: the replicas implement TtlCache, the worker   *)
(* implements it once more, and it never takes a caller's leaving for an   *)
(* address that is missing.                                                *)
(***************************************************************************)
EXTENDS NetworkInfo, TtlCacheProofs

TheWorker == {"egress"}
AskTheWorker == [r \in Calls |-> "egress"]

\* The cache of the worker, with what is proved of a TtlCache.
WP == INSTANCE TtlCacheProofs WITH
  Caches <- TheWorker, CacheOf <- AskTheWorker, Values <- W!Results, Empty <- None,
  Life <- W!Lifetime, pc <- wpc, cancelled <- aborted, start <- wstart, got <- wgot,
  outcome <- woutcome, cell <- cached, expires <- wexpires, gate <- wgate, line <- wline

\* Every family is accounted for: configured, found, or lost to the network.
Complete(g) == g # None => Known \cup g.val.found \cup g.val.lost = Families

\* A discovery leaves out only the configured families; and what is about to be
\* returned is there.
WInv ==
  /\ wpc \in [Calls -> WP!Phases]
  /\ woutcome \in [Calls -> {"none", "value", "cancelled"}]
  /\ wgot \in [Calls -> WP!Cells]
  /\ cached \in [TheWorker -> WP!Cells]
  /\ task \in [Calls -> [Families -> W!Tasks]]
  /\ Complete(cached["egress"])
  /\ \A r \in Calls : Complete(wgot[r])
  /\ \A r \in Calls : woutcome[r] = "value" => wgot[r] # None \/ Known = Families
  /\ \A r \in Calls : wpc[r] \in {"comparing", "hit", "storing"} => cached["egress"] # None
  /\ \A r \in Calls : wpc[r] = "filling" =>
       \A f \in Families : task[r][f] = "none" => f \in Known

------------------------------------------------------------------------------
(* The cache inside the worker                                              *)

\* What EgressService calls Cache is what is proved about here.
LEMMA SameCache ==
  ASSUME NEW r \in Calls
  PROVE  /\ W!Cache!Call(r) <=> WP!Call(r)
         /\ W!Cache!Cancel(r) <=> WP!Cancel(r)
         /\ W!Cache!Step(r) <=> WP!Step(r)
         /\ W!Cache!Fill(r) <=> WP!Fill(r)
         /\ W!Cache!FillCancelled(r) <=> WP!FillCancelled(r)
         /\ \A v \in W!Results : W!Cache!FillReturns(r, v) <=> WP!FillReturns(r, v)
         /\ W!Cache!Init <=> WP!Init
<1> USE DEF TheWorker, AskTheWorker
<1>1. W!Cache!Leave(r) <=> WP!Leave(r)
  BY DEF W!Cache!Leave, WP!Leave
<1>2. W!Cache!Fresh("egress") <=> WP!Fresh("egress")
  BY DEF W!Cache!Fresh, WP!Fresh
<1>3. W!Cache!Call(r) <=> WP!Call(r)
  BY DEF W!Cache!Call, WP!Call
<1>4. W!Cache!Cancel(r) <=> WP!Cancel(r)
  BY DEF W!Cache!Cancel, WP!Cancel
<1>5. W!Cache!Fill(r) <=> WP!Fill(r)
  BY <1>2 DEF W!Cache!Fill, WP!Fill
<1>6. W!Cache!FillCancelled(r) <=> WP!FillCancelled(r)
  BY <1>1 DEF W!Cache!FillCancelled, WP!FillCancelled
<1>7. \A v \in W!Results : W!Cache!FillReturns(r, v) <=> WP!FillReturns(r, v)
  BY DEF W!Cache!FillReturns, WP!FillReturns
<1>8. W!Cache!Init <=> WP!Init
  BY DEF W!Cache!Init, WP!Init
<1>9. W!Cache!Step(r) <=> WP!Step(r)
  <2>1. W!Cache!Compare(r) <=> WP!Compare(r)
    BY DEF W!Cache!Compare, WP!Compare
  <2>2. W!Cache!Hit(r) <=> WP!Hit(r)
    BY DEF W!Cache!Hit, WP!Hit
  <2>3. W!Cache!Enqueue(r) <=> WP!Enqueue(r)
    BY DEF W!Cache!Enqueue, WP!Enqueue
  <2>4. W!Cache!GiveUp(r) <=> WP!GiveUp(r)
    BY DEF W!Cache!GiveUp, WP!GiveUp, W!Cache!RemoveAt, WP!RemoveAt
  <2>5. W!Cache!Found(r) <=> WP!Found(r)
    BY <1>1, <1>2 DEF W!Cache!Found, WP!Found
  <2>6. W!Cache!Store(r) <=> WP!Store(r)
    BY <1>1 DEF W!Cache!Store, WP!Store
  <2>7. QED
    BY <1>3, <2>1, <2>2, <2>3, <2>4, <2>5, <2>6 DEF W!Cache!Step, WP!Step
<1>10. QED
  BY <1>3, <1>4, <1>5, <1>6, <1>7, <1>8, <1>9

\* What the assumptions of TtlCache come to for the worker.
LEMMA WorkerCacheAssumption ==
  /\ AskTheWorker \in [Calls -> TheWorker]
  /\ \A v \in W!Results : W!Lifetime(v) \in Nat \ {0}
  /\ MaxTime \in Nat
  /\ None \notin [val : W!Results, at : Nat]
BY CacheAssumption, EgressAssumption DEF TheWorker, AskTheWorker, W!Lifetime

LEMMA InitWInv == W!Init => WInv
<1> SUFFICES ASSUME W!Init PROVE WInv
  OBVIOUS
<1>1. WP!Init /\ task = [r \in Calls |-> W!Idle]
  BY DEF W!Init, W!Cache!Init, WP!Init, TheWorker
<1>2. QED
  BY <1>1 DEF WP!Init, TheWorker, W!Idle, WInv, WP!Phases, WP!Inside, WP!Cells, W!Tasks, Complete

------------------------------------------------------------------------------
(* What is known of the worker                                              *)

\* A step of call r that leaves tasks and cache alone, and perhaps hands the
\* gate over.
LEMMA WorkerMoves ==
  ASSUME WInv, NEW r \in Calls, UNCHANGED <<task, cached>>,
         wpc' \in [Calls -> WP!Phases],
         \A q \in Calls \ {r} : wpc'[q] \in {wpc[q], "holding"},
         wpc'[r] \in {"comparing", "hit", "storing"} => cached["egress"] # None,
         wpc'[r] # "filling",
         NEW o \in {"none", "value", "cancelled"}, NEW g \in WP!Cells,
         woutcome' = [woutcome EXCEPT ![r] = o], wgot' = [wgot EXCEPT ![r] = g],
         Complete(g), o = "value" => g # None \/ Known = Families
  PROVE  WInv'
<1>1. wgot' \in [Calls -> WP!Cells] /\ woutcome' \in [Calls -> {"none", "value", "cancelled"}]
  BY DEF WInv
<1>2. \A q \in Calls : wgot'[q] = (IF q = r THEN g ELSE wgot[q])
                       /\ woutcome'[q] = (IF q = r THEN o ELSE woutcome[q])
  BY DEF WInv
<1>3. \A q \in Calls : Complete(wgot[q])'
  BY <1>2 DEF WInv, Complete
<1>4. \A q \in Calls : woutcome'[q] = "value" => wgot'[q] # None \/ Known = Families
  BY <1>2 DEF WInv
<1>5. \A q \in Calls : wpc'[q] \in {"comparing", "hit", "storing"} => cached'["egress"] # None
  BY DEF WInv
<1>6. \A q \in Calls : wpc'[q] = "filling" =>
        \A f \in Families : task'[q][f] = "none" => f \in Known
  BY DEF WInv
<1>7. Complete(cached["egress"])'
  BY DEF WInv, Complete
<1>8. WP!Cells' = WP!Cells /\ WP!Phases' = WP!Phases
  BY DEF WP!Cells, WP!Phases, WP!Inside
<1>9. QED
  BY <1>1, <1>3, <1>4, <1>5, <1>6, <1>7, <1>8 DEF WInv

\* What the steps before and behind the gate do to the program counters.
LEMMA WorkerLeaves ==
  ASSUME WInv, NEW r \in Calls, WP!Leave(r)
  PROVE  /\ wpc' \in [Calls -> WP!Phases]
         /\ wpc'[r] \in {"done", "holding"}
         /\ \A q \in Calls \ {r} : wpc'[q] \in {wpc[q], "holding"}
BY DEF WP!Leave, WInv, WP!Phases, WP!Inside

\* The steps that only move a call: what it returned is as before.
LEMMA WorkerWaitsInv ==
  ASSUME WInv, NEW r \in Calls, UNCHANGED task,
         WP!Call(r) \/ WP!Compare(r) \/ WP!Enqueue(r) \/ WP!GiveUp(r)
  PROVE  WInv'
<1>1. wgot[r] \in WP!Cells /\ Complete(wgot[r]) /\ wgot' = [wgot EXCEPT ![r] = wgot[r]]
  BY DEF WInv, WP!Call, WP!Compare, WP!Enqueue, WP!GiveUp
<1>2. UNCHANGED <<task, cached>> /\ wpc[r] \in {"idle", "comparing", "queueing", "parked"}
  BY DEF WP!Call, WP!Compare, WP!Enqueue, WP!GiveUp
<1>3. \E p \in {"comparing", "hit", "queueing", "done", "holding", "parked"} :
        /\ wpc' = [wpc EXCEPT ![r] = p]
        /\ p = "hit" => wpc[r] = "comparing"
        /\ p = "comparing" => cached["egress"] # None
  BY DEF WP!Call, WP!Compare, WP!Enqueue, WP!GiveUp, AskTheWorker
<1>4. /\ wpc' \in [Calls -> WP!Phases]
      /\ \A q \in Calls \ {r} : wpc'[q] \in {wpc[q], "holding"}
      /\ wpc'[r] \in {"comparing", "hit", "storing"} => cached["egress"] # None
      /\ wpc'[r] # "filling"
  BY <1>3 DEF WInv, WP!Phases, WP!Inside
<1>5. \E o \in {woutcome[r], "cancelled"} : woutcome' = [woutcome EXCEPT ![r] = o]
  BY DEF WInv, WP!Call, WP!Compare, WP!Enqueue, WP!GiveUp
<1>6. /\ woutcome[r] \in {"none", "value", "cancelled"}
      /\ woutcome[r] = "value" => wgot[r] # None \/ Known = Families
  BY DEF WInv
<1>7. QED
  BY <1>1, <1>2, <1>4, <1>5, <1>6, WorkerMoves

LEMMA ArriveInv == ASSUME WInv, NEW r \in Calls, W!Arrive(r) PROVE WInv'
<1>1. CASE WP!Call(r) /\ UNCHANGED task
  BY <1>1, WorkerWaitsInv
<1>2. CASE /\ UNCHANGED <<task, wgot, cached>>
           /\ Known = Families
           /\ wpc' = [wpc EXCEPT ![r] = "done"]
           /\ woutcome' = [woutcome EXCEPT ![r] = "value"]
  <2>1. wgot[r] \in WP!Cells /\ Complete(wgot[r]) /\ wgot' = [wgot EXCEPT ![r] = wgot[r]]
    BY <1>2 DEF WInv
  <2>2. /\ wpc' \in [Calls -> WP!Phases] /\ wpc'[r] = "done"
        /\ \A q \in Calls \ {r} : wpc'[q] = wpc[q]
    BY <1>2 DEF WInv, WP!Phases
  <2>3. QED
    BY <1>2, <2>1, <2>2, WorkerMoves
<1>3. QED
  BY <1>1, <1>2, SameCache DEF W!Arrive

\* A value leaves the worker: what is cached, from a look with or without the gate.
LEMMA ServeInv ==
  ASSUME WInv, NEW r \in Calls, UNCHANGED task, WP!Hit(r) \/ WP!Found(r) \/ WP!Store(r)
  PROVE  WInv'
<1>1. /\ cached["egress"] # None
      /\ wgot' = [wgot EXCEPT ![r] = cached["egress"]]
      /\ woutcome' = [woutcome EXCEPT ![r] = "value"]
      /\ UNCHANGED <<task, cached>>
  BY DEF WInv, WP!Hit, WP!Found, WP!Store, WP!Fresh, AskTheWorker
<1>2. cached["egress"] \in WP!Cells /\ Complete(cached["egress"])
  BY DEF WInv, TheWorker
<1>3. /\ wpc' \in [Calls -> WP!Phases]
      /\ wpc'[r] \in {"done", "holding"}
      /\ \A q \in Calls \ {r} : wpc'[q] \in {wpc[q], "holding"}
  <2>1. CASE WP!Hit(r)
    BY <2>1 DEF WP!Hit, WInv, WP!Phases
  <2>2. CASE WP!Found(r) \/ WP!Store(r)
    BY <2>2, WorkerLeaves DEF WP!Found, WP!Store
  <2>3. QED
    BY <2>1, <2>2
<1>4. QED
  BY <1>1, <1>2, <1>3, WorkerMoves

\* A discovery sets off for every family that is not configured.
LEMMA DiscoverInv == ASSUME WInv, NEW r \in Calls, W!Discover(r) PROVE WInv'
<1> DEFINE set == [f \in Families |-> IF f \in Known THEN "none" ELSE "running"]
<1>1. /\ wpc' = [wpc EXCEPT ![r] = "filling"]
      /\ task' = [task EXCEPT ![r] = set]
      /\ UNCHANGED <<wgot, woutcome, cached>>
  BY SameCache DEF W!Discover, WP!Fill
<1>2. /\ set \in [Families -> W!Tasks]
      /\ \A f \in Families : set[f] = "none" => f \in Known
  BY DEF W!Tasks
<1> HIDE DEF set
<1>3. task' \in [Calls -> [Families -> W!Tasks]] /\ wpc' \in [Calls -> WP!Phases]
  BY <1>1, <1>2 DEF WInv, WP!Phases, WP!Inside
<1>4. \A q \in Calls : wpc'[q] = "filling" =>
        \A f \in Families : task'[q][f] = "none" => f \in Known
  BY <1>1, <1>2 DEF WInv
<1>5. \A q \in Calls : wpc'[q] \in {"comparing", "hit", "storing"} => cached["egress"] # None
  BY <1>1 DEF WInv
<1>6. QED
  BY <1>1, <1>3, <1>4, <1>5 DEF WInv, Complete, WP!Cells, WP!Phases, WP!Inside

\* A task goes on: it is not one of those that were never needed.
LEMMA TaskInv ==
  ASSUME WInv, NEW r \in Calls, NEW f \in Families, NEW t \in W!Tasks \ {"none"},
         task' = [task EXCEPT ![r][f] = t],
         UNCHANGED <<wpc, wgot, woutcome, cached>>
  PROVE  WInv'
<1>1. task[r] \in [Families -> W!Tasks]
  BY DEF WInv
<1>2. /\ task' \in [Calls -> [Families -> W!Tasks]]
      /\ \A q \in Calls : \A g \in Families :
           task'[q][g] = (IF q = r /\ g = f THEN t ELSE task[q][g])
  BY <1>1 DEF WInv
<1>3. \A q \in Calls : wpc'[q] = "filling" =>
        \A g \in Families : task'[q][g] = "none" => g \in Known
  BY <1>2 DEF WInv
<1>4. QED
  BY <1>2, <1>3 DEF WInv, Complete

LEMMA NetworkInv == ASSUME WInv, NEW r \in Calls, W!Network(r) PROVE WInv'
<1>1. PICK f \in Families : \E t \in {"found", "lost", "broken", "cut"} : W!Respond(r, f, t)
  BY DEF W!Network
<1>2. PICK t \in {"found", "lost", "broken", "cut"} : W!Respond(r, f, t)
  BY <1>1
<1>3. t \in W!Tasks \ {"none"}
  BY DEF W!Tasks
<1>4. QED
  BY <1>2, <1>3, TaskInv DEF W!Respond

LEMMA CatchInv ==
  ASSUME WInv, NEW r \in Calls, NEW f \in Families, W!Catch(r, f)
  PROVE  WInv'
<1>1. \E t \in {"cancelled", "lost"} : task' = [task EXCEPT ![r][f] = t]
  BY DEF W!Catch
<1>2. {"cancelled", "lost"} \subseteq W!Tasks \ {"none"}
  BY DEF W!Tasks
<1>3. UNCHANGED <<wpc, wgot, woutcome, cached>>
  BY DEF W!Catch
<1>4. QED
  BY <1>1, <1>2, <1>3, TaskInv

\* The end of a discovery that was cancelled.
LEMMA GatherThrowsInv == ASSUME WInv, NEW r \in Calls, W!GatherThrows(r) PROVE WInv'
<1>1. /\ task' = [task EXCEPT ![r] = W!Idle]
      /\ woutcome' = [woutcome EXCEPT ![r] = "cancelled"]
      /\ UNCHANGED <<wgot, cached>> /\ WP!Leave(r)
  BY SameCache DEF W!GatherThrows, WP!FillCancelled
<1>2. /\ wpc' \in [Calls -> WP!Phases]
      /\ wpc'[r] \in {"done", "holding"}
      /\ \A q \in Calls \ {r} : wpc'[q] \in {wpc[q], "holding"}
  BY <1>1, WorkerLeaves
<1>3. task' \in [Calls -> [Families -> W!Tasks]]
  BY <1>1 DEF WInv, W!Idle, W!Tasks
<1>4. \A q \in Calls : wpc'[q] = "filling" => task'[q] = task[q] /\ wpc[q] = "filling"
  BY <1>1, <1>2 DEF WInv
<1>5. \A q \in Calls : wpc'[q] \in {"comparing", "hit", "storing"} => cached'["egress"] # None
  BY <1>1, <1>2 DEF WInv
<1>6. /\ woutcome' \in [Calls -> {"none", "value", "cancelled"}]
      /\ \A q \in Calls : woutcome'[q] = "value" => woutcome[q] = "value"
  BY <1>1 DEF WInv
<1>7. QED
  BY <1>1, <1>2, <1>3, <1>4, <1>5, <1>6 DEF WInv, Complete

\* What a discovery leaves that ended without an exception.
LEMMA Gathered ==
  ASSUME WInv, NEW r \in Calls, wpc[r] = "filling",
         W!Over(r), W!Ending(r, "cancelled") = {}
  PROVE  LET g == [found |-> W!Ending(r, "found"), lost |-> W!Ending(r, "lost")] IN
         /\ g \in W!Results
         /\ Known \cup g.found \cup g.lost = Families
<1> DEFINE g == [found |-> W!Ending(r, "found"), lost |-> W!Ending(r, "lost")]
<1>1. g \in W!Results
  BY DEF W!Results, W!Ending
<1>2. ASSUME NEW f \in Families, f \notin Known
      PROVE  f \in g.found \/ f \in g.lost
  <2>1. task[r][f] # "none" /\ task[r][f] # "cancelled"
    BY <1>2 DEF WInv, W!Ending
  <2>2. task[r][f] \in {"none", "found", "lost", "cancelled"}
    BY DEF W!Over
  <2>3. QED
    BY <2>1, <2>2 DEF W!Ending
<1>3. QED
  BY <1>1, <1>2, EgressAssumption DEF W!Results

LEMMA GatherInv == ASSUME WInv, now \in Nat, NEW r \in Calls, W!Gather(r) PROVE WInv'
<1> DEFINE g == [found |-> W!Ending(r, "found"), lost |-> W!Ending(r, "lost")]
           new == [val |-> g, at |-> now]
<1>1. W!Over(r) /\ W!Ending(r, "cancelled") = {} /\ W!Cache!FillReturns(r, g)
      /\ task' = [task EXCEPT ![r] = W!Idle]
  BY DEF W!Gather
<1>2. wpc[r] = "filling"
  BY <1>1 DEF W!Cache!FillReturns
<1>3. g \in W!Results /\ Known \cup g.found \cup g.lost = Families
  BY <1>1, <1>2, Gathered
<1> HIDE DEF g
<1>4. /\ cached' = [cached EXCEPT !["egress"] = new]
      /\ wpc' = [wpc EXCEPT ![r] = "storing"]
      /\ UNCHANGED <<wgot, woutcome>>
  BY <1>1, <1>3, SameCache DEF WP!FillReturns, AskTheWorker
<1>5. new \in WP!Cells /\ new # None /\ Complete(new)
  BY <1>3, EgressAssumption DEF WP!Cells, Complete
<1> HIDE DEF new
<1>6. cached'["egress"] = new /\ cached' \in [TheWorker -> WP!Cells]
  BY <1>4, <1>5 DEF WInv, TheWorker
<1>7. task' \in [Calls -> [Families -> W!Tasks]] /\ wpc' \in [Calls -> WP!Phases]
  BY <1>1, <1>4 DEF WInv, W!Idle, W!Tasks, WP!Phases, WP!Inside
<1>8. \A q \in Calls : wpc'[q] = "filling" => task'[q] = task[q] /\ wpc[q] = "filling"
  BY <1>1, <1>4 DEF WInv
<1>9. QED
  BY <1>4, <1>5, <1>6, <1>7, <1>8 DEF WInv, Complete

\* What the worker says fits the cache that asked.
LEMMA ToldIsValue == ASSUME WInv, NEW r \in Calls PROVE W!Told(r) \in Values
<1>1. wgot[r] # None => wgot[r].val.found \subseteq Families
  BY DEF WInv, WP!Cells, W!Results
<1>2. QED
  BY <1>1, EgressAssumption DEF W!Told

LEMMA WorkerInv ==
  ASSUME WInv, now \in Nat, NEW r \in Calls,
         W!Arrive(r) \/ W!Abort(r) \/ W!Step(r) \/ W!Network(r)
  PROVE  WInv'
<1>1. CASE W!Abort(r)
  <2>1. UNCHANGED <<wpc, woutcome, wgot, cached, task>>
    BY <1>1, SameCache DEF W!Abort, WP!Cancel
  <2>2. QED
    BY <2>1 DEF WInv, Complete
<1>2. CASE W!Gated(r)
  <2>1. WP!Step(r) /\ UNCHANGED task
    BY <1>2, SameCache DEF W!Gated
  <2>2. QED
    BY <2>1, WorkerWaitsInv, ServeInv DEF WP!Step
<1>3. CASE W!Step(r)
  BY <1>2, <1>3, DiscoverInv, CatchInv, GatherThrowsInv, GatherInv DEF W!Step
<1>4. QED
  BY <1>1, <1>3, ArriveInv, NetworkInv

------------------------------------------------------------------------------
(* A step of the whole, seen from each side                                 *)

\* A step of the whole is a step of the replicas' caches, or one they do not
\* see; and it keeps what is known of the worker.
LEMMA InfoStep ==
  ASSUME IInv, WInv, [InfoNext]_infoVars
  PROVE  [CacheNext]_cacheVars /\ WInv'
<1>1. now \in Nat
  BY CacheAssumption DEF IInv, TypeOK
<1>2. UNCHANGED workerVars => WInv'
  BY DEF workerVars, WInv, Complete
<1>3. CASE Clock
  BY <1>2, <1>3 DEF Clock, CacheNext
<1>4. ASSUME NEW r \in Calls, Cancel(r) /\ UNCHANGED <<workerVars, reading>>
      PROVE  [CacheNext]_cacheVars /\ WInv'
  BY <1>2, <1>4 DEF CacheNext
<1>5. ASSUME NEW r \in Calls, ApiStep(r) PROVE [CacheNext]_cacheVars /\ WInv'
  BY <1>2, <1>5 DEF ApiStep, CacheNext, Factory
<1>6. ASSUME NEW r \in Calls, Ask(r) \/ Answer(r) \/ Body(r)
      PROVE  [CacheNext]_cacheVars /\ WInv'
  <2>1. CASE Ask(r)
    BY <1>1, <2>1, WorkerInv DEF Ask, CacheNext, Factory
  <2>2. CASE Reply(r)
    BY <1>2, <2>2, ToldIsValue DEF Reply, CacheNext, Factory
  <2>3. CASE Break(r) \/ ReadFails(r)
    BY <1>2, <2>3 DEF Break, ReadFails, CacheNext, Factory
  <2>4. CASE Headers(r)
    BY <1>2, <2>4 DEF Headers
  <2>5. QED
    BY <1>6, <2>1, <2>2, <2>3, <2>4 DEF Answer, Body
<1>7. ASSUME NEW r \in Calls, Hangup(r) PROVE [CacheNext]_cacheVars /\ WInv'
  BY <1>1, <1>7, WorkerInv DEF Hangup
<1>8. ASSUME NEW r \in Calls, WorkerStep(r) PROVE [CacheNext]_cacheVars /\ WInv'
  BY <1>1, <1>8, WorkerInv DEF WorkerStep
<1>9. CASE UNCHANGED infoVars
  BY <1>2, <1>9 DEF infoVars
<1>10. QED
  BY <1>3, <1>4, <1>5, <1>6, <1>7, <1>8, <1>9 DEF InfoNext

\* And, unless every family is configured, it is a step of the cache inside the
\* worker or one that this cache does not see.
LEMMA WorkerCacheStep ==
  ASSUME WInv, now \in Nat, Known # Families, [InfoNext]_infoVars
  PROVE  [WP!CacheNext]_(WP!cacheVars)
<1>1. CASE Clock
  <2>1. WP!Tick
    BY <1>1 DEF Clock, Tick, workerVars, WP!Tick
  <2>2. QED
    BY <2>1 DEF WP!CacheNext
<1>2. ASSUME NEW r \in Calls, WP!Cancel(r) \/ WP!Step(r) \/ WP!Factory(r)
      PROVE  WP!CacheNext
  BY <1>2 DEF WP!CacheNext
<1>3. ASSUME NEW r \in Calls, Ask(r) PROVE WP!CacheNext
  <2>1. WP!Call(r)
    BY <1>3, SameCache DEF Ask, W!Arrive
  <2>2. QED
    BY <1>2, <2>1 DEF WP!Step
<1>4. ASSUME NEW r \in Calls, Hangup(r) PROVE WP!CacheNext
  BY <1>2, <1>4, SameCache DEF Hangup, W!Abort
<1>5. ASSUME NEW r \in Calls, WorkerStep(r) PROVE [WP!CacheNext]_(WP!cacheVars)
  <2>1. CASE W!Network(r)
    BY <1>5, <2>1 DEF WorkerStep, W!Network, W!Respond, WP!cacheVars
  <2>2. CASE W!Gated(r)
    BY <1>2, <2>2, SameCache DEF W!Gated
  <2>3. CASE W!Discover(r)
    BY <1>2, <2>3, SameCache DEF W!Discover, WP!Factory
  <2>4. CASE \E f \in Families : W!Catch(r, f)
    BY <1>5, <2>4 DEF WorkerStep, W!Catch, WP!cacheVars
  <2>5. CASE W!GatherThrows(r)
    BY <1>2, <2>5, SameCache DEF W!GatherThrows, WP!Factory
  <2>6. CASE W!Gather(r)
    <3> DEFINE g == [found |-> W!Ending(r, "found"), lost |-> W!Ending(r, "lost")]
    <3>1. g \in W!Results
      BY DEF W!Results, W!Ending
    <3>2. W!Cache!FillReturns(r, g)
      BY <2>6 DEF W!Gather
    <3> HIDE DEF g
    <3>3. WP!FillReturns(r, g)
      BY <3>1, <3>2, SameCache
    <3>4. QED
      BY <1>2, <3>1, <3>3 DEF WP!Factory
  <2>7. QED
    BY <1>5, <2>1, <2>2, <2>3, <2>4, <2>5, <2>6 DEF WorkerStep, W!Step
<1>6. ASSUME UNCHANGED workerVars, UNCHANGED now PROVE UNCHANGED WP!cacheVars
  BY <1>6 DEF workerVars, WP!cacheVars
<1>7. ASSUME NEW r \in Calls, Cancel(r) PROVE UNCHANGED now
  BY <1>7 DEF Cancel
<1>8. ASSUME NEW r \in Calls, ApiStep(r) \/ Answer(r) \/ Body(r)
      PROVE  UNCHANGED workerVars /\ UNCHANGED now
  BY <1>8 DEF ApiStep, Answer, Body, Headers, Reply, Break, ReadFails, cacheVars, Step, Call, Compare, Hit, Enqueue, GiveUp, Found,
              Store, FillCancelled, FillReturns, FillThrows
<1>9. CASE UNCHANGED infoVars
  BY <1>6, <1>9 DEF infoVars, cacheVars
<1>10. QED
  BY <1>1, <1>3, <1>4, <1>5, <1>6, <1>7, <1>8, <1>9 DEF InfoNext

------------------------------------------------------------------------------
(* The theorems                                                             *)

LEMMA InfoInvariance == InfoSpec => [](IInv /\ WInv)
<1>1. InfoInit => IInv /\ WInv
  BY InitIInv, InitWInv DEF InfoInit
<1>2. IInv /\ WInv /\ [InfoNext]_infoVars => (IInv /\ WInv)'
  BY InfoStep, NextIInv
<1>3. QED
  BY <1>1, <1>2, PTL DEF InfoSpec

\* NetworkInfo, with the worker, the network and connections that hang up, is
\* one of the things the factory of TtlCache may do: what is proved of the
\* cache holds of it.
THEOREM ImplementsCache == InfoSpec => CacheSpec
<1>1. InfoInit => Init
  BY DEF InfoInit
<1>2. IInv /\ WInv /\ [InfoNext]_infoVars => [CacheNext]_cacheVars
  BY InfoStep
<1>3. QED
  BY <1>1, <1>2, InfoInvariance, PTL DEF InfoSpec, CacheSpec

\* Unless every address is configured, the worker implements the cache too.
THEOREM WorkerImplementsCache ==
  ASSUME Known # Families
  PROVE  InfoSpec => WP!CacheSpec
<1>1. InfoInit => WP!Init
  BY DEF InfoInit, W!Init, W!Cache!Init, WP!Init, TheWorker
<1>2. IInv /\ WInv /\ [InfoNext]_infoVars => [WP!CacheNext]_(WP!cacheVars)
  BY WorkerCacheStep, CacheAssumption DEF IInv, TypeOK
<1>3. QED
  BY <1>1, <1>2, InfoInvariance, PTL DEF InfoSpec, WP!CacheSpec

\* No caller is told of an answer that was older than CacheFor, or of a complete
\* failure older than FailureFor, when its call came.
THEOREM WorkerFreshness == InfoSpec => []EgressFresh
<1>1. CASE Known = Families
  <2>1. IInv /\ WInv => EgressFresh
    BY <1>1 DEF EgressFresh, W!EgressFresh
  <2>2. QED
    BY <2>1, InfoInvariance, PTL
<1>2. CASE Known # Families
  <2>1. InfoSpec => []WP!ServedFresh
    BY <1>2, WorkerImplementsCache, WorkerCacheAssumption, WP!FreshnessOfAnswers, PTL
  <2>2. WP!ServedFresh => EgressFresh
    BY DEF WP!ServedFresh, EgressFresh, W!EgressFresh, W!Lifetime
  <2>3. QED
    BY <2>1, <2>2, PTL
<1>3. QED
  BY <1>1, <1>2

\* Whoever hangs up in the middle of a discovery, no caller is told, and nothing
\* caches, that an address is missing unless the network lost it.
THEOREM AbsencesAreReal == InfoSpec => []AbsenceIsReal
<1>1. WInv => AbsenceIsReal
  <2> SUFFICES ASSUME WInv, NEW r \in Calls, woutcome[r] = "value"
               PROVE  W!Told(r) \cup (IF wgot[r] = None THEN {} ELSE wgot[r].val.lost) = Families
    BY DEF AbsenceIsReal, W!AbsenceIsReal
  <2>1. CASE wgot[r] = None
    BY <2>1 DEF WInv, W!Told
  <2>2. CASE wgot[r] # None
    <3>1. Known \cup wgot[r].val.found \cup wgot[r].val.lost = Families
      BY <2>2 DEF WInv, Complete
    <3>2. QED
      BY <2>2, <3>1 DEF W!Told
  <2>3. QED
    BY <2>1, <2>2
<1>2. QED
  BY <1>1, InfoInvariance, PTL

\* Neither cache serves what had expired when its call came.
THEOREM StaleNowhere == InfoSpec => []NothingStale
<1>1. InfoSpec => []ServedFresh
  BY ImplementsCache, FreshnessOfAnswers, PTL
<1>2. ServedFresh /\ EgressFresh => NothingStale
  BY DEF NothingStale
<1>3. QED
  BY <1>1, <1>2, WorkerFreshness, PTL
==============================================================================
