---------------------------- MODULE VisitorProofs ----------------------------
(***************************************************************************)
(* Proofs about what a visitor enters and is shown: the two hooks of the   *)
(* pages and the panels and forms on them, for any number of runs, fetches *)
(* and lookups and any failures the API answers; the notices, the theme    *)
(* and what covers a page; the status and the bandwidth page; and the      *)
(* pipeline of a diagnostic, for every text, every answer of DNS and every *)
(* path.                                                                   *)
(***************************************************************************)
EXTENDS PageViews, DiagnosticPage, BgpLookup, Notices, ThemeSwitch, Shell,
        StatusService, TrafficService, DiagnosticsPipeline, ProofLemmas


(***************************************************************************)
(* useApiQuery, and what the pages show of it                              *)
(***************************************************************************)

\* Only the newest fetch may be not aborted, so only its answer is still taken; a new
\* panel has none yet.
QueryInv ==
  /\ QueryTypeOK
  /\ controller \in {0, fetches}
  /\ \A k \in 1..MaxFetches :
       /\ fetch[k] = "none" <=> k > fetches
       /\ k <= fetches /\ k # controller => k \in aborted
       /\ fetch[k] = "abort" => k \in aborted
  /\ data # 0 => fetch[data] = "over"
  /\ RefreshTold

\* A page that polls without what the server has rendered has a fetch that counts, and
\* that fetch leaves data or an error behind.
Served ==
  /\ polling /\ initial # "ok" => controller # 0 /\ controller \notin aborted
  /\ controller # 0 /\ controller \notin aborted /\ fetch[controller] = "over" => HasData \/ HasError

LEMMA QueryInitInv == QueryInit => QueryInv /\ Served
<1> SUFFICES ASSUME QueryInit PROVE QueryInv /\ Served
  OBVIOUS
<1>1. QueryTypeOK
  <2>1. fetch \in [1..MaxFetches -> {"none", "pending", "answer", "failure", "abort", "over"}]
    BY DEF QueryInit
  <2>2. refreshing \in BOOLEAN /\ polling \in BOOLEAN
    BY DEF QueryInit
  <2>3. fetches \in 0..MaxFetches /\ controller \in 0..fetches
    BY QueryAssumption DEF QueryInit
  <2>4. aborted \subseteq 1..fetches /\ data \in 0..fetches /\ error \in 0..fetches
    BY DEF QueryInit
  <2>5. initial \in {"ok", "failed", "none"}
    BY DEF QueryInit
  <2>6. QED
    BY <2>1, <2>2, <2>3, <2>4, <2>5 DEF QueryTypeOK
<1>2. RefreshTold /\ Served
  BY DEF QueryInit, RefreshTold, Served
<1>3. ASSUME NEW k \in 1..MaxFetches
      PROVE  fetch[k] = "none" /\ k > fetches
  BY QueryAssumption DEF QueryInit
<1>4. controller = 0 /\ data = 0
  BY DEF QueryInit
<1>5. \A k \in 1..MaxFetches :
        /\ fetch[k] = "none" <=> k > fetches
        /\ k <= fetches /\ k # controller => k \in aborted
        /\ fetch[k] = "abort" => k \in aborted
  BY <1>3, <1>4 DEF QueryInit
<1>6. QED
  BY <1>1, <1>2, <1>4, <1>5 DEF QueryInv

\* The part of a step that starts a fetch.
LEMMA FetchKeeps ==
  ASSUME QueryInv, Fetch, polling' \in BOOLEAN
  PROVE  QueryInv' /\ Served' /\ data' = data
<1>1. /\ MaxFetches \in Nat /\ fetches \in Nat /\ fetches < MaxFetches
      /\ fetches' = fetches + 1 /\ controller' = fetches + 1
      /\ aborted' = aborted \cup ({controller} \ {0}) /\ controller \in {0, fetches}
      /\ fetch' = [fetch EXCEPT ![fetches + 1] = "pending"]
      /\ refreshing' = TRUE /\ data' = data /\ error' = error /\ initial' = initial
  BY QueryAssumption DEF Fetch, QueryInv, QueryTypeOK
<1>2. QueryTypeOK'
  BY <1>1 DEF QueryInv, QueryTypeOK
<1>3. controller' \in {0, fetches'}
  BY <1>1
<1>4. ASSUME NEW k \in 1..MaxFetches
      PROVE  /\ fetch'[k] = "none" <=> k > fetches'
             /\ k <= fetches' /\ k # controller' => k \in aborted'
             /\ fetch'[k] = "abort" => k \in aborted'
  BY <1>1 DEF QueryInv, QueryTypeOK
<1>5. data' # 0 => fetch'[data'] = "over"
  BY <1>1 DEF QueryInv, QueryTypeOK
<1>6. fetch'[controller'] = "pending" /\ controller' # 0 /\ controller' \notin aborted'
  BY <1>1 DEF QueryInv, QueryTypeOK
<1>7. RefreshTold'
  BY <1>1, <1>6 DEF QueryInv, RefreshTold
<1>8. Served'
  BY <1>6 DEF Served
<1>9. QED
  BY <1>1, <1>2, <1>3, <1>4, <1>5, <1>7, <1>8 DEF QueryInv

LEMMA FetchEndsKeeps ==
  ASSUME QueryInv, Served, NEW k \in 1..MaxFetches, FetchEnds(k)
  PROVE  QueryInv' /\ Served' /\ data' >= data /\ (data' # data => data' = controller)
<1>1. /\ fetch[k] \in {"answer", "failure", "abort"}
      /\ fetch' = [fetch EXCEPT ![k] = "over"]
      /\ fetches' = fetches /\ controller' = controller /\ aborted' = aborted /\ polling' = polling
      /\ initial' = initial
      /\ MaxFetches \in Nat /\ fetches \in Nat /\ controller \in {0, fetches}
  BY QueryAssumption DEF FetchEnds, Ended, QueryInv, QueryTypeOK
<1>2. k \in 1..fetches /\ data # k
  BY <1>1 DEF QueryInv, QueryTypeOK
<1>3. k \notin aborted => k = fetches /\ k = controller /\ data < k /\ fetch[k] # "abort"
  BY <1>1, <1>2 DEF QueryInv, QueryTypeOK
<1>4. /\ data' \in {data, k} /\ (data' = k => k \notin aborted)
      /\ error' \in {0, error, k} /\ (error' = k /\ k # error => k \notin aborted /\ data' = data)
      /\ data' = k => error' = 0
      /\ error' # error => k \notin aborted
      /\ refreshing' = (refreshing /\ controller # k)
      /\ k \in aborted => data' = data /\ error' = error
      /\ k \notin aborted => data' = k \/ error' = k
  BY <1>1, <1>2, <1>3 DEF FetchEnds
<1>5. QueryTypeOK'
  BY <1>1, <1>2, <1>4 DEF QueryInv, QueryTypeOK
<1>6. ASSUME NEW j \in 1..MaxFetches
      PROVE  /\ fetch'[j] = "none" <=> j > fetches'
             /\ j <= fetches' /\ j # controller' => j \in aborted'
             /\ fetch'[j] = "abort" => j \in aborted'
  BY <1>1, <1>2 DEF QueryInv, QueryTypeOK
<1>7. data' # 0 => fetch'[data'] = "over"
  BY <1>1, <1>2, <1>4 DEF QueryInv, QueryTypeOK
<1>8. controller # 0 => controller \in 1..MaxFetches
  BY <1>1 DEF QueryInv, QueryTypeOK
<1>9. controller # 0 => fetch'[controller'] = IF controller = k THEN "over" ELSE fetch[controller]
  BY <1>1, <1>2, <1>8 DEF QueryInv, QueryTypeOK
<1>10. RefreshTold'
  <2>1. refreshing' <=> controller' # 0 /\ fetch'[controller'] # "over"
    BY <1>1, <1>2, <1>4, <1>9 DEF QueryInv, RefreshTold
  <2>2. error' # 0 => error' > data'
    BY <1>1, <1>2, <1>3, <1>4 DEF QueryInv, QueryTypeOK, RefreshTold
  <2>3. QED
    BY <2>1, <2>2 DEF RefreshTold
<1>11. Served'
  <2>1. CASE k \in aborted
    BY <2>1, <1>1, <1>4, <1>9 DEF Served, HasData, HasError
  <2>2. CASE k \notin aborted
    BY <2>2, <1>1, <1>2, <1>4 DEF Served, HasData, HasError
  <2>3. QED
    BY <2>1, <2>2
<1>12. data' >= data
  BY <1>1, <1>3, <1>4 DEF QueryInv, QueryTypeOK
<1>13. data' # data => data' = controller
  BY <1>3, <1>4
<1>14. QED
  BY <1>1, <1>5, <1>6, <1>7, <1>10, <1>11, <1>12, <1>13 DEF QueryInv

\* A step of the query, and what it does to the data.
LEMMA QueryNextInv ==
  ASSUME QueryInv, Served, [QueryNext]_queryVars
  PROVE  QueryInv' /\ Served' /\ data' >= data /\ (data' # data => data' = controller /\ fetches' = fetches)
<1> fetches \in Nat /\ data \in Nat
  BY QueryAssumption DEF QueryInv, QueryTypeOK
<1>1. CASE SetUp
  <2>1. CASE initial # "ok"
    BY <1>1, <2>1, FetchKeeps DEF SetUp
  <2>2. CASE initial = "ok"
    <3>1. polling' = TRUE /\ UNCHANGED <<initial, fetches, controller, aborted, fetch, data, error, refreshing>>
      BY <1>1, <2>2 DEF SetUp
    <3>2. QueryInv'
      BY <3>1 DEF QueryInv, QueryTypeOK, RefreshTold
    <3>3. Served'
      BY <3>1, <2>2 DEF Served, HasData, HasError
    <3>4. QED
      BY <3>1, <3>2, <3>3
  <2>3. QED
    BY <2>1, <2>2
<1>2. CASE CleanUp
  <2>1. /\ aborted' = aborted \cup ({controller} \ {0}) /\ polling' = FALSE
        /\ UNCHANGED <<initial, fetches, controller, fetch, data, error, refreshing>>
    BY <1>2 DEF CleanUp
  <2>2. aborted' \subseteq 1..fetches
    BY <2>1 DEF QueryInv, QueryTypeOK
  <2>3. QueryTypeOK'
    BY <2>1, <2>2 DEF QueryInv, QueryTypeOK
  <2>4. RefreshTold'
    BY <2>1 DEF QueryInv, RefreshTold
  <2>5. ASSUME NEW k \in 1..MaxFetches
        PROVE  /\ fetch'[k] = "none" <=> k > fetches'
               /\ k <= fetches' /\ k # controller' => k \in aborted'
               /\ fetch'[k] = "abort" => k \in aborted'
    BY <2>1 DEF QueryInv
  <2>6. Served'
    BY <2>1 DEF Served, HasData, HasError
  <2>7. QueryInv'
    BY <2>1, <2>3, <2>4, <2>5 DEF QueryInv
  <2>8. QED
    BY <2>1, <2>6, <2>7
<1>3. CASE Refresh
  BY <1>3, FetchKeeps DEF Refresh, QueryInv, QueryTypeOK
<1>4. ASSUME NEW k \in 1..MaxFetches, FetchSettles(k)
      PROVE  QueryInv' /\ Served' /\ data' = data
  <2>1. /\ fetch[k] = "pending"
        /\ \E how \in {"answer", "failure", "abort"} :
             fetch' = [fetch EXCEPT ![k] = how] /\ (how = "abort" => k \in aborted)
        /\ UNCHANGED <<initial, fetches, controller, aborted, data, error, refreshing, polling>>
    BY <1>4 DEF FetchSettles
  <2>2. QueryTypeOK'
    BY <2>1 DEF QueryInv, QueryTypeOK
  <2>3. controller # 0 => controller \in 1..MaxFetches
    BY QueryAssumption DEF QueryInv, QueryTypeOK
  <2>4. RefreshTold'
    BY <2>1, <2>3 DEF QueryInv, QueryTypeOK, RefreshTold
  <2>5. Served'
    BY <2>1, <2>3 DEF QueryInv, QueryTypeOK, Served, HasData, HasError
  <2>6. ASSUME NEW j \in 1..MaxFetches
        PROVE  /\ fetch'[j] = "none" <=> j > fetches'
               /\ j <= fetches' /\ j # controller' => j \in aborted'
               /\ fetch'[j] = "abort" => j \in aborted'
    BY <2>1 DEF QueryInv, QueryTypeOK
  <2>7. data' # 0 => fetch'[data'] = "over"
    BY <2>1 DEF QueryInv, QueryTypeOK
  <2>8. QED
    BY <2>1, <2>2, <2>4, <2>5, <2>6, <2>7 DEF QueryInv
<1>5. ASSUME NEW k \in 1..MaxFetches, FetchEnds(k)
      PROVE  QueryInv' /\ Served' /\ data' >= data /\ (data' # data => data' = controller /\ fetches' = fetches)
  BY <1>5, FetchEndsKeeps DEF FetchEnds
<1>6. CASE UNCHANGED queryVars
  BY <1>6 DEF queryVars, QueryInv, QueryTypeOK, RefreshTold, Served, HasData, HasError
<1>7. QED
  BY <1>1, <1>2, <1>3, <1>4, <1>5, <1>6, FetchKeeps DEF QueryNext

\* The fetches of a panel ask for its range, and only the first panel has the server's data.
ViewInv ==
  /\ QueryInv /\ Served
  /\ initialRange \in Ranges /\ range \in Ranges
  /\ askedFor \in [1..MaxFetches -> Ranges]
  /\ initial # "none" => range = initialRange
  /\ data = 0 /\ HasData => range = initialRange
  /\ controller # 0 => askedFor[controller] = range
  /\ data # 0 => askedFor[data] = range

LEMMA ViewInitInv == ViewInit => ViewInv
BY QueryInitInv DEF ViewInit, QueryInit, ViewInv, HasData

\* A new panel: nothing the old one has started counts any more.
LEMMA SelectKeeps == ASSUME ViewInv, NEW next \in Ranges, Select(next) PROVE ViewInv'
<1>1. /\ aborted' = aborted \cup ({controller} \ {0}) /\ range' = next /\ initial' = "none"
      /\ controller' = 0 /\ data' = 0 /\ error' = 0 /\ refreshing' = FALSE /\ polling' = FALSE
      /\ UNCHANGED <<fetches, fetch, initialRange, askedFor>>
  BY DEF Select
<1>2. fetches \in Nat /\ QueryInv /\ controller \in {0, fetches} /\ aborted' \subseteq 1..fetches
  BY <1>1, QueryAssumption DEF ViewInv, QueryInv, QueryTypeOK
<1>3. QueryTypeOK'
  <2>1. /\ controller' \in 0..fetches' /\ data' \in 0..fetches' /\ error' \in 0..fetches'
        /\ aborted' \subseteq 1..fetches'
    BY <1>1, <1>2
  <2>2. initial' \in {"ok", "failed", "none"} /\ refreshing' \in BOOLEAN /\ polling' \in BOOLEAN
    BY <1>1
  <2>3. /\ fetches' \in 0..MaxFetches
        /\ fetch' \in [1..MaxFetches -> {"none", "pending", "answer", "failure", "abort", "over"}]
    BY <1>1, <1>2 DEF QueryInv, QueryTypeOK
  <2>4. QED
    BY <2>1, <2>2, <2>3 DEF QueryTypeOK
<1>4. ASSUME NEW k \in 1..MaxFetches
      PROVE  /\ fetch'[k] = "none" <=> k > fetches'
             /\ k <= fetches' /\ k # controller' => k \in aborted'
             /\ fetch'[k] = "abort" => k \in aborted'
  BY <1>1, <1>2 DEF QueryInv
<1>5. RefreshTold' /\ Served'
  BY <1>1 DEF RefreshTold, Served
<1>6. QueryInv'
  BY <1>1, <1>3, <1>4, <1>5 DEF QueryInv
<1>7. ~HasData'
  BY <1>1 DEF HasData
<1>8. QED
  BY <1>1, <1>5, <1>6, <1>7 DEF ViewInv

\* A step of the query starts one fetch at most, for the range of its panel.
LEMMA PanelKeeps == ASSUME ViewInv, PanelStep PROVE ViewInv' /\ data' >= data
<1>1. /\ QueryNext /\ UNCHANGED <<initialRange, range>>
      /\ askedFor' = [k \in 1..MaxFetches |-> IF k \in (fetches + 1)..fetches' THEN range ELSE askedFor[k]]
  BY DEF PanelStep
<1>2. /\ QueryInv' /\ Served' /\ data' >= data
      /\ data' # data => data' = controller /\ fetches' = fetches
  BY <1>1, QueryNextInv DEF ViewInv
<1>3. initial' = initial
  BY <1>1 DEF QueryNext, SetUp, CleanUp, Refresh, Fetch, FetchSettles, FetchEnds
<1>4. \/ controller' = controller /\ fetches' = fetches
      \/ controller' = fetches' /\ fetches' = fetches + 1
  BY <1>1 DEF QueryNext, SetUp, CleanUp, Refresh, Fetch, FetchSettles, FetchEnds
<1>5. /\ fetches \in Nat /\ fetches' \in 0..MaxFetches /\ MaxFetches \in Nat
      /\ data \in 0..fetches /\ data' \in 0..fetches' /\ controller \in {0, fetches}
  BY <1>2, QueryAssumption DEF ViewInv, QueryInv, QueryTypeOK
<1>6. askedFor' \in [1..MaxFetches -> Ranges]
  BY <1>1 DEF ViewInv
<1>7. controller' # 0 => askedFor'[controller'] = range'
  BY <1>1, <1>4, <1>5 DEF ViewInv
<1>8. data' # 0 => askedFor'[data'] = range'
  <2>1. CASE data' = data
    BY <2>1, <1>1, <1>4, <1>5 DEF ViewInv
  <2>2. CASE data' # data
    BY <2>2, <1>1, <1>2, <1>5 DEF ViewInv
  <2>3. QED
    BY <2>1, <2>2
<1>9. data' = 0 /\ HasData' => range' = initialRange'
  BY <1>1, <1>2, <1>3, <1>5 DEF ViewInv, HasData
<1>10. QED
  BY <1>1, <1>2, <1>3, <1>6, <1>7, <1>8, <1>9 DEF ViewInv

LEMMA ViewNextInv == ViewInv /\ [ViewNext]_viewVars => ViewInv' /\ (data' \notin {0, data} => data' > data)
<1> SUFFICES ASSUME ViewInv, [ViewNext]_viewVars
             PROVE  ViewInv' /\ (data' \notin {0, data} => data' > data)
  OBVIOUS
<1>1. ASSUME NEW next \in Ranges, Select(next) PROVE ViewInv' /\ data' = 0
  BY <1>1, SelectKeeps DEF Select
<1>2. CASE PanelStep
  <2>1. ViewInv' /\ data' >= data /\ data \in Nat /\ data' \in Nat
    BY <1>2, PanelKeeps, QueryAssumption DEF ViewInv, QueryInv, QueryTypeOK
  <2>2. QED
    BY <2>1
<1>3. CASE UNCHANGED viewVars
  BY <1>3 DEF viewVars, queryVars, ViewInv, QueryInv, QueryTypeOK, RefreshTold, Served, HasData, HasError
<1>4. QED
  BY <1>1, <1>2, <1>3 DEF ViewNext

\* However polls, refreshes and clean-ups abort one another, the button, the notice
\* and the data belong together.
THEOREM RefreshesTold == ViewSpec => []RefreshTold
<1>1. ViewInv => RefreshTold
  BY DEF ViewInv, QueryInv
<1>2. QED
  BY ViewInitInv, ViewNextInv, <1>1, PTL DEF ViewSpec

\* However late an answer arrives, it replaces nothing that is newer.
THEOREM DataOnlyAdvances == ViewSpec => NeverGoesBack
<1>1. ViewInv /\ [ViewNext]_viewVars => [data' \notin {0, data} => data' > data]_queryVars
  BY ViewNextInv
<1>2. QED
  BY ViewInitInv, ViewNextInv, <1>1, PTL DEF ViewSpec, NeverGoesBack

\* However ranges are chosen while answers are on their way, and whatever panels that
\* leaves behind, what is shown is of the range that is selected.
THEOREM RangesShown == ViewSpec => []RangeShown
<1>1. ViewInv => RangeShown
  BY DEF ViewInv, RangeShown
<1>2. QED
  BY ViewInitInv, ViewNextInv, <1>1, PTL DEF ViewSpec

\* While the newest fetch that counts is out a refresh is; when it is not, there is
\* something to show.
LEMMA NothingStuck == ViewInv => NeverStuck
<1> SUFFICES ASSUME ViewInv, polling
             PROVE  /\ \A view \in Pages \cup Cards : view.shows = "skeleton" => Out
                    /\ \A page \in Pages : page.shows = "failure" => Out \/ page.button
  BY DEF NeverStuck
<1>1. HasData \/ (controller # 0 /\ controller \notin aborted)
  BY DEF ViewInv, Served, HasData
<1>2. Loading => Out
  BY <1>1 DEF ViewInv, Served, Loading, Out
<1>3. ~HasData => Out \/ RefreshButton
  BY <1>1 DEF ViewInv, QueryInv, RefreshTold, Out, RefreshButton
<1>4. /\ Body = "skeleton" => Out
      /\ Body = "failure" => ~HasData /\ HasError
      /\ LoadingFirst = "skeleton" => Out
  BY <1>2 DEF Body, LoadingFirst, Loading
<1>5. /\ StatusView.shows = Body /\ ConnectivityView.shows = Body /\ NetworkView.shows = Body
      /\ TrafficPanel.shows = Body
      /\ \A view \in Cards : view.shows \in {Body, LoadingFirst}
      /\ \A off \in BOOLEAN : BgpView(off).shows \in {Body, "not offered", "failure"}
      /\ \A off \in BOOLEAN : BgpView(off).shows = "failure" => BgpView(off).button
  <2>1. \A view \in Cards : view.shows \in {Body, LoadingFirst}
    BY DEF Cards, StatusHero, MetricGrid, StatusPill, NetworkCard, LatencyCard, ActivityCard, Card
  <2>2. QED
    BY <1>4, <2>1 DEF StatusView, ConnectivityView, NetworkView, TrafficPanel, BgpView
<1>6. /\ Body = "failure" => StatusView.button /\ ConnectivityView.button /\ NetworkView.button
      /\ Body = "failure" => Out \/ TrafficPanel.button
  BY <1>3, <1>4 DEF StatusView, ConnectivityView, NetworkView, TrafficPanel
<1>7. ASSUME NEW view \in Pages \cup Cards, view.shows = "skeleton" PROVE Out
  BY <1>4, <1>5, <1>7 DEF Pages
<1>8. ASSUME NEW view \in Pages, view.shows = "failure" PROVE Out \/ view.button
  BY <1>5, <1>6, <1>8 DEF Pages
<1>9. QED
  BY <1>7, <1>8

\* Whatever aborts whatever, no page waits for a fetch that will not be taken, and each
\* one that has failed is tried again or can be.
THEOREM PagesNeverStuck == ViewSpec => []NeverStuck
BY ViewInitInv, ViewNextInv, NothingStuck, PTL DEF ViewSpec

\* A page says whether it is waiting, and never waits for nothing.
THEOREM WaitsAreShown == ViewSpec => []WaitShown
<1>1. RefreshTold /\ NeverStuck => WaitShown
  BY DEF WaitShown
<1>2. QED
  BY <1>1, RefreshesTold, PagesNeverStuck, PTL

(***************************************************************************)
(* useDiagnostic                                                           *)
(***************************************************************************)

\* The current controller is the newest run's or none, and a promise is rejected as
\* aborted only if its signal was given.
HookInv ==
  /\ HookTypeOK
  /\ current \in {0, attempt}
  /\ \A k \in 1..MaxRuns :
       /\ promise[k] = "none" <=> k > attempt
       /\ promise[k] = "abort" => k \in signals
  /\ NewestShown

\* What setState and the countdown's effect leave true, whatever is set.
LEMMA SetStateKeeps ==
  ASSUME HookTypeOK, NEW s, SetState(s),
         s.status \in {"idle", "running", "success", "error", "cancelled"},
         s.error.retry \in Nat,
         left' = left, mounted' = mounted,
         ~armed /\ mounted => left <= RetryAfter(state)
  PROVE  /\ state'.status \in {"idle", "running", "success", "error", "cancelled"}
         /\ state'.error.retry \in Nat
         /\ armed' \in BOOLEAN
         /\ ~armed' /\ mounted' => left' <= RetryAfter(state')
<1>1. state' \in {s, state} /\ (mounted => state' = s)
  BY DEF SetState
<1>2. armed' <=> armed \/ (mounted /\ (RetryAfter(s) # RetryAfter(state) \/ attempt' # attempt))
  BY DEF SetState
<1>3. armed' \in BOOLEAN
  BY DEF SetState, HookTypeOK
<1>4. ~armed' /\ mounted => ~armed /\ RetryAfter(s) = RetryAfter(state)
  BY <1>2
<1>5. ~armed' /\ mounted' => left' <= RetryAfter(state')
  BY <1>1, <1>4
<1>6. QED
  BY <1>1, <1>3, <1>5 DEF HookTypeOK

LEMMA HookInitInv == HookInit => HookInv
<1> SUFFICES ASSUME HookInit PROVE HookInv
  OBVIOUS
<1>1. state.status = "idle" /\ state.error.retry = 0
  BY DEF HookInit, Idle, NoError
<1>2. promise \in [1..MaxRuns -> {"none", "pending", "result", "failure", "abort", "over"}]
  BY DEF HookInit
<1>3. HookTypeOK
  <2>1. attempt \in 0..MaxRuns /\ current \in 0..MaxRuns /\ signals \subseteq 1..MaxRuns
    BY HookAssumption DEF HookInit
  <2>2. armed \in BOOLEAN /\ left \in Nat /\ mounted \in BOOLEAN
    BY DEF HookInit
  <2>3. QED
    BY <1>1, <1>2, <2>1, <2>2 DEF HookTypeOK
<1>4. RetryAfter(state) \in Nat
  BY <1>1 DEF RetryAfter
<1>5. NewestShown
  BY <1>1, <1>4 DEF HookInit, NewestShown
<1>6. ASSUME NEW k \in 1..MaxRuns
      PROVE  (promise[k] = "none" <=> k > attempt) /\ (promise[k] = "abort" => k \in signals)
  BY HookAssumption DEF HookInit
<1>7. current = 0
  BY DEF HookInit
<1>8. QED
  BY <1>3, <1>5, <1>6, <1>7 DEF HookInv

LEMMA RunKeeps == ASSUME HookInv, Run PROVE HookInv'
<1> DEFINE s == [status |-> "running", run |-> attempt', error |-> NoError]
<1>1. /\ MaxRuns \in Nat /\ attempt \in Nat /\ attempt < MaxRuns /\ mounted
      /\ attempt' = attempt + 1 /\ current' = attempt + 1
      /\ signals' = signals \cup ({current} \ {0})
      /\ promise' = [promise EXCEPT ![attempt + 1] = "pending"]
      /\ SetState(s) /\ left' = left /\ mounted' = mounted
  BY HookAssumption DEF Run, AbortCurrent, HookInv, HookTypeOK
<1>2. s.status = "running" /\ s.run = attempt' /\ s.error.retry = 0
  BY DEF NoError
<1>3. ~armed /\ mounted => left <= RetryAfter(state)
  BY DEF HookInv, NewestShown
<1>4. /\ state'.status \in {"idle", "running", "success", "error", "cancelled"}
      /\ state'.error.retry \in Nat
      /\ armed' \in BOOLEAN
      /\ ~armed' /\ mounted' => left' <= RetryAfter(state')
  <2> HIDE DEF s
  <2>1. HookTypeOK
    BY DEF HookInv
  <2>2. QED
    BY <1>1, <1>2, <1>3, <2>1, SetStateKeeps
<1>5. state' = s
  BY <1>1 DEF SetState
<1>6. HookTypeOK'
  BY <1>1, <1>4 DEF HookInv, HookTypeOK
<1>7. promise'[attempt'] = "pending"
  BY <1>1 DEF HookInv, HookTypeOK
<1>8. NewestShown'
  BY <1>1, <1>2, <1>4, <1>5, <1>7 DEF NewestShown
<1>9. ASSUME NEW k \in 1..MaxRuns
      PROVE  (promise'[k] = "none" <=> k > attempt') /\ (promise'[k] = "abort" => k \in signals')
  BY <1>1 DEF HookInv, HookTypeOK
<1>10. QED
  BY <1>1, <1>6, <1>8, <1>9 DEF HookInv

LEMMA ResetKeeps == ASSUME HookInv, Reset PROVE HookInv'
<1>1. /\ mounted /\ attempt' = attempt /\ current' = 0
      /\ signals' = signals \cup ({current} \ {0})
      /\ SetState(Idle) /\ promise' = promise /\ left' = left /\ mounted' = mounted
  BY DEF Reset, AbortCurrent
<1>2. Idle.status = "idle" /\ Idle.error.retry = 0
  BY DEF Idle, NoError
<1>3. /\ state'.status \in {"idle", "running", "success", "error", "cancelled"}
      /\ state'.error.retry \in Nat
      /\ armed' \in BOOLEAN
      /\ ~armed' /\ mounted' => left' <= RetryAfter(state')
  <2>1. HookTypeOK /\ (~armed /\ mounted => left <= RetryAfter(state))
    BY DEF HookInv, NewestShown
  <2>2. QED
    BY <1>1, <1>2, <2>1, SetStateKeeps
<1>4. signals' \subseteq 1..MaxRuns
  BY <1>1 DEF HookInv, HookTypeOK
<1>5. HookTypeOK'
  BY <1>1, <1>3, <1>4, HookAssumption DEF HookInv, HookTypeOK
<1>6. state'.status = "idle"
  BY <1>1, <1>2 DEF SetState
<1>7. NewestShown'
  BY <1>3, <1>6 DEF NewestShown
<1>8. QED
  BY <1>1, <1>5, <1>7 DEF HookInv

LEMMA ContinueKeeps ==
  ASSUME HookInv, NEW k \in 1..MaxRuns, Continue(k)
  PROVE  HookInv'
<1>1. /\ promise[k] \in {"result", "failure", "abort"}
      /\ promise' = [promise EXCEPT ![k] = "over"]
      /\ UNCHANGED <<attempt, current, signals, left, mounted>>
      /\ attempt \in Nat /\ current \in {0, attempt}
  BY DEF Continue, HookInv, HookTypeOK
<1>2. ASSUME NEW j \in 1..MaxRuns
      PROVE  (promise'[j] = "none" <=> j > attempt') /\ (promise'[j] = "abort" => j \in signals')
  BY <1>1 DEF HookInv, HookTypeOK
<1>3. promise' \in [1..MaxRuns -> {"none", "pending", "result", "failure", "abort", "over"}]
  BY <1>1 DEF HookInv, HookTypeOK
<1>4. CASE current = k
  <2>1. PICK f \in Failures : SetState(Outcome(k, f))
    BY <1>1, <1>4 DEF Continue
  <2>2. f.retry \in Nat
    BY HookAssumption DEF Failures
  <2> DEFINE s == Outcome(k, f)
  <2>3. /\ s.status \in {"success", "cancelled", "error"}
        /\ s.run = k /\ s.error.retry \in Nat
        /\ s.status = "cancelled" => k \in signals
    <3>1. NoError.retry = 0 /\ ToApiError(f).retry = f.retry
      BY DEF NoError, ToApiError
    <3>2. CASE promise[k] = "result"
      BY <3>1, <3>2 DEF Outcome
    <3>3. CASE promise[k] # "result" /\ (promise[k] = "abort" \/ k \in signals)
      BY <3>1, <3>3 DEF Outcome, HookInv
    <3>4. CASE promise[k] # "result" /\ ~(promise[k] = "abort" \/ k \in signals)
      BY <2>2, <3>1, <3>4 DEF Outcome
    <3>5. QED
      BY <3>2, <3>3, <3>4
  <2> HIDE DEF s
  <2>4. SetState(s)
    BY <2>1 DEF s
  <2>5. HookTypeOK /\ (~armed /\ mounted => left <= RetryAfter(state))
    BY DEF HookInv, NewestShown
  <2>6. /\ state'.status \in {"idle", "running", "success", "error", "cancelled"}
        /\ state'.error.retry \in Nat
        /\ armed' \in BOOLEAN
        /\ ~armed' /\ mounted' => left' <= RetryAfter(state')
    BY <1>1, <2>3, <2>4, <2>5, SetStateKeeps
  <2>7. HookTypeOK'
    BY <1>1, <1>3, <2>5, <2>6 DEF HookTypeOK
  <2>8. k = attempt
    BY <1>1, <1>4
  <2>9. state'.status # "idle" =>
          /\ state'.run = attempt' /\ current' = attempt'
          /\ ~(state'.status = "running" /\ mounted')
          /\ state'.status = "cancelled" => attempt' \in signals'
    <3>1. CASE mounted
      <4>1. state' = s
        BY <2>4, <3>1 DEF SetState
      <4>2. QED
        BY <1>1, <1>4, <2>3, <2>8, <4>1
    <3>2. CASE ~mounted
      <4>1. state' = state
        BY <2>4, <3>2 DEF SetState
      <4>2. QED
        BY <1>1, <3>2, <4>1 DEF HookInv, NewestShown
    <3>3. QED
      BY <3>1, <3>2
  <2>10. NewestShown'
    BY <2>6, <2>9 DEF NewestShown
  <2>11. QED
    BY <1>1, <1>2, <2>7, <2>10 DEF HookInv
<1>5. CASE current # k
  <2>1. state' = state /\ armed' = armed
    BY <1>5 DEF Continue
  <2>2. HookTypeOK'
    BY <1>1, <1>3, <2>1 DEF HookInv, HookTypeOK
  <2>3. NewestShown'
    <3>1. state.status # "idle" => attempt # k
      BY <1>5 DEF HookInv, NewestShown
    <3>2. attempt # k => promise'[attempt] = promise[attempt]
      BY <1>1 DEF HookInv, HookTypeOK
    <3>3. RetryAfter(state') = RetryAfter(state)
      BY <2>1
    <3>4. QED
      BY <1>1, <2>1, <3>1, <3>2, <3>3 DEF HookInv, NewestShown
  <2>4. QED
    BY <1>1, <1>2, <2>2, <2>3 DEF HookInv
<1>6. QED
  BY <1>4, <1>5

LEMMA HookNextInv == HookInv /\ [HookNext]_hookVars => HookInv'
<1> SUFFICES ASSUME HookInv, [HookNext]_hookVars PROVE HookInv'
  OBVIOUS
<1>1. CASE Run
  BY <1>1, RunKeeps
<1>2. CASE Cancel
  <2>1. /\ signals' = signals \cup ({current} \ {0})
        /\ UNCHANGED <<attempt, current, promise, state, armed, left, mounted>>
    BY <1>2 DEF Cancel, AbortCurrent
  <2>2. signals' \subseteq 1..MaxRuns
    <3>1. current = 0 \/ current \in 1..MaxRuns
      BY HookAssumption DEF HookInv, HookTypeOK
    <3>2. signals \subseteq 1..MaxRuns
      BY DEF HookInv, HookTypeOK
    <3>3. QED
      BY <2>1, <3>1, <3>2
  <2>3. HookTypeOK'
    BY <2>1, <2>2 DEF HookInv, HookTypeOK
  <2>4. NewestShown'
    BY <2>1 DEF HookInv, NewestShown, RetryAfter
  <2>5. QED
    BY <2>1, <2>3, <2>4 DEF HookInv
<1>3. CASE Reset
  BY <1>3, ResetKeeps
<1>4. CASE Unmount
  <2>1. /\ signals' = signals \cup ({current} \ {0}) /\ mounted' = FALSE /\ left' = 0
        /\ UNCHANGED <<attempt, current, promise, state, armed>>
    BY <1>4 DEF Unmount, AbortCurrent
  <2>2. signals' \subseteq 1..MaxRuns
    <3>1. current = 0 \/ current \in 1..MaxRuns
      BY HookAssumption DEF HookInv, HookTypeOK
    <3>2. signals \subseteq 1..MaxRuns
      BY DEF HookInv, HookTypeOK
    <3>3. QED
      BY <2>1, <3>1, <3>2
  <2>3. HookTypeOK'
    BY <2>1, <2>2 DEF HookInv, HookTypeOK
  <2>4. NewestShown'
    BY <2>1 DEF HookInv, NewestShown
  <2>5. QED
    BY <2>1, <2>3, <2>4 DEF HookInv
<1>5. CASE Arm
  <2>1. /\ armed' = FALSE /\ left' = RetryAfter(state)
        /\ UNCHANGED <<attempt, current, signals, promise, state, mounted>>
    BY <1>5 DEF Arm
  <2>2. RetryAfter(state) \in Nat /\ RetryAfter(state') = RetryAfter(state)
    BY <2>1 DEF RetryAfter, HookInv, HookTypeOK
  <2>3. HookTypeOK'
    BY <2>1, <2>2 DEF HookInv, HookTypeOK
  <2>4. NewestShown'
    BY <2>1, <2>2 DEF HookInv, NewestShown
  <2>5. QED
    BY <2>1, <2>3, <2>4 DEF HookInv
<1>6. CASE Second
  <2>1. /\ left > 0 /\ left' = left - 1
        /\ UNCHANGED <<attempt, current, signals, promise, state, armed, mounted>>
    BY <1>6 DEF Second
  <2>2. RetryAfter(state) \in Nat /\ RetryAfter(state') = RetryAfter(state)
    BY <2>1 DEF RetryAfter, HookInv, HookTypeOK
  <2>3. HookTypeOK'
    BY <2>1 DEF HookInv, HookTypeOK
  <2>4. NewestShown'
    BY <2>1, <2>2 DEF HookInv, HookTypeOK, NewestShown
  <2>5. QED
    BY <2>1, <2>3, <2>4 DEF HookInv
<1>7. ASSUME NEW k \in 1..MaxRuns, Settle(k) PROVE HookInv'
  <2>1. PICK how \in {"result", "failure", "abort"} :
          /\ promise' = [promise EXCEPT ![k] = how]
          /\ how = "abort" => k \in signals
    BY <1>7 DEF Settle
  <2>2. /\ promise[k] = "pending"
        /\ UNCHANGED <<attempt, current, signals, state, armed, left, mounted>>
    BY <1>7 DEF Settle
  <2>3. HookTypeOK'
    BY <2>1, <2>2 DEF HookInv, HookTypeOK
  <2>4. promise'[attempt] # "over" \/ promise'[attempt] = promise[attempt]
    BY <2>1 DEF HookInv, HookTypeOK
  <2>5. NewestShown'
    BY <2>2, <2>4 DEF HookInv, NewestShown, RetryAfter
  <2>6. QED
    BY <2>1, <2>2, <2>3, <2>5 DEF HookInv, HookTypeOK
<1>8. ASSUME NEW k \in 1..MaxRuns, Continue(k) PROVE HookInv'
  BY <1>8, ContinueKeeps
<1>9. CASE UNCHANGED hookVars
  BY <1>9 DEF hookVars, HookInv, HookTypeOK, NewestShown, RetryAfter
<1>10. QED
  BY <1>1, <1>2, <1>3, <1>4, <1>5, <1>6, <1>7, <1>8, <1>9 DEF HookNext

\* However runs, cancellations, resets and late answers interleave, what is shown, and
\* the countdown below it, is the newest run's.
THEOREM ShowsTheNewest == HookSpec => []NewestShown
<1>1. HookInv => NewestShown
  BY DEF HookInv
<1>2. QED
  BY HookInitInv, HookNextInv, <1>1, PTL DEF HookSpec

\* An error that is shown is what ToApiError made of a failure.
ErrorKnown == state.status = "error" => \E f \in Failures : state.error = ToApiError(f)

LEMMA ErrorKnownNext == ErrorKnown /\ [HookNext]_hookVars => ErrorKnown'
<1> SUFFICES ASSUME ErrorKnown, [HookNext]_hookVars PROVE ErrorKnown'
  OBVIOUS
<1>1. ASSUME NEW s, SetState(s), s.status # "error" PROVE ErrorKnown'
  BY <1>1 DEF SetState, ErrorKnown, ToApiError, CodeOf, CodeFromStatus
<1>2. CASE Run
  <2> DEFINE s == [status |-> "running", run |-> attempt', error |-> NoError]
  <2>1. SetState(s) /\ s.status # "error"
    BY <1>2 DEF Run
  <2>2. QED
    BY <1>1, <2>1
<1>3. CASE Reset
  BY <1>1, <1>3 DEF Reset, Idle
<1>4. ASSUME NEW k \in 1..MaxRuns, Continue(k) PROVE ErrorKnown'
  <2>1. CASE current = k
    <3>1. PICK f \in Failures : SetState(Outcome(k, f))
      BY <1>4, <2>1 DEF Continue
    <3>2. Outcome(k, f).status = "error" => Outcome(k, f).error = ToApiError(f)
      BY DEF Outcome
    <3> DEFINE s == Outcome(k, f)
    <3>3. SetState(s) /\ (s.status = "error" => s.error = ToApiError(f))
      BY <3>1, <3>2
    <3> HIDE DEF s
    <3>4. state' = s \/ state' = state
      BY <3>3 DEF SetState
    <3>5. QED
      BY <3>3, <3>4 DEF ErrorKnown, ToApiError, CodeOf, CodeFromStatus
  <2>2. CASE current # k
    BY <1>4, <2>2 DEF Continue, ErrorKnown, ToApiError, CodeOf, CodeFromStatus
  <2>3. QED
    BY <2>1, <2>2
<1>5. CASE state' = state
  BY <1>5 DEF ErrorKnown, ToApiError, CodeOf, CodeFromStatus
<1>6. QED
  BY <1>2, <1>3, <1>4, <1>5
    DEF HookNext, Cancel, Unmount, Arm, Second, Settle, hookVars

\* What another attempt may change, as RetryIsUseful has it.
Transient(status, code) ==
  /\ status \notin {400, 413, 415, 422}
  /\ status \in {404, 405} => code = "unknown"

\* Of the problems the two services write, those without a verdict's code are the
\* transient ones.
LEMMA ProblemTable ==
  ASSUME NEW f \in Responses, f.code \in KnownCodes
  PROVE  f.code \notin Verdicts <=> Transient(f.status, f.code)
<1>1. f.status \in 400..599
  BY HookAssumption
<1>2. \/ f.status # 422 /\ f.code = StatusPage(f.status)
      \/ <<f.status, f.code>> \in Thrown \cup {Limited, <<503, "bgp_unavailable">>}
  BY ProblemAssumption, Zenon
<1> DEFINE s == f.status
           c == f.code
<1> HIDE DEF s, c
<1>3. CASE s # 422 /\ c = StatusPage(s)
  <2>1. s \in 400..599
    BY <1>1 DEF s
  <2>2. QED
    BY <1>3, <2>1 DEF StatusPage, Verdicts, Transient, s, c
<1>4. CASE <<s, c>> \in Thrown \cup {Limited, <<503, "bgp_unavailable">>}
  BY <1>4 DEF Thrown, Limited, Verdicts, Transient, s, c
<1>5. QED
  BY <1>2, <1>3, <1>4 DEF s, c

\* Of the statuses, those that are made a verdict's code are the others.
LEMMA StatusTable ==
  ASSUME NEW s \in 400..599
  PROVE  CodeFromStatus(s) \notin Verdicts <=> Transient(s, CodeFromStatus(s))
<1>1. CASE s \in {400, 413, 415, 422}
  BY <1>1 DEF CodeFromStatus, Verdicts, Transient
<1>2. CASE s \in {404, 405}
  BY <1>2 DEF CodeFromStatus, Verdicts, Transient
<1>3. CASE s \notin {400, 413, 415, 422, 404, 405}
  <2>1. CodeFromStatus(s) \in
          {"rate_limited", "service_unavailable", "timeout", "internal_error", "unknown"}
    BY <1>3 DEF CodeFromStatus
  <2>2. QED
    BY <1>3, <2>1 DEF Verdicts, Transient
<1>4. QED
  BY <1>1, <1>2, <1>3

\* What ToApiError makes of a failure may be retried exactly if it may pass.
LEMMA RetryTable ==
  ASSUME NEW f \in Failures
  PROVE  Retryable(ToApiError(f).code) <=> Transient(ToApiError(f).status, ToApiError(f).code)
<1>1. ToApiError(f).code = CodeOf(f) /\ ToApiError(f).status = f.status
  BY DEF ToApiError
<1>2. Retryable(CodeOf(f)) <=> CodeOf(f) \notin Verdicts
  BY DEF Retryable
<1>3. CASE f.status = 0
  <2>1. CodeOf(f) \in {"timeout", "network_error"}
    BY <1>3 DEF CodeOf
  <2>2. CodeOf(f) \notin Verdicts /\ Transient(f.status, CodeOf(f))
    BY <1>3, <2>1 DEF Verdicts, Transient
  <2>3. QED
    BY <1>1, <1>2, <2>2
<1>4. CASE f.status # 0
  <2>1. f \in Responses
    BY <1>4 DEF Failures
  <2>2. f.status \in 400..599
    BY <2>1, HookAssumption
  <2>3. CASE f.code \in KnownCodes
    <3>1. CodeOf(f) = f.code
      BY <1>4, <2>3 DEF CodeOf
    <3>2. f.code \notin Verdicts <=> Transient(f.status, f.code)
      BY <2>1, <2>3, ProblemTable
    <3>3. QED
      BY <1>1, <1>2, <3>1, <3>2
  <2>4. CASE f.code \notin KnownCodes
    <3>1. CodeOf(f) = CodeFromStatus(f.status)
      BY <1>4, <2>4 DEF CodeOf
    <3>2. CodeFromStatus(f.status) \notin Verdicts <=> Transient(f.status, CodeFromStatus(f.status))
      BY <2>2, StatusTable
    <3>3. QED
      BY <1>1, <1>2, <3>1, <3>2
  <2>5. QED
    BY <2>3, <2>4
<1>5. QED
  BY <1>3, <1>4

\* Retry is offered for what another attempt may change, whatever failure arrives when.
THEOREM RetriesAreUseful == HookSpec => []RetryIsUseful
<1>1. HookInit => ErrorKnown
  BY DEF HookInit, Idle, ErrorKnown
<1>2. ErrorKnown => RetryIsUseful
  BY RetryTable DEF ErrorKnown, RetryIsUseful, Transient
<1>3. QED
  BY <1>1, <1>2, ErrorKnownNext, PTL DEF HookSpec

\* A form starts a run only if none is out, and never resets the hook.
FormInv ==
  /\ HookInv
  /\ form \in Kinds \cup {"quick"}
  /\ form # "quick" => kind = form
  /\ text \in Typed /\ option \in Options
  /\ current = attempt
  /\ OneRunAtATime

LEMMA FormInitInv == PageInit => FormInv /\ ErrorIsCurrent
<1> SUFFICES ASSUME PageInit PROVE FormInv /\ ErrorIsCurrent
  OBVIOUS
<1>1. HookInv
  BY HookInitInv DEF PageInit
<1>2. attempt = 0 /\ current = attempt
  BY DEF PageInit, HookInit
<1>3. OneRunAtATime
  BY <1>2, HookAssumption DEF OneRunAtATime
<1>4. QED
  BY <1>1, <1>2, <1>3, FormAssumption DEF PageInit, FormInv, ErrorIsCurrent

\* A run that is started while none is out.
LEMMA FormRuns ==
  ASSUME FormInv, ~running, Run, form' = form, text' = text, option' = option,
         form # "quick" => kind' = form
  PROVE  FormInv'
<1>1. HookInv'
  BY RunKeeps DEF FormInv
<1>2. /\ mounted /\ attempt' = attempt + 1 /\ current' = attempt' /\ mounted' = mounted
      /\ promise' = [promise EXCEPT ![attempt'] = "pending"]
      /\ attempt \in Nat /\ attempt < MaxRuns /\ MaxRuns \in Nat
      /\ promise \in [1..MaxRuns -> {"none", "pending", "result", "failure", "abort", "over"}]
  BY HookAssumption DEF Run, FormInv, HookInv, HookTypeOK
<1>3. state'.status = "running"
  BY <1>2 DEF Run, SetState
<1>4. ASSUME NEW k \in 1..MaxRuns, k < attempt' PROVE promise'[k] = "over"
  <2>1. form # "none" /\ promise'[k] = promise[k]
    BY <1>2, <1>4 DEF FormInv, Kinds
  <2>2. CASE k < attempt
    BY <2>1, <2>2 DEF FormInv, OneRunAtATime
  <2>3. CASE k = attempt
    BY <2>1, <2>3, <1>2 DEF FormInv, OneRunAtATime
  <2>4. QED
    BY <1>2, <1>4, <2>2, <2>3
<1>5. promise'[attempt'] = "pending" /\ running'
  BY <1>2, <1>3 DEF running
<1>6. OneRunAtATime'
  BY <1>4, <1>5 DEF OneRunAtATime
<1>7. QED
  BY <1>1, <1>2, <1>6 DEF FormInv

\* What the hook does by itself, and Cancel.
LEMMA FormWaits ==
  ASSUME FormInv, UNCHANGED formVars,
         \/ Cancel \/ Unmount \/ Arm \/ Second
         \/ \E k \in 1..MaxRuns : Settle(k) \/ Continue(k)
  PROVE  FormInv'
<1>1. HookInv'
  BY HookNextInv DEF FormInv, HookNext
<1>2. /\ attempt' = attempt /\ current' = current /\ (mounted' => mounted) /\ form' = form
      /\ attempt \in 0..MaxRuns /\ MaxRuns \in Nat
      /\ promise \in [1..MaxRuns -> {"none", "pending", "result", "failure", "abort", "over"}]
  BY HookAssumption DEF Cancel, Unmount, Arm, Second, Settle, Continue, FormInv, HookInv, HookTypeOK,
     formVars
<1>3. form # "none"
  BY DEF FormInv, Kinds
<1>4. ASSUME promise' = promise, state' = state PROVE OneRunAtATime'
  BY <1>2, <1>3, <1>4 DEF FormInv, OneRunAtATime, running
<1>5. ASSUME NEW k \in 1..MaxRuns, Settle(k) PROVE OneRunAtATime'
  <2>1. /\ promise[k] = "pending" /\ state' = state
        /\ \E how \in {"result", "failure", "abort"} : promise' = [promise EXCEPT ![k] = how]
    BY <1>5 DEF Settle
  <2>2. \A j \in 1..MaxRuns : promise'[j] = "over" <=> promise[j] = "over"
    BY <2>1, <1>2
  <2>3. QED
    BY <2>1, <2>2, <1>2, <1>3 DEF FormInv, OneRunAtATime, running
<1>6. ASSUME NEW k \in 1..MaxRuns, Continue(k) PROVE OneRunAtATime'
  <2>1. /\ promise[k] \notin {"none", "over"} /\ promise' = [promise EXCEPT ![k] = "over"]
        /\ mounted' = mounted
        /\ current = k => \E f \in Failures : SetState(Outcome(k, f))
    BY <1>6 DEF Continue
  <2>2. k = attempt
    BY <2>1, <1>2, <1>3 DEF FormInv, HookInv, OneRunAtATime
  <2>3. mounted => state'.status # "running"
    <3>1. PICK f \in Failures : SetState(Outcome(k, f))
      BY <2>1, <2>2 DEF FormInv
    <3>2. Outcome(k, f).status # "running"
      BY DEF Outcome
    <3>3. QED
      BY <3>1, <3>2 DEF SetState
  <2>4. \A j \in 1..MaxRuns : j < attempt' => promise'[j] = "over"
    BY <2>1, <2>2, <1>2, <1>3 DEF FormInv, OneRunAtATime
  <2>5. promise'[attempt'] = "over"
    BY <2>1, <2>2, <1>2
  <2>6. QED
    BY <2>1, <2>3, <2>4, <2>5 DEF OneRunAtATime, running
<1>7. ASSUME Cancel \/ Unmount \/ Arm \/ Second PROVE OneRunAtATime'
  BY <1>4, <1>7 DEF Cancel, Unmount, Arm, Second
<1>8. OneRunAtATime'
  BY <1>5, <1>6, <1>7
<1>9. QED
  BY <1>1, <1>2, <1>8 DEF FormInv, formVars

\* What is entered does not touch the hook.
LEMMA FormEdits ==
  ASSUME FormInv, UNCHANGED hookVars, form' = form, text' \in Typed, option' \in Options,
         form # "quick" => kind' = form
  PROVE  FormInv'
<1>1. HookInv'
  BY HookNextInv DEF FormInv
<1>2. OneRunAtATime' <=> OneRunAtATime
  BY DEF OneRunAtATime, running, hookVars
<1>3. current' = attempt'
  BY DEF FormInv, hookVars
<1>4. QED
  BY <1>1, <1>2, <1>3 DEF FormInv

LEMMA FormNextInv ==
  FormInv /\ ErrorIsCurrent /\ [PageNext]_<<hookVars, formVars>> => FormInv' /\ ErrorIsCurrent'
<1> SUFFICES ASSUME FormInv, ErrorIsCurrent, [PageNext]_<<hookVars, formVars>>
             PROVE  FormInv' /\ ErrorIsCurrent'
  OBVIOUS
<1> USE FormAssumption
<1>1. ASSUME NEW t \in Typed, Enter(t) PROVE FormInv' /\ ErrorIsCurrent'
  <2>1. FormInv'
    BY <1>1, FormEdits DEF Enter, FormInv
  <2>2. ErrorIsCurrent'
    BY <1>1 DEF Enter, ErrorIsCurrent
  <2>3. QED
    BY <2>1, <2>2
<1>2. ASSUME NEW t \in Examples, TryExample(t) PROVE FormInv' /\ ErrorIsCurrent'
  <2>1. FormInv'
    BY <1>2, FormEdits DEF TryExample, FormInv
  <2>2. QED
    BY <1>2, <2>1 DEF TryExample, ErrorIsCurrent
<1>3. ASSUME NEW o \in Options, ChooseOption(o) PROVE FormInv' /\ ErrorIsCurrent'
  <2>1. FormInv'
    BY <1>3, FormEdits DEF ChooseOption, FormInv
  <2>2. CASE form # "dns"
    BY <1>3, <2>1, <2>2 DEF ChooseOption, ErrorIsCurrent
  <2>3. CASE form = "dns"
    <3>1. kind = "dns" /\ kind' = kind /\ text' = text /\ problem' = problem /\ option' = o
      BY <1>3, <2>3 DEF ChooseOption, FormInv
    <3>2. Complaint("dns", text, o) = Complaint("dns", text, option)
      BY DEF FormInv
    <3>3. QED
      BY <3>1, <3>2, <2>1 DEF ErrorIsCurrent
  <2>4. QED
    BY <2>1, <2>2, <2>3
<1>4. CASE Blur
  <2>1. FormInv'
    BY <1>4, FormEdits DEF Blur, FormInv
  <2>2. QED
    BY <1>4, <2>1 DEF Blur, ErrorIsCurrent
<1>5. ASSUME NEW k \in Kinds, SubmitForm(k) PROVE FormInv' /\ ErrorIsCurrent'
  <2>1. /\ ~running /\ (form # "quick" => kind' = form)
        /\ kind' = k /\ problem' = Complaint(k, text, option)
        /\ UNCHANGED <<form, text, option>>
        /\ UNCHANGED hookVars \/ Run
    BY <1>5 DEF SubmitForm, Offered, busy
  <2>2. FormInv'
    BY <2>1, FormRuns, FormEdits DEF FormInv
  <2>3. QED
    BY <2>1, <2>2 DEF ErrorIsCurrent
<1>6. CASE Retry
  <2>1. ~running /\ Run /\ UNCHANGED formVars
    BY <1>6 DEF Retry, running
  <2>2. FormInv'
    BY <2>1, FormRuns DEF FormInv, formVars
  <2>3. QED
    BY <2>1, <2>2 DEF ErrorIsCurrent, formVars
<1>7. CASE CancelButton \/ Itself
  <2>1. UNCHANGED formVars /\ FormInv'
    BY <1>7, FormWaits DEF CancelButton, Itself
  <2>2. QED
    BY <2>1 DEF ErrorIsCurrent, formVars
<1>8. CASE UNCHANGED <<hookVars, formVars>>
  <2>1. FormInv'
    BY <1>8, FormEdits DEF FormInv, formVars
  <2>2. QED
    BY <1>8, <2>1 DEF ErrorIsCurrent, formVars
<1>9. QED
  BY <1>1, <1>2, <1>3, <1>4, <1>5, <1>6, <1>7, <1>8 DEF PageNext

\* In whatever order a visitor types, chooses, leaves the field and submits, an error
\* shown is about what is there now.
THEOREM ErrorsAreCurrent == PageSpec => []ErrorIsCurrent
BY FormInitInv, FormNextInv, PTL DEF PageSpec

\* Whatever is pressed and however late the answers are, a page has one run out at most,
\* and says so exactly as long.
THEOREM OneRunPerPage == PageSpec => []OneRunAtATime
<1>1. FormInv => OneRunAtATime
  BY DEF FormInv
<1>2. QED
  BY FormInitInv, FormNextInv, <1>1, PTL DEF PageSpec

(***************************************************************************)
(* The prefix lookup, the notices, the theme, and what covers a page       *)
(***************************************************************************)

LookupInv ==
  /\ started \in 0..MaxLookups
  /\ bgpPromise \in [1..MaxLookups -> {"none", "pending", "over"}]
  /\ LookupShown

\* A lookup that is started while none is out.
LEMMA LookUpKeeps ==
  ASSUME LookupInv, NEW query, LookUp(query), shownLookup.status # "loading"
  PROVE  LookupInv'
<1>1. /\ started' = started + 1 /\ started' \in 1..MaxLookups
      /\ bgpPromise' = [bgpPromise EXCEPT ![started'] = "pending"]
      /\ shownLookup'.status = "loading"
  BY LookupsAssumption DEF LookUp, LookupInv
<1>2. ASSUME NEW k \in 1..MaxLookups PROVE bgpPromise'[k] = "pending" <=> k = started'
  BY <1>1 DEF LookupInv, LookupShown
<1>3. bgpPromise' \in [1..MaxLookups -> {"none", "pending", "over"}]
  BY <1>1 DEF LookupInv
<1>4. LookupShown'
  BY <1>1, <1>2 DEF LookupShown
<1>5. started' \in 0..MaxLookups
  BY <1>1, LookupsAssumption
<1>6. QED
  BY <1>3, <1>4, <1>5 DEF LookupInv

LEMMA LookupNextInv == LookupInv /\ [LookupNext]_lookupVars => LookupInv'
<1> SUFFICES ASSUME LookupInv, [LookupNext]_lookupVars PROVE LookupInv'
  OBVIOUS
<1>1. ASSUME UNCHANGED <<started, bgpPromise, shownLookup>> PROVE LookupInv'
  BY <1>1 DEF LookupInv, LookupShown
<1>2. ASSUME NEW e \in Entries, EnterQuery(e) PROVE LookupInv'
  BY <1>1, <1>2 DEF EnterQuery
<1>3. CASE SubmitQuery
  BY <1>1, <1>3, LookUpKeeps DEF SubmitQuery
<1>4. CASE RetryLookup
  BY <1>4, LookUpKeeps DEF RetryLookup
<1>5. ASSUME NEW k \in 1..MaxLookups, BgpEnds(k) PROVE LookupInv'
  <2>1. /\ k = started /\ started' = started /\ bgpPromise' = [bgpPromise EXCEPT ![k] = "over"]
        /\ shownLookup'.status = "done" /\ shownLookup'.lookup = k
    BY <1>5 DEF BgpEnds, LookupInv, LookupShown
  <2>2. ASSUME NEW j \in 1..MaxLookups PROVE bgpPromise'[j] # "pending"
    BY <2>1, <1>5 DEF LookupInv, LookupShown
  <2>3. QED
    BY <2>1, <2>2 DEF LookupInv, LookupShown
<1>6. CASE UNCHANGED lookupVars
  BY <1>1, <1>6 DEF lookupVars
<1>7. QED
  BY <1>2, <1>3, <1>4, <1>5, <1>6 DEF LookupNext

\* Although no lookup can be aborted, none is ever shown in the place of another.
THEOREM LookupsShown == LookupSpec => []LookupShown
<1>1. ASSUME LookupInit PROVE LookupInv
  <2>1. started = 0 /\ bgpPromise = [k \in 1..MaxLookups |-> "none"] /\ shownLookup = Nowhere
    BY <1>1, Zenon DEF LookupInit
  <2>2. QED
    BY <2>1, LookupsAssumption DEF LookupInv, LookupShown, Nowhere
<1>2. LookupInv => LookupShown
  BY DEF LookupInv
<1>3. QED
  BY <1>1, <1>2, LookupNextInv, PTL DEF LookupSpec

\* Of the numbers of a finite set, those with fewer than n later ones are n at most:
\* how many are later tells them apart.
LEMMA NewestFew ==
  ASSUME IsFiniteSet(items), items \in SUBSET Nat, NEW n \in Nat
  PROVE  IsFiniteSet(Newest(n)) /\ Cardinality(Newest(n)) <= n
<1>0. \A id \in items : id \in Nat
  OBVIOUS
<1> DEFINE Later(id) == {later \in items : later > id}
           rank == [id \in Newest(n) |-> Cardinality(Later(id)) + 1]
<1>1. ASSUME NEW id \in items
      PROVE  IsFiniteSet(Later(id)) /\ Cardinality(Later(id)) \in Nat
  <2>1. Later(id) \in SUBSET items
    OBVIOUS
  <2>2. QED
    BY <2>1, FS_Subset, FS_CardinalityType
<1>2. ASSUME NEW a \in items, NEW b \in items, a < b
      PROVE  Cardinality(Later(b)) < Cardinality(Later(a))
  <2>1. Later(b) \in SUBSET Later(a) /\ b \in Later(a) /\ b \notin Later(b)
    <3>1. \A id \in items : id > b => id > a
      BY <1>0, <1>2
    <3>2. b > a /\ ~(b > b)
      BY <1>0, <1>2
    <3>3. QED
      BY <3>1, <3>2
  <2> HIDE DEF Later
  <2>2. IsFiniteSet(Later(a)) /\ Cardinality(Later(a)) \in Nat /\ Cardinality(Later(b)) \in Nat
    BY <1>1
  <2>3. /\ Cardinality(Later(b)) <= Cardinality(Later(a))
        /\ Cardinality(Later(a)) = Cardinality(Later(b)) => Later(a) = Later(b)
    BY <2>1, <2>2, FS_Subset
  <2>4. Later(a) # Later(b)
    BY <2>1
  <2>5. QED
    BY <2>2, <2>3, <2>4
<1>3. \A id \in Newest(n) : id \in items /\ Cardinality(Later(id)) < n
  BY DEF Newest
<1> HIDE DEF Later
<1>4. rank \in [Newest(n) -> 1..n]
  <2>1. ASSUME NEW id \in Newest(n) PROVE Cardinality(Later(id)) + 1 \in 1..n
    <3>1. Cardinality(Later(id)) \in Nat /\ Cardinality(Later(id)) < n
      BY <1>1, <1>3
    <3>2. QED
      BY <3>1
  <2>2. QED
    BY <2>1
<1>5. ASSUME NEW a \in Newest(n), NEW b \in Newest(n), a # b PROVE rank[a] # rank[b]
  <2>1. a \in items /\ b \in items
    BY <1>3
  <2> a \in Nat /\ b \in Nat
    BY <1>0, <2>1
  <2> a < b \/ b < a
    BY <1>5
  <2>2. Cardinality(Later(a)) # Cardinality(Later(b))
    BY <2>1, <1>1, <1>2
  <2>3. QED
    BY <2>1, <2>2, <1>1
<1> HIDE DEF rank
<1>6. rank \in Injection(Newest(n), 1..n)
  BY <1>4, <1>5 DEF Injection, IsInjective
<1>7. IsFiniteSet(1..n) /\ Cardinality(1..n) = n
  BY FS_Interval
<1>8. QED
  BY <1>6, <1>7, FS_Injection

\* A toast's number is new, and its timeout is set with it.
NoticesInv ==
  /\ nextId \in Nat
  /\ IsFiniteSet(items) /\ items \in SUBSET Nat
  /\ \A id \in items : id < nextId
  /\ copied \in BOOLEAN /\ there \in BOOLEAN
  /\ NoticesGo

\* The part of a step that posts.
LEMMA ToastKeeps ==
  ASSUME NoticesInv, Toast
  PROVE  /\ nextId' \in Nat
         /\ IsFiniteSet(items') /\ items' \in SUBSET Nat
         /\ \A id \in items' : id < nextId'
         /\ Cardinality(items') <= 4
         /\ items' \subseteq timers'
<1>1. /\ nextId' = nextId + 1 /\ items' = Newest(3) \cup {nextId} /\ timers' = timers \cup {nextId}
      /\ Newest(3) \subseteq items /\ nextId \in Nat
      /\ IsFiniteSet(items) /\ items \in SUBSET Nat /\ items \subseteq timers
      /\ \A id \in items : id < nextId
  BY DEF Toast, Newest, NoticesInv, NoticesGo
<1>2. IsFiniteSet(Newest(3)) /\ Cardinality(Newest(3)) <= 3
  BY <1>1, NewestFew
<1>3. Cardinality(Newest(3)) \in Nat
  BY <1>2, FS_CardinalityType
<1>4. IsFiniteSet(items') /\ Cardinality(items') <= 4
  <2> DEFINE S == Newest(3)
  <2> HIDE DEF S
  <2>1. IsFiniteSet(S \cup {nextId}) /\ Cardinality(S \cup {nextId}) <= Cardinality(S) + 1
    BY <1>2, <1>3, FS_AddElement DEF S
  <2>2. Cardinality(S) <= 3 /\ Cardinality(S) \in Nat
    BY <1>2, <1>3 DEF S
  <2>3. IsFiniteSet(items') /\ items' = S \cup {nextId}
    BY <1>1, <2>1 DEF S
  <2>4. Cardinality(items') \in Nat
    BY <2>3, FS_CardinalityType
  <2>5. Cardinality(items') <= Cardinality(S) + 1
    BY <2>1, <2>3
  <2>6. QED
    BY <2>2, <2>3, <2>4, <2>5
<1>5. \A id \in items' : id \in Nat /\ id < nextId'
  <2>1. \A id \in items : id \in Nat /\ id < nextId + 1
    BY <1>1
  <2>2. \A id \in items' : id \in items \/ id = nextId
    BY <1>1
  <2>3. nextId \in Nat /\ nextId < nextId + 1
    BY <1>1
  <2>4. QED
    BY <1>1, <2>1, <2>2, <2>3
<1>6. items' \subseteq timers'
  BY <1>1
<1>7. nextId' \in Nat
  BY <1>1
<1>8. QED
  BY <1>4, <1>5, <1>6, <1>7

LEMMA NoticesNextInv == NoticesInv /\ [NoticesNext]_noticeVars => NoticesInv'
<1> SUFFICES ASSUME NoticesInv, [NoticesNext]_noticeVars PROVE NoticesInv'
  OBVIOUS
<1>1. CASE Post
  BY <1>1, ToastKeeps DEF Post, NoticesInv, NoticesGo
<1>2. CASE Click
  BY <1>2 DEF Click, NoticesInv, NoticesGo
<1>3. ASSUME NEW k, CopyEnds(k) PROVE NoticesInv'
  <2>1. Toast /\ there' = there
    BY <1>3 DEF CopyEnds
  <2>2. copied' \in BOOLEAN /\ (there' => flagTimers' = IF copied' THEN {copyTimer'} ELSE {})
    <3>1. CASE UNCHANGED <<copied, copyTimer, flagTimers>>
      BY <2>1, <3>1 DEF NoticesInv, NoticesGo
    <3>2. CASE copied' = there /\ copyTimer' = k /\ flagTimers' = (flagTimers \ {copyTimer}) \cup {k}
      BY <2>1, <3>2 DEF NoticesInv, NoticesGo
    <3>3. QED
      BY <1>3, <3>1, <3>2 DEF CopyEnds
  <2>3. there' \in BOOLEAN
    BY <2>1 DEF NoticesInv
  <2>4. QED
    BY <2>1, <2>2, <2>3, ToastKeeps DEF NoticesInv, NoticesGo
<1>4. ASSUME NEW id, Dismiss(id) PROVE NoticesInv'
  <2>1. /\ items' = items \ {id} /\ timers' = timers \ {id}
        /\ UNCHANGED <<nextId, there, copied, copyTimer, flagTimers>>
    BY <1>4 DEF Dismiss
  <2>2. items' \in SUBSET items
    BY <2>1
  <2>3. IsFiniteSet(items') /\ Cardinality(items') <= Cardinality(items)
    BY <2>2, FS_Subset DEF NoticesInv
  <2>4. Cardinality(items) \in Nat /\ Cardinality(items') \in Nat
    BY <2>3, FS_CardinalityType DEF NoticesInv
  <2>5. Cardinality(items') <= 4
    BY <2>3, <2>4 DEF NoticesInv, NoticesGo
  <2>6. QED
    BY <2>1, <2>2, <2>3, <2>5 DEF NoticesInv, NoticesGo
<1>5. ASSUME NEW k, FlagExpires(k) PROVE NoticesInv'
  <2>1. /\ k \in flagTimers /\ flagTimers' = flagTimers \ {k} /\ copied' = FALSE
        /\ UNCHANGED <<items, nextId, timers, there, copyTimer>>
    BY <1>5 DEF FlagExpires
  <2>2. there => flagTimers' = {}
    BY <2>1 DEF NoticesInv, NoticesGo
  <2>3. QED
    BY <2>1, <2>2 DEF NoticesInv, NoticesGo
<1>6. CASE ButtonGoes
  BY <1>6 DEF ButtonGoes, NoticesInv, NoticesGo
<1>7. CASE UNCHANGED noticeVars
  BY <1>7 DEF noticeVars, NoticesInv, NoticesGo
<1>8. QED
  BY <1>1, <1>2, <1>3, <1>4, <1>5, <1>6, <1>7 DEF NoticesNext

\* For any number of notices and copies, in any order of their timeouts: each goes, and
\* none takes another's time.
THEOREM NoticesGoAway == NoticesSpec => []NoticesGo
<1>1. ASSUME NoticesInit PROVE NoticesInv
  <2>1. /\ items = {} /\ nextId = 1 /\ timers = {} /\ there = TRUE /\ copied = FALSE
        /\ flagTimers = {}
    BY <1>1 DEF NoticesInit
  <2>2. IsFiniteSet(items) /\ Cardinality(items) = 0
    BY <2>1, FS_EmptySet
  <2>3. \A id \in items : id < nextId
    BY <2>1
  <2>4. NoticesGo
    BY <2>1, <2>2 DEF NoticesGo
  <2>5. nextId \in Nat /\ items \in SUBSET Nat
    BY <2>1
  <2>6. QED
    BY <2>1, <2>2, <2>3, <2>4, <2>5 DEF NoticesInv
<1>2. NoticesInv => NoticesGo
  BY DEF NoticesInv
<1>3. QED
  BY <1>1, <1>2, NoticesNextInv, PTL DEF NoticesSpec

\* What the provider will take for the preference when it mounts.
Awaited == IF Read # "none" THEN Read ELSE provider.preference

\* What has been taken by a store is still there, and a page that is loaded has been
\* painted with it and will mount with it.
ThemeInv ==
  /\ browser \in [storage : {"works", "full", "blocked"}, cookies : BOOLEAN]
  /\ stored \in Preferences \cup {"none"} /\ cookie \in Preferences \cup {"none"}
  /\ systemDark \in BOOLEAN /\ dark \in BOOLEAN
  /\ provider \in [live : BOOLEAN, preference : Preferences, systemDark : BOOLEAN,
                   applied : {"light", "dark", "none"}]
  /\ memory \in [choice : Preferences \cup {"none"}, taken : BOOLEAN, here : BOOLEAN,
                 quiet : BOOLEAN, painted : BOOLEAN]
  /\ memory.taken => /\ browser.storage = "works" => stored = memory.choice
                     /\ browser.storage = "blocked" => cookie = memory.choice
                     /\ browser.storage # "full" /\ memory.choice # "none"
  /\ memory.here /\ memory.choice # "none" =>
       memory.choice = IF provider.live THEN provider.preference ELSE Awaited
  /\ memory.here /\ memory.quiet =>
       (memory.painted <=>
          resolveTheme(IF provider.live THEN provider.preference ELSE Awaited, systemDark) = "dark")
  /\ provider.live => (dark <=> provider.applied = "dark")

LEMMA ThemeInitInv == ThemeInit => ThemeInv
<1> SUFFICES ASSUME ThemeInit PROVE ThemeInv
  OBVIOUS
<1>1. /\ browser \in [storage : {"works", "full", "blocked"}, cookies : BOOLEAN]
      /\ stored = "none" /\ cookie = "none" /\ systemDark \in BOOLEAN /\ dark = systemDark
      /\ provider = [live |-> FALSE, preference |-> "system", systemDark |-> FALSE,
                     applied |-> "none"]
      /\ memory = [choice |-> "none", taken |-> FALSE, here |-> TRUE, quiet |-> TRUE,
                   painted |-> dark]
  BY Zenon DEF ThemeInit
<1>2. /\ provider \in [live : BOOLEAN, preference : Preferences, systemDark : BOOLEAN,
                       applied : {"light", "dark", "none"}]
      /\ memory \in [choice : Preferences \cup {"none"}, taken : BOOLEAN, here : BOOLEAN,
                     quiet : BOOLEAN, painted : BOOLEAN]
  BY <1>1 DEF Preferences
<1>3. Awaited = "system"
  BY <1>1 DEF Awaited, Read
<1>4. resolveTheme("system", systemDark) = "dark" <=> systemDark
  BY <1>1 DEF resolveTheme
<1>5. QED
  BY <1>1, <1>2, <1>3, <1>4 DEF ThemeInv

LEMMA ThemeNextInv == ThemeInv /\ [ThemeNext]_themeVars => ThemeInv'
<1> SUFFICES ASSUME ThemeInv, [ThemeNext]_themeVars PROVE ThemeInv'
  OBVIOUS
<1>1. CASE Load
  <2>1. /\ dark' = Script /\ UNCHANGED <<browser, stored, cookie, systemDark>>
        /\ provider'.live = FALSE /\ provider'.preference = parsePreference(cookie)
        /\ provider' \in [live : BOOLEAN, preference : Preferences, systemDark : BOOLEAN,
                          applied : {"light", "dark", "none"}]
    BY <1>1 DEF Load, parsePreference, Preferences
  <2>2. /\ memory'.choice = IF memory.taken THEN memory.choice ELSE "none"
        /\ memory'.taken = memory.taken /\ memory'.painted = Script
    BY <1>1, <2>1 DEF Load, ThemeInv
  <2>3. Script \in BOOLEAN
    BY DEF Script
  <2>4. memory' \in [choice : Preferences \cup {"none"}, taken : BOOLEAN, here : BOOLEAN,
                    quiet : BOOLEAN, painted : BOOLEAN]
    BY <1>1, <2>1, <2>3 DEF Load, ThemeInv
  <2>5. Read' = Read /\ Read \in Preferences \cup {"none"}
    BY <2>1 DEF Read, ThemeInv
  <2>6. Awaited' = IF Read # "none" THEN Read ELSE parsePreference(cookie)
    BY <2>1, <2>5 DEF Awaited
  <2>7. memory.taken => memory.choice = Awaited'
    BY <2>6 DEF ThemeInv, Read, Preferences, parsePreference
  <2>8. Script <=> resolveTheme(Awaited', systemDark) = "dark"
    BY <2>5, <2>6 DEF Script, ThemeInv, resolveTheme, Preferences, parsePreference
  <2>9. QED
    BY <2>1, <2>2, <2>3, <2>4, <2>7, <2>8 DEF ThemeInv
<1>2. CASE Mount
  <2>1. /\ provider'.live = TRUE /\ provider'.preference = Awaited
        /\ provider' \in [live : BOOLEAN, preference : Preferences, systemDark : BOOLEAN,
                          applied : {"light", "dark", "none"}]
        /\ dark' = (provider'.applied = "dark")
        /\ UNCHANGED <<browser, stored, cookie, systemDark, memory>>
    BY <1>2 DEF Mount, ThemeInv, Preferences, Awaited, Read, parsePreference, resolveTheme
  <2>2. dark' \in BOOLEAN /\ provider.live = FALSE
    BY <1>2 DEF Mount, ThemeInv
  <2>3. QED
    BY <2>1, <2>2 DEF ThemeInv
<1>3. CASE applyTheme
  BY <1>3 DEF applyTheme, resolved, ThemeInv, Preferences, Awaited, Read, resolveTheme
<1>4. CASE Notice
  BY <1>4 DEF Notice, ThemeInv, Preferences, Awaited, Read, resolveTheme
<1>5. CASE SystemTurns
  <2>1. /\ systemDark' = ~systemDark /\ UNCHANGED <<browser, stored, cookie, dark, provider>>
        /\ memory'.quiet = FALSE /\ memory'.choice = memory.choice
        /\ memory'.taken = memory.taken /\ memory'.here = memory.here
        /\ memory' \in [choice : Preferences \cup {"none"}, taken : BOOLEAN, here : BOOLEAN,
                        quiet : BOOLEAN, painted : BOOLEAN]
    BY <1>5 DEF SystemTurns, ThemeInv
  <2>2. systemDark' \in BOOLEAN /\ Awaited' = Awaited
    BY <2>1 DEF Awaited, Read
  <2>3. QED
    BY <2>1, <2>2 DEF ThemeInv
<1>6. CASE CookieExpires
  <2>1. /\ cookie' = "none" /\ UNCHANGED <<browser, stored, systemDark, dark, provider>>
        /\ memory'.quiet = memory.quiet /\ memory'.choice = memory.choice
        /\ memory'.here = memory.here /\ memory'.painted = memory.painted
        /\ memory'.taken => memory.taken /\ browser.storage = "works"
        /\ memory' \in [choice : Preferences \cup {"none"}, taken : BOOLEAN, here : BOOLEAN,
                        quiet : BOOLEAN, painted : BOOLEAN]
    <3>1. (memory.taken /\ browser.storage = "works") \in BOOLEAN
      OBVIOUS
    <3>2. QED
      BY <1>6, <3>1 DEF CookieExpires, ThemeInv
  <2>2. Awaited' = Awaited
    BY <2>1 DEF Awaited, Read
  <2>3. QED
    BY <2>1, <2>2 DEF ThemeInv
<1>7. ASSUME NEW p \in Preferences, setPreference(p) PROVE ThemeInv'
  BY <1>7 DEF setPreference, persistPreference, Taken, ThemeInv, Preferences, Awaited, Read, resolveTheme
<1>8. ASSUME NEW p \in Preferences, ElsewhereChosen(p) PROVE ThemeInv'
  <2>1. /\ UNCHANGED <<browser, systemDark, dark, provider>>
        /\ memory'.choice = p /\ memory'.here = FALSE /\ memory'.taken = Taken
        /\ memory' \in [choice : Preferences \cup {"none"}, taken : BOOLEAN, here : BOOLEAN,
                        quiet : BOOLEAN, painted : BOOLEAN]
    <3>1. Taken \in BOOLEAN
      BY DEF Taken, ThemeInv
    <3>2. QED
      BY <1>8, <3>1 DEF ElsewhereChosen, ThemeInv
  <2>2. /\ stored' \in Preferences \cup {"none"} /\ cookie' \in Preferences \cup {"none"}
        /\ Taken => /\ browser.storage = "works" => stored' = p
                    /\ browser.storage = "blocked" => cookie' = p
                    /\ browser.storage # "full" /\ p # "none"
    BY <1>8 DEF ElsewhereChosen, persistPreference, Taken, ThemeInv, Preferences
  <2>3. QED
    BY <2>1, <2>2 DEF ThemeInv
<1>9. CASE UNCHANGED themeVars
  BY <1>9 DEF themeVars, ThemeInv, Awaited, Read
<1>10. QED
  BY <1>1, <1>2, <1>3, <1>4, <1>5, <1>6, <1>7, <1>8, <1>9 DEF ThemeNext, ThemeToggle

\* A page at rest has applied what it resolves, and the system has not turned since.
LEMMA ThemeAtRest == ThemeInv => ThemeKept
  BY DEF ThemeInv, ThemeKept, Settled, resolved, resolveTheme, Preferences

\* The theme shown is the visitor's last choice, whatever the browser lets a page store,
\* and the first paint had it.
THEOREM ThemeStays == ThemeSpec => []ThemeKept
  BY ThemeInitInv, ThemeNextInv, ThemeAtRest, PTL DEF ThemeSpec

\* One trap holds at most, for what was opened last; the effects of the path and of the
\* window's width that are still to run are all that keeps a drawer open too long.
ShellInv ==
  /\ trap = <<>> \/ \E o \in Overlays : DOMAIN trap = {o}
  /\ opened \subseteq DOMAIN trap
  /\ \A o \in DOMAIN trap : trap[o].overflow = "none" /\ trap[o].focus \notin Overlays
  /\ overflow = IF DOMAIN trap = {} THEN "none" ELSE "hidden"
  /\ DOMAIN trap # {} => focus \in opened \cup {"body"}
  /\ focus \in Overlays => focus \in opened
  /\ "drawer" \in opened => openedOn = applied /\ ~noticed

LEMMA ShellInitInv == ShellInit => ShellInv
<1> SUFFICES ASSUME ShellInit PROVE ShellInv
  OBVIOUS
<1>1. DOMAIN <<>> = {}
  OBVIOUS
<1>2. QED
  BY <1>1 DEF ShellInit, ShellInv, Overlays

\* Something is opened: the trap is the first, and finds what it will give back.
LEMMA OpensKeeps ==
  ASSUME ShellInv, NEW overlay \in Overlays, NEW button, button \notin Overlays,
         opened = {}, TrapsDone, Opens(overlay, button)
  PROVE  /\ DOMAIN trap' = {overlay} /\ opened' = {overlay} /\ overflow' = "hidden" /\ focus' = overlay
         /\ trap'[overlay].overflow = "none" /\ trap'[overlay].focus \notin Overlays
<1>1. DOMAIN trap = {} /\ overflow = "none" /\ focus \notin Overlays
  BY DEF ShellInv, TrapsDone
<1>2. PICK saved \in {focus, button, "body"} :
        trap' = [o \in DOMAIN trap \cup {overlay} |->
                   IF o = overlay THEN [focus |-> saved, overflow |-> overflow] ELSE trap[o]]
  BY DEF Opens
<1>3. trap' = [o \in {overlay} |-> IF o = overlay THEN [focus |-> saved, overflow |-> overflow] ELSE trap[o]]
  BY <1>1, <1>2
<1>4. DOMAIN trap' = {overlay} /\ trap'[overlay] = [focus |-> saved, overflow |-> overflow]
  BY <1>3
<1>5. saved \notin Overlays
  BY <1>1 DEF Overlays
<1>6. QED
  BY <1>1, <1>4, <1>5 DEF Opens

\* The one that holds lets go: nothing is held any more.
LEMMA ReleasesKeeps ==
  ASSUME ShellInv, NEW overlay \in DOMAIN trap, Releases(overlay), opened' \subseteq opened \ {overlay}
  PROVE  trap' = <<>> /\ opened' = {} /\ overflow' = "none" /\ focus' \notin Overlays
<1>1. /\ DOMAIN trap = {overlay} /\ overlay \in Overlays
      /\ trap[overlay].overflow = "none" /\ trap[overlay].focus \notin Overlays
      /\ opened' = {} /\ focus \in opened \cup {"body"} /\ opened \subseteq {overlay}
  <2>1. trap # <<>>
    <3>1. DOMAIN <<>> = {}
      OBVIOUS
    <3>2. QED
      BY <3>1
  <2>2. \E o \in Overlays : DOMAIN trap = {o}
    BY <2>1 DEF ShellInv
  <2>3. DOMAIN trap = {overlay} /\ overlay \in Overlays
    BY <2>2
  <2>4. trap[overlay].overflow = "none" /\ trap[overlay].focus \notin Overlays
    BY DEF ShellInv
  <2>5. focus \in opened \cup {"body"} /\ opened \subseteq {overlay}
    BY <2>3 DEF ShellInv
  <2>6. opened' = {}
    BY <2>5
  <2>7. QED
    BY <2>3, <2>4, <2>5, <2>6
<1>2. trap' = [o \in {} |-> trap[o]]
  BY <1>1 DEF Releases
<1>3. trap' = <<>>
  BY <1>2
<1>4. overflow' = "none"
  BY <1>1 DEF Releases
<1>5. focus' \notin Overlays
  BY <1>1 DEF Releases, Overlays
<1>6. QED
  BY <1>1, <1>3, <1>4, <1>5

LEMMA ShellNextInv == ShellInv /\ [ShellNext]_shellVars => ShellInv'
<1> SUFFICES ASSUME ShellInv, [ShellNext]_shellVars PROVE ShellInv'
  OBVIOUS
<1>a. DOMAIN <<>> = {}
  OBVIOUS
<1>b. "menu" \notin Overlays /\ "full button" \notin Overlays /\ "body" \notin Overlays
      /\ "page" \notin Overlays /\ "drawer" # "full" /\ "drawer" \in Overlays /\ "full" \in Overlays
  BY DEF Overlays
<1>1. CASE OpenMenu
  <2>1. /\ DOMAIN trap' = {"drawer"} /\ opened' = {"drawer"} /\ overflow' = "hidden" /\ focus' = "drawer"
        /\ trap'["drawer"].overflow = "none" /\ trap'["drawer"].focus \notin Overlays
    BY <1>1, <1>b, OpensKeeps DEF OpenMenu
  <2>2. openedOn' = applied' /\ ~noticed'
    BY <1>1 DEF OpenMenu
  <2>3. QED
    BY <2>1, <2>2, <1>b DEF ShellInv
<1>2. CASE OpenFull
  <2>1. /\ DOMAIN trap' = {"full"} /\ opened' = {"full"} /\ overflow' = "hidden" /\ focus' = "full"
        /\ trap'["full"].overflow = "none" /\ trap'["full"].focus \notin Overlays
    BY <1>2, <1>b, OpensKeeps DEF OpenFull
  <2>2. QED
    BY <2>1, <1>b DEF ShellInv
<1>3. ASSUME NEW overlay \in DOMAIN trap, Releases(overlay), opened' \subseteq opened \ {overlay}
      PROVE  ShellInv'
  BY <1>3, <1>a, ReleasesKeeps DEF ShellInv
<1>4. ASSUME NEW overlay, Closes(overlay) PROVE ShellInv'
  <2>1. overlay \in DOMAIN trap /\ opened' \subseteq opened \ {overlay}
    BY <1>4 DEF Closes, ShellInv
  <2>2. QED
    BY <1>3, <1>4, <2>1 DEF Closes
<1>5. CASE Close
  BY <1>4, <1>5 DEF Close
<1>6. CASE MoveFocus
  <2>1. UNCHANGED <<trap, opened, overflow, openedOn, applied, noticed>> /\ DOMAIN trap = opened
    BY <1>6 DEF MoveFocus, TrapsDone
  <2>2. /\ opened = {} => focus' \notin Overlays
        /\ opened # {} => focus' \in opened \cup {"body"}
    BY <1>6, <1>b DEF MoveFocus
  <2>3. focus' \in Overlays => focus' \in opened
    BY <2>2, <1>b
  <2>4. QED
    BY <2>1, <2>2, <2>3 DEF ShellInv
<1>7. CASE \E next \in Routes : FollowInDrawer(next)
  BY <1>4, <1>7 DEF FollowInDrawer
<1>8. CASE \E next \in Routes : Navigate(next)
  <2>1. UNCHANGED <<trap, opened, overflow, focus, openedOn, applied, noticed>>
    BY <1>8 DEF Navigate
  <2>2. QED
    BY <2>1 DEF ShellInv
<1>9. CASE Arrive
  BY <1>9, <1>b DEF Arrive, ShellInv
<1>10. CASE PathEffect
  BY <1>10, <1>b DEF PathEffect, Disappear, ShellInv
<1>11. CASE Resize
  BY <1>11, <1>b DEF Resize, ShellInv
<1>12. CASE OnChange
  <2>1. CASE wide
    BY <1>12, <2>1, <1>b DEF OnChange, Disappear, ShellInv
  <2>2. CASE ~wide
    BY <1>12, <2>2, <1>b DEF OnChange, Disappear, ShellInv
  <2>3. QED
    BY <2>1, <2>2
<1>13. CASE ResultComes
  BY <1>13 DEF ResultComes, ShellInv
<1>14. CASE ResultGoes
  BY <1>14, <1>b DEF ResultGoes, TrapsDone, ShellInv
<1>15. CASE \E overlay \in Overlays : Release(overlay)
  <2>1. PICK overlay \in Overlays : Release(overlay)
    BY <1>15
  <2>2. overlay \in DOMAIN trap /\ Releases(overlay) /\ opened' \subseteq opened \ {overlay}
    BY <2>1 DEF Release
  <2>3. QED
    BY <2>2, <1>3
<1>16. CASE UNCHANGED shellVars
  BY <1>16 DEF shellVars, ShellInv
<1>17. QED
  BY <1>1, <1>2, <1>5, <1>6, <1>7, <1>8, <1>9, <1>10, <1>11, <1>12, <1>13, <1>14, <1>15, <1>16
     DEF ShellNext

\* Whatever is opened and closed, in any order with navigations and resizing, the page
\* gets its focus and its scrolling back, and no drawer outlives its page.
THEOREM PagesGivenBack == ShellSpec => []PageGivenBack
<1>1. ShellInv => PageGivenBack
  BY DEF ShellInv, PageGivenBack, Overlays
<1>2. QED
  BY ShellInitInv, ShellNextInv, <1>1, PTL DEF ShellSpec

(***************************************************************************)
(* The status page                                                         *)
(***************************************************************************)

Snapshots == {Pending, [is |-> "none"], [is |-> "thrown"]}
               \cup [is : {"taken"}, ipv4 : Statuses, ipv6 : Statuses]

\* While nothing is built, an answer that is shown is the one the two calls gave.
StatusInv ==
  /\ ready \in {"pending", "up", "down", "cancelled"}
  /\ perf \in Snapshots
  /\ shown.is = "status" /\ ~building =>
       /\ ready \in {"up", "down"}
       /\ perf.is \in {"none", "taken"}
       /\ shown = [is |-> "status", overall |-> Overall(Components), components |-> Components]

LEMMA StatusNextInv == StatusInv /\ [StatusNext]_statusVars => StatusInv'
<1> SUFFICES ASSUME StatusInv, [StatusNext]_statusVars PROVE StatusInv'
  OBVIOUS
<1>1. CASE Build
  BY <1>1 DEF Build, StatusInv, Snapshots, Pending
<1>2. CASE Readiness
  BY <1>2 DEF Readiness, StatusInv
<1>3. CASE Performance
  <2>1. building' = building /\ building /\ ready' = ready
    BY <1>3 DEF Performance
  <2>2. perf' \in Snapshots
    BY <1>3 DEF Performance, Snapshots
  <2>3. QED
    BY <2>1, <2>2 DEF StatusInv
<1>4. CASE Compose
  <2> DEFINE page == [is |-> "status", overall |-> Overall(Components), components |-> Components]
  <2>1. ready' = ready /\ perf' = perf /\ ready # "pending" /\ perf # Pending
    BY <1>4 DEF Compose
  <2>2. shown' = IF ready = "cancelled" \/ perf.is = "thrown" THEN [is |-> "error"] ELSE page
    BY <1>4 DEF Compose
  <2>3. page' = page
    BY <2>1 DEF Components, Overall
  <2>4. perf.is \in {"none", "thrown", "taken"}
    BY <2>1 DEF StatusInv, Snapshots, Pending
  <2>5. page.is = "status"
    OBVIOUS
  <2> HIDE DEF page
  <2>6. shown'.is = "status" =>
          ready' \in {"up", "down"} /\ perf'.is \in {"none", "taken"} /\ shown' = page'
    BY <2>1, <2>2, <2>3, <2>4 DEF StatusInv
  <2>7. QED
    BY <2>1, <2>6 DEF StatusInv, page
<1>5. CASE UNCHANGED statusVars
  BY <1>5 DEF statusVars, StatusInv, Components, Overall
<1>6. QED
  BY <1>1, <1>2, <1>3, <1>4, <1>5 DEF StatusNext

LEMMA StatusTellsOneStory == StatusInv => OneStory
<1> SUFFICES ASSUME StatusInv, shown.is = "status", ~building PROVE OneStory
  BY DEF OneStory
<1> DEFINE c == Components
<1>1. /\ shown.overall = Overall(c) /\ shown.components = c
      /\ ready \in {"up", "down"} /\ perf.is \in {"none", "taken"}
      /\ perf.is = "taken" => perf.ipv4 \in Statuses /\ perf.ipv6 \in Statuses
  BY DEF StatusInv, Snapshots, Pending
<1>2. /\ DOMAIN c = {"web", "api", "diagnostics", "bgp", "ipv4", "ipv6"}
      /\ c["web"] = "operational" /\ c["api"] = "operational"
      /\ c["diagnostics"] = IF ready = "up" THEN "operational" ELSE "outage"
      /\ c["bgp"] = IF BgpEnabled THEN "outage" ELSE "notConfigured"
      /\ c["ipv4"] = IF perf.is = "taken" THEN perf["ipv4"] ELSE "degraded"
      /\ c["ipv6"] = IF perf.is = "taken" THEN perf["ipv6"] ELSE "degraded"
  BY DEF Components
<1> HIDE DEF c
<1>3. QED
  BY <1>1, <1>2 DEF OneStory, Affected, Overall, Statuses

\* The headline and the list of components agree, whatever the two calls answer.
THEOREM StoryIsOne == StatusSpec => []OneStory
<1>1. StatusInit => StatusInv
  BY DEF StatusInit, StatusInv, Snapshots
<1>2. QED
  BY <1>1, StatusNextInv, StatusTellsOneStory, PTL DEF StatusSpec

(***************************************************************************)
(* TrafficService                                                          *)
(***************************************************************************)

\* The numbers of a finite set have a first, a second, and so on: how many of the set
\* are smaller tells them apart, and so takes every value there is room for.
LEMMA RankedAll ==
  ASSUME NEW S \in SUBSET Nat, IsFiniteSet(S)
  PROVE  /\ \A i \in 1..Cardinality(S) : Ranked(S, i) \in S
         /\ \A n \in S : \E i \in 1..Cardinality(S) : Ranked(S, i) = n
         /\ \A i, j \in 1..Cardinality(S) : i < j => Ranked(S, i) < Ranked(S, j)
<1> DEFINE Below(n) == {m \in S : m < n}
           rank == [n \in S |-> Cardinality(Below(n)) + 1]
<1>1. \A n \in S : IsFiniteSet(Below(n)) /\ Cardinality(Below(n)) \in Nat
                   /\ Cardinality(Below(n)) < Cardinality(S)
  <2> SUFFICES ASSUME NEW n \in S
               PROVE  IsFiniteSet(Below(n)) /\ Cardinality(Below(n)) \in Nat
                      /\ Cardinality(Below(n)) < Cardinality(S)
    OBVIOUS
  <2>1. Below(n) \in SUBSET S /\ n \notin Below(n)
    OBVIOUS
  <2> HIDE DEF Below
  <2>2. /\ IsFiniteSet(Below(n)) /\ Cardinality(Below(n)) <= Cardinality(S)
        /\ Cardinality(S) = Cardinality(Below(n)) => S = Below(n)
    BY <2>1, FS_Subset
  <2>3. S # Below(n)
    BY <2>1
  <2>4. Cardinality(Below(n)) \in Nat /\ Cardinality(S) \in Nat
    BY <2>2, FS_CardinalityType
  <2>5. QED
    BY <2>2, <2>3, <2>4
<1>2. \A n, k \in S : n < k => Cardinality(Below(n)) < Cardinality(Below(k))
  <2> SUFFICES ASSUME NEW n \in S, NEW k \in S, n < k
               PROVE  Cardinality(Below(n)) < Cardinality(Below(k))
    OBVIOUS
  <2>1. \A m \in S : m < n => m < k
    BY SMT
  <2>2. Below(n) \in SUBSET Below(k) /\ n \in Below(k) /\ n \notin Below(n)
    <3>1. Below(n) \subseteq Below(k)
      BY <2>1
    <3>2. n \in Below(k)
      OBVIOUS
    <3>3. ~(n < n)
      BY SMT
    <3>4. n \notin Below(n)
      BY <3>3
    <3>5. QED
      BY <3>1, <3>2, <3>4
  <2>3. IsFiniteSet(Below(k)) /\ Cardinality(Below(n)) \in Nat /\ Cardinality(Below(k)) \in Nat
    BY <1>1
  <2> HIDE DEF Below
  <2>4. /\ Cardinality(Below(n)) <= Cardinality(Below(k))
        /\ Cardinality(Below(k)) = Cardinality(Below(n)) => Below(k) = Below(n)
    BY <2>2, <2>3, FS_Subset
  <2>5. QED
    BY <2>2, <2>3, <2>4
<1> HIDE DEF Below
<1>3. Cardinality(S) \in Nat
  BY FS_CardinalityType
<1>4. rank \in [S -> 1..Cardinality(S)]
  BY <1>1, <1>3
<1>5. \A n, k \in S : n # k => rank[n] # rank[k]
  <2> SUFFICES ASSUME NEW n \in S, NEW k \in S, n # k PROVE rank[n] # rank[k]
    OBVIOUS
  <2>1. n < k \/ k < n
    OBVIOUS
  <2>2. QED
    BY <2>1, <1>1, <1>2
<1>6. rank \in Surjection(S, 1..Cardinality(S))
  <2>1. rank \in Injection(S, 1..Cardinality(S))
    <3> HIDE DEF rank
    <3>1. QED
      BY <1>4, <1>5 DEF Injection, IsInjective
  <2>2. IsFiniteSet(1..Cardinality(S)) /\ Cardinality(1..Cardinality(S)) = Cardinality(S)
    BY <1>3, FS_Interval
  <2> HIDE DEF rank
  <2>3. QED
    BY <2>1, <2>2, FS_Injection
<1>7. \A n \in S : rank[n] = Cardinality(Below(n)) + 1
  OBVIOUS
<1> HIDE DEF rank
<1>8. \A i \in 1..Cardinality(S) : \E n \in S : rank[n] = i
  BY <1>6 DEF Surjection
<1>9. \A i \in 1..Cardinality(S) : Ranked(S, i) \in S /\ rank[Ranked(S, i)] = i
  <2> SUFFICES ASSUME NEW i \in 1..Cardinality(S)
               PROVE  Ranked(S, i) \in S /\ rank[Ranked(S, i)] = i
    OBVIOUS
  <2>1. PICK n \in S : rank[n] = i
    BY <1>8
  <2>2. Cardinality(Below(n)) = i - 1
    BY <2>1, <1>1, <1>7
  <2>3. Ranked(S, i) \in S /\ Cardinality(Below(Ranked(S, i))) = i - 1
    BY <2>2 DEF Ranked, Below
  <2>4. rank[Ranked(S, i)] = Cardinality(Below(Ranked(S, i))) + 1
    BY <2>3, <1>7
  <2>5. QED
    BY <2>3, <2>4
<1>10. ASSUME NEW i \in 1..Cardinality(S), NEW j \in 1..Cardinality(S), i < j
       PROVE  Ranked(S, i) < Ranked(S, j)
  <2> DEFINE a == Ranked(S, i)
             b == Ranked(S, j)
  <2>1. a \in S /\ b \in S /\ rank[a] = i /\ rank[b] = j
    BY <1>9
  <2> HIDE DEF a, b
  <2>2. ~(b < a) /\ a # b
    <3>1. rank[a] < rank[b]
      BY <2>1, <1>10
    <3>2. b < a => rank[b] < rank[a]
      BY <2>1, <1>1, <1>2, <1>7
    <3>3. rank[a] \in Int /\ rank[b] \in Int
      BY <2>1
    <3>4. QED
      BY <3>1, <3>2, <3>3
  <2>3. a < b
    BY <2>1, <2>2
  <2>4. QED
    BY <2>3 DEF a, b
<1>11. ASSUME NEW n \in S PROVE \E i \in 1..Cardinality(S) : Ranked(S, i) = n
  <2>1. rank[n] \in 1..Cardinality(S)
    BY <1>4
  <2>2. Ranked(S, rank[n]) \in S /\ rank[Ranked(S, rank[n])] = rank[n]
    BY <2>1, <1>9
  <2>3. Ranked(S, rank[n]) = n
    BY <2>2, <1>5
  <2>4. QED
    BY <2>1, <2>3
<1>12. QED
  BY <1>9, <1>10, <1>11

\* What an answer about the nodes consists of.
LEMMA PerNodeAnswers ==
  ASSUME NEW q, NEW r \in PerNode(q), r # Unavailable
  PROVE  /\ \A i \in DOMAIN r.series : r.series[i].node \in Nodes /\ r.series[i].query = q
         /\ ToSet(r.series) = {r.series[i] : i \in DOMAIN r.series}
<1>1. PICK some \in SUBSET Nodes : \E order \in SetToSeqs(some) :
        r = Ok([i \in DOMAIN order |-> [node |-> order[i], query |-> q]])
  BY DEF PerNode
<1>2. PICK order \in SetToSeqs(some) :
        r = Ok([i \in DOMAIN order |-> [node |-> order[i], query |-> q]])
  BY <1>1
<1>3. order \in [1..Cardinality(some) -> some]
  BY DEF SetToSeqs
<1>4. r.series = [i \in DOMAIN order |-> [node |-> order[i], query |-> q]]
  BY <1>2 DEF Ok
<1>5. QED
  BY <1>3, <1>4 DEF ToSet

\* An answer is what one of the queries can be answered with, and a response was made
\* of the answers that are there.
TrafficInv ==
  /\ result # NoResult =>
       \A q \in NodeQueries : q \in DOMAIN result /\ result[q] \in PerNode(q)
  /\ told.is = "traffic" => result # NoResult
  /\ OneNodePerChart

LEMMA TrafficInitInv == TrafficInit => TrafficInv
BY DEF TrafficInit, TrafficInv, OneNodePerChart

\* The series found for a node is that node's.
LEMMA OfItsNode ==
  ASSUME NEW q, NEW n \in Instances(q)
  PROVE  Of(q, n) \in ToSet(Series(q)) /\ Of(q, n).node = n
<1>1. \E s \in ToSet(Series(q)) : s.node = n
  BY DEF Instances, ToSet
<1>2. QED
  BY <1>1 DEF Of

LEMMA TrafficNextInv == TrafficInv /\ [TrafficNext]_trafficVars => TrafficInv'
<1> SUFFICES ASSUME TrafficInv, [TrafficNext]_trafficVars PROVE TrafficInv'
  OBVIOUS
<1>1. CASE QueriesEnd
  <2>1. result = NoResult /\ told' = told /\ told.is # "traffic"
    BY <1>1 DEF QueriesEnd, TrafficInv
  <2>2. \A q \in NodeQueries : q \in DOMAIN result' /\ result'[q] \in PerNode(q)
    BY <1>1 DEF QueriesEnd, NodeQueries
  <2>3. QED
    BY <2>1, <2>2 DEF TrafficInv, OneNodePerChart
<1>2. CASE BuildTraffic
  <2>1. result # NoResult /\ result' = result
    BY <1>2 DEF BuildTraffic
  <2>2. ASSUME told'.is = "traffic" PROVE OneNodePerChart'
    <3>1. /\ \A q \in DOMAIN result : result[q] # Unavailable
          /\ told'.nodes = BuildNodes
      BY <1>2, <2>2 DEF BuildTraffic
    <3>2. \A q \in NodeQueries : result[q] \in PerNode(q) /\ result[q] # Unavailable
      BY <2>1, <3>1 DEF TrafficInv
    <3>3. ASSUME NEW q \in NodeQueries
          PROVE  /\ Instances(q) \subseteq Nodes
                 /\ \A n \in Instances(q) : Of(q, n).node = n /\ Of(q, n).query = q
      <4>1. /\ \A i \in DOMAIN Series(q) : Series(q)[i].node \in Nodes /\ Series(q)[i].query = q
            /\ ToSet(Series(q)) = {Series(q)[i] : i \in DOMAIN Series(q)}
        BY <3>2, PerNodeAnswers DEF Series
      <4>2. Instances(q) \subseteq Nodes
        BY <4>1 DEF Instances
      <4>3. ASSUME NEW n \in Instances(q) PROVE Of(q, n).node = n /\ Of(q, n).query = q
        BY <4>1, OfItsNode
      <4>4. QED
        BY <4>2, <4>3
    <3> DEFINE both == Instances("nodeRx") \cap Instances("nodeTx")
    <3>4. both \in SUBSET Nat /\ IsFiniteSet(both)
      <4>1. both \subseteq Nodes
        BY <3>3 DEF NodeQueries
      <4>2. QED
        BY <4>1, NodesAssumption, FS_Subset
    <3>5. both = both' /\ both' = {result'["nodeRx"].series[i].node : i \in DOMAIN result'["nodeRx"].series}
                           \cap {result'["nodeTx"].series[i].node : i \in DOMAIN result'["nodeTx"].series}
      BY <2>1 DEF Instances, Series
    <3>6. /\ \A n \in both : /\ Of("nodeRx", n).node = n /\ Of("nodeRx", n).query = "nodeRx"
                             /\ Of("nodeTx", n).node = n /\ Of("nodeTx", n).query = "nodeTx"
          /\ \A n \in Instances("capacity") : Of("capacity", n).node = n
      BY <3>3 DEF NodeQueries
    <3> DEFINE nodes == told'.nodes
    <3>7. nodes = [i \in 1..Cardinality(both) |->
             [label |-> i, rx |-> Of("nodeRx", Ranked(both, i)), tx |-> Of("nodeTx", Ranked(both, i)),
              capacity |-> Speed(Ranked(both, i))]]
      BY <3>1 DEF BuildNodes
    <3> HIDE DEF both, nodes
    <3>8. /\ \A i \in 1..Cardinality(both) : Ranked(both, i) \in both
          /\ \A n \in both : \E i \in 1..Cardinality(both) : Ranked(both, i) = n
          /\ \A i, j \in 1..Cardinality(both) : i < j => Ranked(both, i) < Ranked(both, j)
      BY <3>4, RankedAll
    <3>9. DOMAIN nodes = 1..Cardinality(both)
      BY <3>7
    <3>10. ASSUME NEW i \in DOMAIN nodes
           PROVE  /\ nodes[i].rx.query = "nodeRx" /\ nodes[i].tx.query = "nodeTx"
                  /\ nodes[i].rx.node = Ranked(both, i) /\ nodes[i].tx.node = Ranked(both, i)
                  /\ nodes[i].capacity = Speed(Ranked(both, i))
      BY <3>6, <3>7, <3>8, <3>9
    <3>11. \A n : \A k \in DOMAIN Speed(n) : Speed(n)[k].node = n
      BY <3>6 DEF Speed
    <3>12. {nodes[i].rx.node : i \in DOMAIN nodes} = both
      BY <3>8, <3>9, <3>10
    <3>13. /\ \A i \in DOMAIN nodes :
                /\ nodes[i].rx.query = "nodeRx" /\ nodes[i].tx.query = "nodeTx"
                /\ nodes[i].rx.node = nodes[i].tx.node
                /\ \A k \in DOMAIN nodes[i].capacity : nodes[i].capacity[k].node = nodes[i].rx.node
                /\ \A j \in DOMAIN nodes : i < j => nodes[i].rx.node < nodes[j].rx.node
      BY <3>8, <3>9, <3>10, <3>11
    <3>14. QED
      BY <3>5, <3>12, <3>13 DEF OneNodePerChart, nodes
  <2>3. QED
    BY <2>1, <2>2 DEF TrafficInv, OneNodePerChart
<1>3. CASE UNCHANGED trafficVars
  <2>1. result' = result /\ told' = told
    BY <1>3 DEF trafficVars
  <2> DEFINE charted(t, r) == t.is = "traffic" =>
               LET nodes == t.nodes
                   reported(q) == {r[q].series[i].node : i \in DOMAIN r[q].series}
               IN /\ \A i \in DOMAIN nodes :
                       /\ nodes[i].rx.query = "nodeRx" /\ nodes[i].tx.query = "nodeTx"
                       /\ nodes[i].rx.node = nodes[i].tx.node
                       /\ \A k \in DOMAIN nodes[i].capacity : nodes[i].capacity[k].node = nodes[i].rx.node
                       /\ \A j \in DOMAIN nodes : i < j => nodes[i].rx.node < nodes[j].rx.node
                  /\ {nodes[i].rx.node : i \in DOMAIN nodes} = reported("nodeRx") \cap reported("nodeTx")
  <2>2. charted(told, result)
    BY DEF TrafficInv, OneNodePerChart
  <2>3. charted(told', result') => OneNodePerChart'
    BY DEF OneNodePerChart
  <2> HIDE DEF charted
  <2>4. OneNodePerChart'
    BY <2>1, <2>2, <2>3
  <2>5. (result # NoResult)' => \A q \in NodeQueries : q \in DOMAIN result' /\ result'[q] \in PerNode(q)
    BY <2>1 DEF TrafficInv, NoResult
  <2>6. (told.is = "traffic" => result # NoResult)'
    BY <2>1 DEF TrafficInv, NoResult
  <2>7. QED
    BY <2>4, <2>5, <2>6 DEF TrafficInv
<1>4. QED
  BY <1>1, <1>2, <1>3 DEF TrafficNext

\* Whatever nodes each of the three answers about them has, in whatever order and
\* however many: a chart pairs the two directions of one node, and every node that
\* reported both has exactly one chart (BuildNodes).
THEOREM ChartsAreOfOneNode == TrafficSpec => []OneNodePerChart
<1>1. TrafficInv => OneNodePerChart
  BY DEF TrafficInv
<1>2. QED
  BY TrafficInitInv, TrafficNextInv, <1>1, PTL DEF TrafficSpec

(***************************************************************************)
(* The blocklist                                                           *)
(***************************************************************************)

\* How bytes are compared bit by bit.
LEMMA Bits ==
  ASSUME NEW x \in Nat, NEW y \in Nat
  PROVE  /\ SameBits(2, x, y) <=> x \div 64 = y \div 64
         /\ SameBits(4, x, y) <=> x \div 16 = y \div 16
         /\ SameBits(7, x, y) <=> x \div 2 = y \div 2
BY DEF SameBits

\* Membership of a network, by its parts.
LEMMA In4 ==
  ASSUME NEW head, NEW bits, NEW a, ~IsV6(a), \A i \in 1..bits \div 8 : a[i] = head[i],
         bits % 8 # 0 => SameBits(bits % 8, a[bits \div 8 + 1], head[bits \div 8 + 1])
  PROVE  InNetwork(Net4(head, bits), a)
<1> DEFINE net == Net4(head, bits)
<1>1. net.v6 = FALSE /\ net.head = head /\ net.bits = bits
  BY DEF Net4
<1> HIDE DEF net
<1>2. net.v6 = IsV6(a)
  BY <1>1, Zenon DEF IsV6
<1>3. InNetwork(net, a)
  BY <1>1, <1>2 DEF InNetwork
<1>4. QED
  BY <1>3 DEF net

LEMMA In6 ==
  ASSUME NEW head, NEW bits, NEW a, IsV6(a), \A i \in 1..bits \div 8 : a[i] = head[i],
         bits % 8 # 0 => SameBits(bits % 8, a[bits \div 8 + 1], head[bits \div 8 + 1])
  PROVE  InNetwork(Net6(head, bits), a)
<1> DEFINE net == Net6(head, bits)
<1>1. net.v6 = TRUE /\ net.head = head /\ net.bits = bits
  BY DEF Net6
<1> HIDE DEF net
<1>2. net.v6 = IsV6(a)
  BY <1>1, Zenon DEF IsV6
<1>3. InNetwork(net, a)
  BY <1>1, <1>2 DEF InNetwork
<1>4. QED
  BY <1>3 DEF net

\* An address that is in a network of the list itself.
Caught(a) == \E net \in DefaultCidrs : InNetwork(net, a)

LEMMA Catch == ASSUME NEW a, NEW net \in DefaultCidrs, InNetwork(net, a) PROVE Caught(a)
BY DEF Caught

\* The documented ranges of IPv4, range by range.
LEMMA Covered4 ==
  ASSUME NEW a, ~IsV6(a)
  PROVE  /\ a[1] = 0 => Caught(a)
         /\ a[1] = 10 => Caught(a)
         /\ a[1] = 100 /\ a[2] \in 64..127 => Caught(a)
         /\ a[1] = 127 => Caught(a)
         /\ a[1] = 169 /\ a[2] = 254 => Caught(a)
         /\ a[1] = 172 /\ a[2] \in 16..31 => Caught(a)
         /\ a[1] = 192 /\ a[2] = 0 /\ a[3] = 0 => Caught(a)
         /\ a[1] = 192 /\ a[2] = 0 /\ a[3] = 2 => Caught(a)
         /\ a[1] = 192 /\ a[2] = 88 /\ a[3] = 99 => Caught(a)
         /\ a[1] = 192 /\ a[2] = 168 => Caught(a)
         /\ a[1] = 198 /\ a[2] \in 18..19 => Caught(a)
         /\ a[1] = 198 /\ a[2] = 51 /\ a[3] = 100 => Caught(a)
         /\ a[1] = 203 /\ a[2] = 0 /\ a[3] = 113 => Caught(a)
         /\ a[1] \in 224..239 => Caught(a)
         /\ a[1] \in 240..255 => Caught(a)
<1>1. a[1] = 0 => InNetwork(Net4(<<0>>, 8), a)
  BY In4
<1>2. a[1] = 10 => InNetwork(Net4(<<10>>, 8), a)
  BY In4
<1>3. a[1] = 100 /\ a[2] \in 64..127 => InNetwork(Net4(<<100, 64>>, 10), a)
  BY In4, Bits
<1>4. a[1] = 127 => InNetwork(Net4(<<127>>, 8), a)
  BY In4
<1>5. a[1] = 169 /\ a[2] = 254 => InNetwork(Net4(<<169, 254>>, 16), a)
  BY In4
<1>6. a[1] = 172 /\ a[2] \in 16..31 => InNetwork(Net4(<<172, 16>>, 12), a)
  BY In4, Bits
<1>7. a[1] = 192 /\ a[2] = 0 /\ a[3] = 0 => InNetwork(Net4(<<192, 0, 0>>, 24), a)
  BY In4
<1>8. a[1] = 192 /\ a[2] = 0 /\ a[3] = 2 => InNetwork(Net4(<<192, 0, 2>>, 24), a)
  BY In4
<1>9. a[1] = 192 /\ a[2] = 88 /\ a[3] = 99 => InNetwork(Net4(<<192, 88, 99>>, 24), a)
  BY In4
<1>10. a[1] = 192 /\ a[2] = 168 => InNetwork(Net4(<<192, 168>>, 16), a)
  BY In4
<1>11. a[1] = 198 /\ a[2] \in 18..19 => InNetwork(Net4(<<198, 18>>, 15), a)
  BY In4, Bits
<1>12. a[1] = 198 /\ a[2] = 51 /\ a[3] = 100 => InNetwork(Net4(<<198, 51, 100>>, 24), a)
  BY In4
<1>13. a[1] = 203 /\ a[2] = 0 /\ a[3] = 113 => InNetwork(Net4(<<203, 0, 113>>, 24), a)
  BY In4
<1>14. a[1] \in 224..239 => InNetwork(Net4(<<224>>, 4), a)
  BY In4, Bits
<1>15. a[1] \in 240..255 => InNetwork(Net4(<<240>>, 4), a)
  BY In4, Bits
<1>16. /\ Net4(<<0>>, 8) \in DefaultCidrs
       /\ Net4(<<10>>, 8) \in DefaultCidrs
       /\ Net4(<<100, 64>>, 10) \in DefaultCidrs
       /\ Net4(<<127>>, 8) \in DefaultCidrs
       /\ Net4(<<169, 254>>, 16) \in DefaultCidrs
       /\ Net4(<<172, 16>>, 12) \in DefaultCidrs
       /\ Net4(<<192, 0, 0>>, 24) \in DefaultCidrs
       /\ Net4(<<192, 0, 2>>, 24) \in DefaultCidrs
       /\ Net4(<<192, 88, 99>>, 24) \in DefaultCidrs
       /\ Net4(<<192, 168>>, 16) \in DefaultCidrs
       /\ Net4(<<198, 18>>, 15) \in DefaultCidrs
       /\ Net4(<<198, 51, 100>>, 24) \in DefaultCidrs
       /\ Net4(<<203, 0, 113>>, 24) \in DefaultCidrs
       /\ Net4(<<224>>, 4) \in DefaultCidrs
       /\ Net4(<<240>>, 4) \in DefaultCidrs
  BY DEF DefaultCidrs
<1>17. QED
  BY <1>1, <1>2, <1>3, <1>4, <1>5, <1>6, <1>7, <1>8, <1>9, <1>10, <1>11, <1>12, <1>13,
     <1>14, <1>15, <1>16, Catch

\* The documented ranges of IPv6, range by range.
LEMMA Covered6 ==
  ASSUME NEW a, IsV6(a)
  PROVE  /\ (\A i \in 1..12 : a[i] = 0) => Caught(a)
         /\ a[1] = 0 /\ a[2] = 100 /\ a[3] = 255 /\ a[4] = 155 /\ a[5] = 0 /\ a[6] = 1
              => Caught(a)
         /\ a[1] = 1 /\ (\A i \in 2..8 : a[i] = 0) => Caught(a)
         /\ a[1] = 32 /\ a[2] = 1 /\ a[3] \in 0..1 => Caught(a)
         /\ a[1] = 32 /\ a[2] = 1 /\ a[3] = 13 /\ a[4] = 184
              => Caught(a)
         /\ a[1] = 32 /\ a[2] = 2 => Caught(a)
         /\ a[1] = 63 /\ a[2] = 255 /\ a[3] \in 0..15 => Caught(a)
         /\ a[1] \in 252..253 => Caught(a)
         /\ a[1] = 254 /\ a[2] \in 128..191 => Caught(a)
         /\ a[1] = 254 /\ a[2] \in 192..255 => Caught(a)
         /\ a[1] = 255 => Caught(a)
<1>1. (\A i \in 1..12 : a[i] = 0) => InNetwork(Net6(Zeros(12), 96), a)
  <2>1. \A i \in 1..12 : Zeros(12)[i] = 0
    BY DEF Zeros
  <2>2. QED
    BY <2>1, In6
<1>2. a[1] = 0 /\ a[2] = 100 /\ a[3] = 255 /\ a[4] = 155 /\ a[5] = 0 /\ a[6] = 1
        => InNetwork(Net6(<<0, 100, 255, 155, 0, 1>>, 48), a)
  BY In6
<1>3. a[1] = 1 /\ (\A i \in 2..8 : a[i] = 0) => InNetwork(Net6(<<1>> \o Zeros(7), 64), a)
  <2> DEFINE head == <<1>> \o Zeros(7)
  <2>1. Zeros(7) \in Seq({0}) /\ Len(Zeros(7)) = 7
    BY DEF Zeros
  <2>2. head[1] = 1 /\ \A i \in 2..8 : head[i] = 0
    BY <2>1 DEF Zeros
  <2> HIDE DEF head
  <2>3. a[1] = 1 /\ (\A i \in 2..8 : a[i] = 0) => \A i \in 1..8 : a[i] = head[i]
    BY <2>2
  <2>4. a[1] = 1 /\ (\A i \in 2..8 : a[i] = 0) => InNetwork(Net6(head, 64), a)
    BY <2>3, In6
  <2>5. QED
    BY <2>4 DEF head
<1>4. a[1] = 32 /\ a[2] = 1 /\ a[3] \in 0..1 => InNetwork(Net6(<<32, 1, 0>>, 23), a)
  BY In6, Bits
<1>5. a[1] = 32 /\ a[2] = 1 /\ a[3] = 13 /\ a[4] = 184
        => InNetwork(Net6(<<32, 1, 13, 184>>, 32), a)
  BY In6
<1>6. a[1] = 32 /\ a[2] = 2 => InNetwork(Net6(<<32, 2>>, 16), a)
  BY In6
<1>7. a[1] = 63 /\ a[2] = 255 /\ a[3] \in 0..15 => InNetwork(Net6(<<63, 255, 0>>, 20), a)
  BY In6, Bits
<1>8. a[1] \in 252..253 => InNetwork(Net6(<<252>>, 7), a)
  BY In6, Bits
<1>9. a[1] = 254 /\ a[2] \in 128..191 => InNetwork(Net6(<<254, 128>>, 10), a)
  BY In6, Bits
<1>10. a[1] = 254 /\ a[2] \in 192..255 => InNetwork(Net6(<<254, 192>>, 10), a)
  BY In6, Bits
<1>11. a[1] = 255 => InNetwork(Net6(<<255>>, 8), a)
  BY In6
<1>12. /\ Net6(Zeros(12), 96) \in DefaultCidrs
       /\ Net6(<<0, 100, 255, 155, 0, 1>>, 48) \in DefaultCidrs
       /\ Net6(<<1>> \o Zeros(7), 64) \in DefaultCidrs
       /\ Net6(<<32, 1, 0>>, 23) \in DefaultCidrs
       /\ Net6(<<32, 1, 13, 184>>, 32) \in DefaultCidrs
       /\ Net6(<<32, 2>>, 16) \in DefaultCidrs
       /\ Net6(<<63, 255, 0>>, 20) \in DefaultCidrs
       /\ Net6(<<252>>, 7) \in DefaultCidrs
       /\ Net6(<<254, 128>>, 10) \in DefaultCidrs
       /\ Net6(<<254, 192>>, 10) \in DefaultCidrs
       /\ Net6(<<255>>, 8) \in DefaultCidrs
  BY DEF DefaultCidrs
<1>13. QED
  BY <1>1, <1>2, <1>3, <1>4, <1>5, <1>6, <1>7, <1>8, <1>9, <1>10, <1>11, <1>12, Catch

\* Whatever is in a documented range is in a network of the list.
LEMMA Listed4 ==
  ASSUME NEW a, ~IsV6(a), NEW r \in Documented4, InRange(r, a)
  PROVE  Caught(a)
<1>1. CASE r = <<<<0>>, 0, 255>>
  BY <1>1, Covered4 DEF InRange
<1>2. CASE r = <<<<10>>, 0, 255>>
  BY <1>2, Covered4 DEF InRange
<1>3. CASE r = <<<<100>>, 64, 127>>
  BY <1>3, Covered4 DEF InRange
<1>4. CASE r = <<<<127>>, 0, 255>>
  BY <1>4, Covered4 DEF InRange
<1>5. CASE r = <<<<169, 254>>, 0, 255>>
  BY <1>5, Covered4 DEF InRange
<1>6. CASE r = <<<<172>>, 16, 31>>
  BY <1>6, Covered4 DEF InRange
<1>7. CASE r = <<<<192, 0, 0>>, 0, 255>>
  BY <1>7, Covered4 DEF InRange
<1>8. CASE r = <<<<192, 0, 2>>, 0, 255>>
  BY <1>8, Covered4 DEF InRange
<1>9. CASE r = <<<<192, 88, 99>>, 0, 255>>
  BY <1>9, Covered4 DEF InRange
<1>10. CASE r = <<<<192, 168>>, 0, 255>>
  BY <1>10, Covered4 DEF InRange
<1>11. CASE r = <<<<198>>, 18, 19>>
  BY <1>11, Covered4 DEF InRange
<1>12. CASE r = <<<<198, 51, 100>>, 0, 255>>
  BY <1>12, Covered4 DEF InRange
<1>13. CASE r = <<<<203, 0, 113>>, 0, 255>>
  BY <1>13, Covered4 DEF InRange
<1>14. CASE r = <<<<>>, 224, 239>>
  <2>1. Len(r[1]) + 1 = 1 /\ r[2] = 224 /\ r[3] = 239
    BY <1>14
  <2>2. a[1] \in 224..239
    BY <2>1 DEF InRange
  <2>3. QED
    BY <2>2, Covered4
<1>15. CASE r = <<<<>>, 240, 255>>
  <2>1. Len(r[1]) + 1 = 1 /\ r[2] = 240 /\ r[3] = 255
    BY <1>15
  <2>2. a[1] \in 240..255
    BY <2>1 DEF InRange
  <2>3. QED
    BY <2>2, Covered4
<1>16. QED
  BY <1>1, <1>2, <1>3, <1>4, <1>5, <1>6, <1>7, <1>8, <1>9, <1>10, <1>11, <1>12, <1>13,
     <1>14, <1>15 DEF Documented4

LEMMA Listed6 ==
  ASSUME NEW a, IsV6(a), NEW r \in Documented6, InRange(r, a)
  PROVE  Caught(a)
<1>1. CASE r = <<Zeros(12), 0, 255>>
  <2>1. Len(Zeros(12)) = 12 /\ \A i \in 1..12 : Zeros(12)[i] = 0
    BY DEF Zeros
  <2>2. r[1] = Zeros(12)
    BY <1>1
  <2>3. \A i \in 1..12 : a[i] = 0
    BY <2>1, <2>2 DEF InRange
  <2>4. QED
    BY <2>3, Covered6
<1>2. CASE r = <<<<0, 100, 255, 155, 0, 1>>, 0, 255>>
  BY <1>2, Covered6 DEF InRange
<1>3. CASE r = <<<<1>> \o Zeros(7), 0, 255>>
  <2> DEFINE head == <<1>> \o Zeros(7)
  <2>1. Zeros(7) \in Seq({0}) /\ Len(Zeros(7)) = 7
    BY DEF Zeros
  <2>2. Len(head) = 8 /\ head[1] = 1 /\ \A i \in 2..8 : head[i] = 0
    BY <2>1 DEF Zeros
  <2>3. r[1] = head
    BY <1>3
  <2> HIDE DEF head
  <2>4. a[1] = 1 /\ \A i \in 2..8 : a[i] = 0
    <3>1. \A i \in 1..Len(head) : a[i] = head[i]
      BY <2>3 DEF InRange
    <3>2. QED
      BY <2>2, <3>1
  <2>5. QED
    BY <2>4, Covered6
<1>4. CASE r = <<<<32, 1>>, 0, 1>>
  BY <1>4, Covered6 DEF InRange
<1>5. CASE r = <<<<32, 1, 13, 184>>, 0, 255>>
  BY <1>5, Covered6 DEF InRange
<1>6. CASE r = <<<<32, 2>>, 0, 255>>
  BY <1>6, Covered6 DEF InRange
<1>7. CASE r = <<<<63, 255>>, 0, 15>>
  BY <1>7, Covered6 DEF InRange
<1>8. CASE r = <<<<>>, 252, 253>>
  <2>1. Len(r[1]) + 1 = 1 /\ r[2] = 252 /\ r[3] = 253
    BY <1>8
  <2>2. a[1] \in 252..253
    BY <2>1 DEF InRange
  <2>3. QED
    BY <2>2, Covered6
<1>9. CASE r = <<<<254>>, 128, 191>>
  BY <1>9, Covered6 DEF InRange
<1>10. CASE r = <<<<254>>, 192, 255>>
  BY <1>10, Covered6 DEF InRange
<1>11. CASE r = <<<<255>>, 0, 255>>
  BY <1>11, Covered6 DEF InRange
<1>12. QED
  BY <1>1, <1>2, <1>3, <1>4, <1>5, <1>6, <1>7, <1>8, <1>9, <1>10, <1>11 DEF Documented6

\* The bytes of an address that starts like an embedded one.
LEMMA MappedBytes ==
  ASSUME NEW a, IsMapped(a)
  PROVE  (\A i \in 1..10 : a[i] = 0) /\ a[11] = 255 /\ a[12] = 255
<1> DEFINE head == Zeros(10) \o <<255, 255>>
<1>1. Zeros(10) \in Seq({0}) /\ Len(Zeros(10)) = 10
  BY DEF Zeros
<1>2. (\A i \in 1..10 : head[i] = 0) /\ head[11] = 255 /\ head[12] = 255
  BY <1>1 DEF Zeros
<1>3. Slice(a, 1, 12) = head
  BY DEF IsMapped
<1> HIDE DEF head
<1>4. \A i \in 1..12 : a[i] = Slice(a, 1, 12)[i]
  BY DEF Slice
<1>5. QED
  BY <1>2, <1>3, <1>4

\* A mapped address is in no documented range itself: only what it embeds counts.
LEMMA MappedUnlisted ==
  ASSUME NEW a, IsMapped(a)
  PROVE  ~Listed(a)
<1>1. /\ a[1] = 0 /\ a[2] = 0 /\ a[3] = 0 /\ a[11] = 255
      /\ IsV6(a)
  BY MappedBytes DEF IsMapped
<1>2. ASSUME NEW r \in Documented6, InRange(r, a) PROVE FALSE
  <2>1. CASE r = <<Zeros(12), 0, 255>>
    <3>1. Len(Zeros(12)) = 12 /\ Zeros(12)[11] = 0
      BY DEF Zeros
    <3>2. r[1] = Zeros(12)
      BY <2>1
    <3>3. QED
      BY <1>1, <1>2, <3>1, <3>2 DEF InRange
  <2>2. CASE r = <<<<0, 100, 255, 155, 0, 1>>, 0, 255>>
    BY <1>1, <1>2, <2>2 DEF InRange
  <2>3. CASE r = <<<<1>> \o Zeros(7), 0, 255>>
    <3> DEFINE head == <<1>> \o Zeros(7)
    <3>1. Zeros(7) \in Seq({0}) /\ Len(Zeros(7)) = 7
      BY DEF Zeros
    <3>2. Len(head) = 8 /\ head[1] = 1 /\ \A i \in 2..8 : head[i] = 0
      BY <3>1 DEF Zeros
    <3>3. r[1] = head
      BY <2>3
    <3> HIDE DEF head
    <3>4. \A i \in 1..Len(head) : a[i] = head[i]
      BY <1>2, <3>3 DEF InRange
    <3>5. QED
      BY <1>1, <3>2, <3>4
  <2>4. CASE r \in {<<<<32, 1>>, 0, 1>>, <<<<32, 1, 13, 184>>, 0, 255>>, <<<<32, 2>>, 0, 255>>,
                    <<<<63, 255>>, 0, 15>>}
    BY <1>1, <1>2, <2>4 DEF InRange
  <2>5. CASE r \in {<<<<254>>, 128, 191>>, <<<<254>>, 192, 255>>, <<<<255>>, 0, 255>>}
    BY <1>1, <1>2, <2>5 DEF InRange
  <2>6. CASE r = <<<<>>, 252, 253>>
    <3>1. Len(r[1]) + 1 = 1 /\ r[2] = 252 /\ r[3] = 253
      BY <2>6
    <3>2. QED
      BY <1>1, <1>2, <3>1 DEF InRange
  <2>7. QED
    BY <2>1, <2>2, <2>3, <2>4, <2>5, <2>6 DEF Documented6
<1>3. QED
  BY <1>1, <1>2 DEF Listed

\* What the documentation restricts is refused: no address that is not blocked is
\* restricted, whatever wraps it.
LEMMA ListedCaught ==
  ASSUME NEW a, Listed(a)
  PROVE  Caught(a)
<1>1. CASE IsV6(a)
  <2>1. PICK r \in Documented6 : InRange(r, a)
    BY <1>1 DEF Listed
  <2>2. QED
    BY <1>1, <2>1, Listed6
<1>2. CASE ~IsV6(a)
  <2>1. PICK r \in Documented4 : InRange(r, a)
    BY <1>2 DEF Listed
  <2>2. QED
    BY <1>2, <2>1, Listed4
<1>3. QED
  BY <1>1, <1>2

LEMMA RestrictedBlocked ==
  ASSUME NEW a, Restricted(a)
  PROVE  IsBlocked(a)
<1>1. CASE Listed(a)
  <2>1. Caught(a)
    BY <1>1, ListedCaught
  <2>2. a \in Expand(a)
    BY <1>1, MappedUnlisted DEF Expand
  <2>3. QED
    BY <2>1, <2>2 DEF IsBlocked, Caught
<1>2. CASE IsV6(a) /\ Slice(a, 1, 12) \in Prefixes4 /\ Listed(Slice(a, 13, 16))
  <2> DEFINE inner == Slice(a, 13, 16)
  <2>1. Caught(inner)
    BY <1>2, ListedCaught
  <2>2. IsMapped(a) \/ IsNat64WellKnown(a)
    BY <1>2 DEF Prefixes4, IsMapped, IsNat64WellKnown
  <2>3. inner \in Expand(a)
    BY <1>2, <2>2 DEF Expand
  <2>4. QED
    BY <2>1, <2>3 DEF IsBlocked, Caught
<1>3. QED
  BY <1>1, <1>2 DEF Restricted

(***************************************************************************)
(* The pipeline of a diagnostic                                            *)
(***************************************************************************)

\* A set of naturals that is not empty has a least member.
LEMMA LeastMember == ASSUME NEW S \in SUBSET Nat, S # {} PROVE Min(S) \in S /\ \A y \in S : Min(S) <= y
<1>1. PICK x \in S : \A y \in S : ~ (<<y, x>> \in OpToRel(<, Nat))
  BY WFMin, NatLessThanWellFounded, Zenon
<1>2. ASSUME NEW y \in S PROVE x <= y
  <2>1. x \in Nat /\ y \in Nat
    OBVIOUS
  <2>2. y < x => <<y, x>> \in OpToRel(<, Nat)
    BY <2>1, Zenon DEF OpToRel
  <2>3. ~(y < x)
    BY <1>1, <2>2, Zenon
  <2>4. QED
    BY <2>1, <2>3
<1>3. \E z \in S : \A y \in S : z <= y
  BY <1>2
<1>4. QED
  BY <1>3, Zenon DEF Min

\* What Parse lets through is not blocked.
LEMMA ParseLetsThrough ==
  ASSUME NEW t, NEW u
  PROVE  /\ Parse(t, u).is = "address" => ~IsBlocked(Parse(t, u).address)
         /\ Parse(t, u).is = "name" => ~IsBlockedName(Parse(t, u).name)
         /\ Parse(t, u).is \in {"invalid", "blocked", "address", "name"}
<1> DEFINE Fine(p) == /\ p.is = "address" => ~IsBlocked(p.address)
                      /\ p.is = "name" => ~IsBlockedName(p.name)
                      /\ p.is \in {"invalid", "blocked", "address", "name"}
<1>1. Fine(Invalid) /\ Fine(Blocked)
  BY DEF Invalid, Blocked
<1>2. ASSUME NEW a PROVE Fine(CheckAddress(a))
  BY <1>1 DEF CheckAddress
<1>3. Fine(ParseIpv4(t))
  BY <1>1, <1>2 DEF ParseIpv4
<1>4. Fine(ParseIpv6(t))
  BY <1>1, <1>2 DEF ParseIpv6
<1>5. ASSUME NEW name, ~IsBlockedName(name) PROVE Fine([is |-> "name", name |-> name])
  BY <1>5
<1> HIDE DEF Fine
<1>6. Fine(ParseHostname(t, u))
  BY <1>1, <1>5 DEF ParseHostname
<1>7. Fine(Parse(t, u))
  BY <1>1, <1>3, <1>4, <1>6 DEF Parse
<1>8. QED
  BY <1>7 DEF Fine

Families == {"auto", "ipv4", "ipv6"}

FoundKnown ==
  /\ stage \in {"entered", "sent", "accepted", "resolving"} => found = <<>>
  /\ found \in Seq(ToSet(found))
  /\ \A i \in DOMAIN found : Matches(found[i], request.family)

TargetKnown ==
  stage \in {"resolved", "running"} \/ raw # <<>> =>
    /\ Matches(target, request.family)
    /\ \A i \in DOMAIN found : ~IsBlocked(found[i])
    /\ found # <<>> => target \in ToSet(found)
    /\ stage # "resolved" => ~IsBlocked(target)

\* Nothing that is asked is internal, and nothing that is told.
AskedKnown ==
  \A q \in asked :
    IF q[1] = "PTR" THEN ~IsBlocked(q[2])
    ELSE \A suffix \in DefaultBlockedSuffixes : ~IsSuffix(suffix, q[2])

HopTold(h, host) ==
  /\ Redact /\ h.address # <<>> => ~IsBlocked(h.address)
  /\ h.named => h.address # <<>>
  /\ Len(host) = 2 => host[2] = h.address

AnswerKnown ==
  answer.is = "hops" => \A i \in DOMAIN answer.hops : HopTold(answer.hops[i], answer.text[i])

PipelineInv ==
  /\ request.family \in Families
  /\ FoundKnown
  /\ TargetKnown
  /\ raw # <<>> => stage \in {"naming", "done"}
  /\ answer.is = "hops" => stage = "done"
  /\ AskedKnown
  /\ AnswerKnown
  /\ NamesCostNothing

LEMMA PipelineInitInv == Init => PipelineInv
<1> SUFFICES ASSUME Init PROVE PipelineInv
  OBVIOUS
<1>1. /\ request \in Requests /\ stage = "entered" /\ asked = {} /\ found = <<>>
      /\ raw = <<>> /\ answer.is = "none"
  BY DEF Init, NoAnswer
<1>2. request.family \in Families
  BY <1>1, PipelineAssumption DEF Families
<1>3. FoundKnown
  BY <1>1 DEF FoundKnown, ToSet
<1>4. QED
  BY <1>1, <1>2, <1>3 DEF PipelineInv, TargetKnown, AskedKnown, AnswerKnown, NamesCostNothing

\* A step that ends the pipeline without hops before any hop is known.
LEMMA ToldKeeps ==
  ASSUME PipelineInv, raw = <<>>, UNCHANGED <<request, found, raw>>, AskedKnown',
         stage' = "done", answer'.is # "hops"
  PROVE  PipelineInv'
<1>1. FoundKnown'
  BY DEF PipelineInv, FoundKnown, Matches
<1>2. TargetKnown'
  BY DEF TargetKnown
<1>3. AnswerKnown' /\ NamesCostNothing'
  BY DEF AnswerKnown, NamesCostNothing
<1>4. QED
  BY <1>1, <1>2, <1>3 DEF PipelineInv

\* A step that moves the pipeline on before there is a target.
LEMMA MoveKeeps ==
  ASSUME PipelineInv, raw = <<>>, raw' = <<>>, answer' = answer, answer.is # "hops",
         FoundKnown', AskedKnown', request'.family \in Families,
         stage' \in {"sent", "accepted", "looking", "resolving", "found"}
  PROVE  PipelineInv'
<1>1. TargetKnown'
  BY DEF TargetKnown
<1>2. AnswerKnown' /\ NamesCostNothing'
  BY DEF AnswerKnown, NamesCostNothing
<1>3. QED
  BY <1>1, <1>2 DEF PipelineInv

LEMMA EntryKeeps == PipelineInv /\ (Submit \/ SubmitDirectly \/ Validate) => PipelineInv'
<1>1. ASSUME PipelineInv, Submit PROVE PipelineInv'
  <2> DEFINE built == BuildRequest(request.kind, request.text, request.family, request.recordType)
  <2>1. /\ stage = "entered" /\ UNCHANGED <<asked, found, raw>>
        /\ IF built = <<>> THEN Told(Refused) /\ UNCHANGED request
           ELSE request' = built[1] /\ stage' = "sent" /\ UNCHANGED answer
    BY <1>1 DEF Submit
  <2>2. raw = <<>> /\ found = <<>> /\ request.family \in Families /\ answer.is # "hops"
    BY <1>1, <2>1 DEF PipelineInv, FoundKnown
  <2>3. AskedKnown'
    BY <1>1, <2>1 DEF PipelineInv, AskedKnown
  <2>4. built # <<>> => built[1].family \in Families
    BY <2>2 DEF BuildRequest, Families
  <2> HIDE DEF built
  <2>5. CASE built = <<>>
    BY <1>1, <2>1, <2>2, <2>3, <2>5, ToldKeeps DEF Told, Refused
  <2>6. CASE built # <<>>
    <3>1. FoundKnown'
      BY <2>1, <2>2, <2>6 DEF FoundKnown, ToSet
    <3>2. QED
      BY <1>1, <2>1, <2>2, <2>3, <2>4, <2>6, <3>1, MoveKeeps
  <2>7. QED
    BY <2>5, <2>6
<1>2. ASSUME PipelineInv, SubmitDirectly PROVE PipelineInv'
  <2>1. stage = "entered" /\ stage' = "sent" /\ UNCHANGED <<request, asked, found, raw, answer>>
    BY <1>2 DEF SubmitDirectly
  <2>2. raw = <<>> /\ found = <<>> /\ request.family \in Families /\ answer.is # "hops"
    BY <1>2, <2>1 DEF PipelineInv, FoundKnown
  <2>3. AskedKnown' /\ FoundKnown'
    BY <1>2, <2>1, <2>2 DEF PipelineInv, AskedKnown, FoundKnown, ToSet
  <2>4. QED
    BY <1>2, <2>1, <2>2, <2>3, MoveKeeps
<1>3. ASSUME PipelineInv, Validate PROVE PipelineInv'
  <2>1. /\ stage = "sent" /\ UNCHANGED <<request, asked, found, raw>>
        /\ \/ Told(Invalid)
           \/ Parsed.is \in {"invalid", "blocked"} /\ Told(Parsed)
           \/ stage' = "accepted" /\ answer' = answer
    BY <1>3 DEF Validate
  <2>2. raw = <<>> /\ found = <<>> /\ request.family \in Families /\ answer.is # "hops"
    BY <1>3, <2>1 DEF PipelineInv, FoundKnown
  <2>3. AskedKnown'
    BY <1>3, <2>1 DEF PipelineInv, AskedKnown
  <2>4. CASE stage' = "done" /\ answer'.is # "hops"
    BY <1>3, <2>1, <2>2, <2>3, <2>4, ToldKeeps
  <2>5. CASE stage' = "accepted" /\ answer' = answer
    <3>1. FoundKnown'
      BY <2>1, <2>2, <2>5 DEF FoundKnown, ToSet
    <3>2. QED
      BY <1>3, <2>1, <2>2, <2>3, <2>5, <3>1, MoveKeeps
  <2>6. QED
    BY <2>1, <2>4, <2>5 DEF Told, Invalid
<1>4. QED
  BY <1>1, <1>2, <1>3

\* What DNS is asked is the address or the name that Parse let through.
LEMMA LookupKeeps == PipelineInv /\ (Lookup \/ LookupEnds) => PipelineInv'
<1>1. ASSUME PipelineInv, Lookup PROVE PipelineInv'
  <2>1. /\ stage = "accepted" /\ UNCHANGED <<request, found, raw>>
        /\ \/ Parsed.is \in {"invalid", "blocked"} /\ Told(Parsed) /\ asked' = asked
           \/ Told(Invalid) /\ asked' = asked
           \/ /\ Parsed.is \notin {"invalid", "blocked"}
              /\ (request.recordType = "PTR") <=> (Parsed.is = "address")
              /\ asked' = asked \cup {Question}
              /\ stage' = "looking" /\ answer' = answer
    BY <1>1, Zenon DEF Lookup
  <2>2. raw = <<>> /\ found = <<>> /\ request.family \in Families /\ answer.is # "hops" /\ AskedKnown
    BY <1>1, <2>1 DEF PipelineInv, FoundKnown
  <2>3. CASE asked' = asked /\ stage' = "done" /\ answer'.is # "hops"
    <3>1. AskedKnown'
      BY <2>2, <2>3 DEF AskedKnown
    <3>2. QED
      BY <1>1, <2>1, <2>2, <2>3, <3>1, ToldKeeps
  <2>4. CASE /\ Parsed.is \notin {"invalid", "blocked"}
             /\ (request.recordType = "PTR") <=> (Parsed.is = "address")
             /\ asked' = asked \cup {Question}
             /\ stage' = "looking" /\ answer' = answer
    <3>1. IF Question[1] = "PTR" THEN ~IsBlocked(Question[2])
          ELSE \A suffix \in DefaultBlockedSuffixes : ~IsSuffix(suffix, Question[2])
      <4>1. CASE request.recordType = "PTR"
        <5>1. ~IsBlocked(Parsed.address)
          BY <2>4, <4>1, ParseLetsThrough DEF Parsed
        <5>2. Question[1] = "PTR" /\ Question[2] = Parsed.address
          BY <4>1 DEF Question
        <5>3. QED
          BY <5>1, <5>2
      <4>2. CASE request.recordType # "PTR"
        <5>1. ~IsBlockedName(Parsed.name)
          BY <2>4, <4>2, ParseLetsThrough DEF Parsed
        <5>2. Question[1] # "PTR" /\ Question[2] = Parsed.name
          BY <4>2 DEF Question
        <5>3. QED
          BY <5>1, <5>2 DEF IsBlockedName
      <4>3. QED
        BY <4>1, <4>2
    <3>2. AskedKnown'
      BY <2>2, <2>4, <3>1 DEF AskedKnown
    <3>3. FoundKnown'
      BY <2>1, <2>2, <2>4 DEF FoundKnown, ToSet
    <3>4. QED
      BY <1>1, <2>1, <2>2, <2>4, <3>2, <3>3, MoveKeeps
  <2>5. QED
    BY <2>1, <2>3, <2>4 DEF Told, Invalid
<1>2. ASSUME PipelineInv, LookupEnds PROVE PipelineInv'
  <2>1. /\ stage = "looking" /\ UNCHANGED <<request, asked, found, raw>>
        /\ stage' = "done" /\ answer'.is # "hops"
    BY <1>2 DEF LookupEnds, Told, Failed
  <2>2. raw = <<>> /\ AskedKnown'
    BY <1>2, <2>1 DEF PipelineInv, AskedKnown
  <2>3. QED
    BY <1>2, <2>1, <2>2, ToldKeeps
<1>3. QED
  BY <1>1, <1>2

\* What Parse lets through is all that is resolved.
LEMMA ResolveKeeps == PipelineInv /\ Resolve => PipelineInv'
<1> SUFFICES ASSUME PipelineInv, Resolve PROVE PipelineInv'
  OBVIOUS
<1> DEFINE types == (IF request.family # "ipv6" THEN {"A"} ELSE {}) \cup
                    (IF request.family # "ipv4" THEN {"AAAA"} ELSE {})
<1>1. /\ stage = "accepted" /\ UNCHANGED <<request, found, raw>>
      /\ \/ Parsed.is \in {"invalid", "blocked"} /\ Told(Parsed) /\ asked' = asked
         \/ Told(Invalid) /\ asked' = asked
         \/ /\ Parsed.is = "address" /\ Matches(Parsed.address, request.family)
            /\ target' = Parsed.address /\ stage' = "resolved"
            /\ asked' = asked /\ answer' = answer
         \/ /\ Parsed.is \notin {"invalid", "blocked", "address"}
            /\ asked' = asked \cup {<<type, Parsed.name>> : type \in types}
            /\ stage' = "resolving" /\ answer' = answer
  BY Zenon DEF Resolve
<1>2. raw = <<>> /\ found = <<>> /\ request.family \in Families /\ answer.is # "hops" /\ AskedKnown
  BY <1>1 DEF PipelineInv, FoundKnown
<1>3. CASE asked' = asked /\ stage' = "done" /\ answer'.is # "hops"
  <2>1. AskedKnown'
    BY <1>2, <1>3 DEF AskedKnown
  <2>2. QED
    BY <1>1, <1>2, <1>3, <2>1, ToldKeeps
<1>4. CASE /\ Parsed.is = "address" /\ Matches(Parsed.address, request.family)
           /\ target' = Parsed.address /\ stage' = "resolved"
           /\ asked' = asked /\ answer' = answer
  <2>1. AskedKnown' /\ FoundKnown'
    BY <1>1, <1>2, <1>4 DEF AskedKnown, FoundKnown, ToSet
  <2>2. TargetKnown'
    BY <1>1, <1>2, <1>4 DEF TargetKnown, Matches
  <2>3. AnswerKnown' /\ NamesCostNothing'
    BY <1>1, <1>2, <1>4 DEF AnswerKnown, NamesCostNothing
  <2>4. QED
    BY <1>1, <1>2, <1>4, <2>1, <2>2, <2>3 DEF PipelineInv
<1>5. CASE /\ Parsed.is \notin {"invalid", "blocked", "address"}
           /\ asked' = asked \cup {<<type, Parsed.name>> : type \in types}
           /\ stage' = "resolving" /\ answer' = answer
  <2>1. ~IsBlockedName(Parsed.name)
    BY <1>5, ParseLetsThrough DEF Parsed
  <2>2. ASSUME NEW type \in types
        PROVE  /\ <<type, Parsed.name>>[1] # "PTR" /\ <<type, Parsed.name>>[2] = Parsed.name
               /\ \A suffix \in DefaultBlockedSuffixes : ~IsSuffix(suffix, Parsed.name)
    BY <2>1 DEF IsBlockedName
  <2> HIDE DEF types
  <2>3. AskedKnown'
    BY <1>2, <1>5, <2>2 DEF AskedKnown
  <2>4. FoundKnown'
    BY <1>1, <1>2, <1>5 DEF FoundKnown, ToSet
  <2>5. QED
    BY <1>1, <1>2, <1>5, <2>3, <2>4, MoveKeeps
<1>6. QED
  BY <1>1, <1>3, <1>4, <1>5 DEF Told, Invalid

\* An A record is an IPv4 address, an AAAA record an IPv6 one.
LEMMA RecordFamilies ==
  /\ \A a \in [1..4 -> 0..255] : ~IsV6(a)
  /\ \A a \in [1..16 -> 0..255] : IsV6(a)
<1>1. ASSUME NEW a \in [1..4 -> 0..255] PROVE Len(a) = 4
  OBVIOUS
<1>2. ASSUME NEW a \in [1..16 -> 0..255] PROVE Len(a) = 16
  OBVIOUS
<1>3. QED
  BY <1>1, <1>2 DEF IsV6

\* What is in a joined list is in one of its parts.
LEMMA Joined ==
  ASSUME NEW S, NEW T, NEW f \in Seq(S), NEW s \in Seq(T), NEW i \in DOMAIN (f \o s)
  PROVE  \/ i \in DOMAIN f /\ (f \o s)[i] = f[i]
         \/ i - Len(f) \in DOMAIN s /\ (f \o s)[i] = s[i - Len(f)]
OBVIOUS

LEMMA HostKeeps == PipelineInv /\ HostResolved => PipelineInv'
<1> SUFFICES ASSUME PipelineInv, HostResolved PROVE PipelineInv'
  OBVIOUS
<1> DEFINE four(r) == IF request.family # "ipv6" THEN r.A ELSE <<>>
           six(r) == IF request.family # "ipv4" THEN r.AAAA ELSE <<>>
<1>1. stage = "resolving" /\ UNCHANGED <<request, asked, raw>>
  BY DEF HostResolved
<1>2. raw = <<>> /\ found = <<>> /\ request.family \in Families /\ answer.is # "hops"
  BY <1>1 DEF PipelineInv, FoundKnown
<1>3. AskedKnown'
  BY <1>1 DEF PipelineInv, AskedKnown
<1>4. CASE Told(Failed) /\ UNCHANGED found
  BY <1>1, <1>2, <1>3, <1>4, ToldKeeps DEF Told, Failed
<1>5. ASSUME NEW r \in Records, NEW n \in 0..Len(four(r) \o six(r)),
             found' \in [1..n -> ToSet(four(r) \o six(r))], stage' = "found", answer' = answer
      PROVE  PipelineInv'
  <2>1. r.A \in Seq([1..4 -> 0..255]) /\ r.AAAA \in Seq([1..16 -> 0..255])
    BY PipelineAssumption
  <2>2. four(r) \in Seq([1..4 -> 0..255]) /\ six(r) \in Seq([1..16 -> 0..255])
    BY <2>1
  <2>3. ASSUME NEW i \in DOMAIN four(r) PROVE Matches(four(r)[i], request.family)
    <3>1. request.family # "ipv6"
      BY <2>3
    <3> DEFINE s == four(r)
    <3>2. s \in Seq([1..4 -> 0..255]) /\ i \in DOMAIN s
      BY <2>2, <2>3
    <3> HIDE DEF s
    <3>3. ~IsV6(s[i])
      BY <3>2, RecordFamilies
    <3>4. QED
      BY <1>2, <3>1, <3>3 DEF Matches, Families, s
  <2>4. ASSUME NEW i \in DOMAIN six(r) PROVE Matches(six(r)[i], request.family)
    <3>1. request.family # "ipv4"
      BY <2>4
    <3> DEFINE s == six(r)
    <3>2. s \in Seq([1..16 -> 0..255]) /\ i \in DOMAIN s
      BY <2>2, <2>4
    <3> HIDE DEF s
    <3>3. IsV6(s[i])
      BY <3>2, RecordFamilies
    <3>4. QED
      BY <1>2, <3>1, <3>3 DEF Matches, Families, s
  <2> DEFINE all == four(r) \o six(r)
  <2>5. ASSUME NEW i \in DOMAIN all PROVE Matches(all[i], request.family)
    <3> DEFINE f == four(r)
               s == six(r)
               S == [1..4 -> 0..255]
               T == [1..16 -> 0..255]
    <3>1. /\ f \in Seq(S) /\ s \in Seq(T) /\ all = f \o s
          /\ \A k \in DOMAIN f : Matches(f[k], request.family)
          /\ \A k \in DOMAIN s : Matches(s[k], request.family)
      BY <2>2, <2>3, <2>4
    <3>2. i \in DOMAIN (f \o s)
      BY <2>5
    <3> HIDE DEF f, s, S, T, all
    <3>3. \/ i \in DOMAIN f /\ (f \o s)[i] = f[i]
          \/ i - Len(f) \in DOMAIN s /\ (f \o s)[i] = s[i - Len(f)]
      BY <3>1, <3>2, Joined
    <3>4. QED
      BY <3>1, <3>3
  <2>6. \A a \in ToSet(all) : Matches(a, request.family)
    BY <2>5 DEF ToSet
  <2> HIDE DEF all
  <2>7. found' \in Seq(ToSet(found')) /\ \A i \in DOMAIN found' : found'[i] \in ToSet(all)
    <3>1. n \in Nat /\ found' \in [1..n -> ToSet(all)]
      BY <1>5 DEF all
    <3>2. found' \in [1..n -> ToSet(found')]
      BY <3>1 DEF ToSet
    <3>3. QED
      BY <3>1, <3>2
  <2>8. FoundKnown'
    BY <1>1, <1>5, <2>6, <2>7 DEF FoundKnown, Matches, ToSet
  <2>9. QED
    BY <1>1, <1>2, <1>3, <1>5, <2>8, MoveKeeps
<1>6. \/ Told(Failed) /\ UNCHANGED found
      \/ \E r \in Records : \E n \in 0..Len(four(r) \o six(r)) :
           /\ found' \in [1..n -> ToSet(four(r) \o six(r))]
           /\ stage' = "found" /\ answer' = answer
  BY Zenon DEF HostResolved
<1>7. QED
  BY <1>4, <1>5, <1>6

LEMMA ChooseKeeps == PipelineInv /\ Choose => PipelineInv'
<1> SUFFICES ASSUME PipelineInv, Choose PROVE PipelineInv'
  OBVIOUS
<1>1. /\ stage = "found" /\ UNCHANGED <<request, asked, found, raw>>
      /\ \/ Told(Failed)
         \/ Told(Blocked)
         \/ /\ found # <<>> /\ \A i \in DOMAIN found : ~IsBlocked(found[i])
            /\ target' = Preferred(found) /\ stage' = "resolved" /\ answer' = answer
  BY Zenon DEF Choose
<1>2. raw = <<>> /\ request.family \in Families /\ answer.is # "hops" /\ FoundKnown
  BY <1>1 DEF PipelineInv
<1>3. AskedKnown'
  BY <1>1 DEF PipelineInv, AskedKnown
<1>4. CASE stage' = "done" /\ answer'.is # "hops"
  BY <1>1, <1>2, <1>3, <1>4, ToldKeeps
<1>5. CASE /\ found # <<>> /\ \A i \in DOMAIN found : ~IsBlocked(found[i])
           /\ target' = Preferred(found) /\ stage' = "resolved" /\ answer' = answer
  <2> DEFINE four == {i \in DOMAIN found : ~IsV6(found[i])}
  <2>1. found \in Seq(ToSet(found)) /\ DOMAIN found = 1..Len(found) /\ Len(found) >= 1
    BY <1>2, <1>5 DEF FoundKnown
  <2>2. four \in SUBSET Nat /\ four \subseteq DOMAIN found
    BY <2>1
  <2>3. four # {} => Min(four) \in DOMAIN found
    BY <2>2, LeastMember
  <2>4. PICK i \in DOMAIN found : Preferred(found) = found[i]
    <3>1. Preferred(found) = found[IF four = {} THEN 1 ELSE Min(four)]
      BY Zenon DEF Preferred
    <3> HIDE DEF four
    <3>2. (IF four = {} THEN 1 ELSE Min(four)) \in DOMAIN found
      BY <2>1, <2>3
    <3>3. QED
      BY <3>1, <3>2, Zenon
  <2>5. FoundKnown'
    BY <1>1, <1>2, <1>5 DEF FoundKnown, Matches
  <2>6. Matches(found[i], request.family) /\ found[i] \in ToSet(found)
    BY <1>2, <2>4 DEF FoundKnown, ToSet
  <2>7. TargetKnown'
    BY <1>1, <1>2, <1>5, <2>4, <2>6 DEF TargetKnown, Matches
  <2>8. AnswerKnown' /\ NamesCostNothing'
    BY <1>1, <1>2, <1>5 DEF AnswerKnown, NamesCostNothing
  <2>9. QED
    BY <1>1, <1>2, <1>3, <1>5, <2>5, <2>7, <2>8 DEF PipelineInv
<1>6. QED
  BY <1>1, <1>4, <1>5 DEF Told, Failed, Blocked

\* The target is looked at once more before the tool starts.
LEMMA ToolKeeps ==
  PipelineInv /\ (RunTool \/ ToolFails \/ PingEnds) => PipelineInv'
<1> SUFFICES ASSUME PipelineInv, RunTool \/ ToolFails \/ PingEnds PROVE PipelineInv'
  OBVIOUS
<1>1. UNCHANGED <<request, asked, found, raw>>
  BY DEF RunTool, ToolFails, PingEnds
<1>2. stage \in {"resolved", "running"}
  BY DEF RunTool, ToolFails, PingEnds
<1>3. raw = <<>> /\ AskedKnown' /\ answer.is # "hops" /\ FoundKnown /\ TargetKnown
  BY <1>1, <1>2 DEF PipelineInv, AskedKnown
<1>4. CASE stage' = "done" /\ answer'.is # "hops"
  BY <1>1, <1>3, <1>4, ToldKeeps
<1>5. CASE stage' = "running" /\ answer' = answer /\ target' = target /\ ~IsBlocked(target)
  <2>1. FoundKnown'
    BY <1>1, <1>3, <1>5 DEF FoundKnown, Matches
  <2>2. TargetKnown'
    BY <1>1, <1>2, <1>3, <1>5 DEF TargetKnown, Matches
  <2>3. AnswerKnown' /\ NamesCostNothing'
    BY <1>3, <1>5 DEF AnswerKnown, NamesCostNothing
  <2>4. QED
    BY <1>1, <1>3, <1>5, <2>1, <2>2, <2>3 DEF PipelineInv
<1>6. \/ stage' = "done" /\ answer'.is # "hops"
      \/ stage' = "running" /\ answer' = answer /\ target' = target /\ ~IsBlocked(target)
  BY DEF RunTool, ToolFails, PingEnds, Told, Failed, Blocked
<1>7. QED
  BY <1>4, <1>5, <1>6

\* Only the addresses of hops that are not blocked are asked for a name.
LEMMA HopsKeep ==
  ASSUME PipelineInv, stage = "running", NEW hops, ReverseLookup(hops)
  PROVE  PipelineInv'
<1>1. /\ raw' = hops /\ stage' = "naming" /\ UNCHANGED <<request, found, target, answer>>
      /\ asked' = asked \cup {<<"PTR", a>> : a \in LookedUp(hops)}
  BY DEF ReverseLookup
<1>2. AskedKnown /\ answer.is # "hops" /\ FoundKnown /\ TargetKnown /\ request.family \in Families
  BY DEF PipelineInv
<1>3. ASSUME NEW a \in LookedUp(hops)
      PROVE  <<"PTR", a>>[1] = "PTR" /\ ~IsBlocked(<<"PTR", a>>[2])
  BY DEF LookedUp
<1>4. AskedKnown'
  BY <1>1, <1>2, <1>3 DEF AskedKnown
<1>5. FoundKnown'
  BY <1>1, <1>2 DEF FoundKnown, Matches
<1>6. TargetKnown'
  BY <1>1, <1>2 DEF TargetKnown, Matches
<1>7. AnswerKnown' /\ NamesCostNothing'
  BY <1>1, <1>2 DEF AnswerKnown, NamesCostNothing
<1>8. QED
  BY <1>1, <1>2, <1>4, <1>5, <1>6, <1>7 DEF PipelineInv

\* A hop that is hidden keeps neither its address nor its name, and so does its text.
LEMMA PresentSound == ASSUME NEW h PROVE HopTold(Present(h), Host(Present(h)))
<1> DEFINE p == Present(h)
           open == h.address # <<>> /\ ~Internal(h.address)
<1>1. p.address = IF open THEN h.address ELSE <<>>
  BY DEF Present
<1>2. p.named => open
  BY Zenon DEF Present
<1> HIDE DEF p
<1>3. Redact /\ p.address # <<>> => ~IsBlocked(p.address)
  BY <1>1 DEF Internal
<1>4. p.named => p.address # <<>>
  BY <1>1, <1>2
<1>5. Host(p) \in {<<"unknown">>, <<"internal network">>, <<"name", p.address>>,
                   <<"address", p.address>>}
  BY Zenon DEF Host
<1>6. Len(Host(p)) = 2 => Host(p)[2] = p.address
  <2> DEFINE host == Host(p)
             where == p.address
  <2>1. host \in {<<"unknown">>, <<"internal network">>, <<"name", where>>, <<"address", where>>}
    BY <1>5
  <2> HIDE DEF host, where
  <2>2. Len(host) = 2 => host[2] = where
    <3>1. CASE host = <<"unknown">> \/ host = <<"internal network">>
      <4>1. Len(<<"unknown">>) = 1 /\ Len(<<"internal network">>) = 1
        OBVIOUS
      <4>2. Len(host) = 1
        BY <3>1, <4>1, Zenon
      <4>3. QED
        BY <4>2
    <3>2. <<"name", where>>[2] = where /\ <<"address", where>>[2] = where
      OBVIOUS
    <3>3. CASE host = <<"name", where>> \/ host = <<"address", where>>
      BY <3>2, <3>3, Zenon
    <3>4. QED
      BY <2>1, <3>1, <3>3, Zenon
  <2>3. QED
    BY <2>2 DEF host, where
<1>7. QED
  BY <1>3, <1>4, <1>6 DEF HopTold, p

LEMMA FinishKeeps == PipelineInv /\ Finish => PipelineInv'
<1> SUFFICES ASSUME PipelineInv, Finish PROVE PipelineInv'
  OBVIOUS
<1> DEFINE hops == [i \in DOMAIN raw |-> Present(raw[i])]
           hosts == [i \in DOMAIN hops |-> Host(hops[i])]
<1>1. /\ stage = "naming" /\ stage' = "done"
      /\ UNCHANGED <<request, asked, found, target, raw>>
      /\ answer'.is = "hops" /\ answer'.hops = hops /\ answer'.text = hosts
  BY DEF Finish, Told
<1>2. FoundKnown' /\ TargetKnown' /\ AskedKnown'
  BY <1>1 DEF PipelineInv, FoundKnown, TargetKnown, AskedKnown, Matches
<1>3. ASSUME NEW i \in DOMAIN hops PROVE HopTold(hops[i], hosts[i])
  <2>1. hops[i] = Present(raw[i]) /\ hosts[i] = Host(Present(raw[i]))
    BY <1>3
  <2>2. QED
    BY <2>1, PresentSound
<1> HIDE DEF hops, hosts
<1>4. AnswerKnown'
  BY <1>1, <1>3 DEF AnswerKnown, HopTold
<1>5. NamesCostNothing'
  BY <1>1 DEF NamesCostNothing
<1>6. QED
  BY <1>1, <1>2, <1>4, <1>5 DEF PipelineInv

\* What only moves the lookups, their budget or the token.
LEMMA WaitKeeps ==
  ASSUME PipelineInv, UNCHANGED <<request, stage, asked, found, target, raw, answer>>,
         cancelled => cancelled'
  PROVE  PipelineInv'
<1>1. FoundKnown' /\ TargetKnown' /\ AskedKnown'
  BY DEF PipelineInv, FoundKnown, TargetKnown, AskedKnown, Matches
<1>2. AnswerKnown' /\ NamesCostNothing'
  BY DEF PipelineInv, AnswerKnown, HopTold, NamesCostNothing
<1>3. QED
  BY <1>1, <1>2 DEF PipelineInv

\* A run ends without what it found only if it is cancelled.
LEMMA StopKeeps == PipelineInv /\ Stop => PipelineInv'
<1> SUFFICES ASSUME PipelineInv, Stop PROVE PipelineInv'
  OBVIOUS
<1>1. /\ cancelled /\ cancelled' = cancelled /\ stage \in {"looking", "resolving", "running", "naming"}
      /\ stage' = "done" /\ UNCHANGED <<request, asked, found, target, raw>>
      /\ answer'.is = "cancelled"
  BY DEF Stop, Told
<1>2. FoundKnown' /\ AskedKnown'
  BY <1>1 DEF PipelineInv, FoundKnown, AskedKnown, Matches
<1>3. TargetKnown'
  BY <1>1 DEF PipelineInv, TargetKnown, Matches
<1>4. AnswerKnown' /\ NamesCostNothing'
  BY <1>1 DEF AnswerKnown, NamesCostNothing
<1>5. QED
  BY <1>1, <1>2, <1>3, <1>4 DEF PipelineInv

LEMMA PipelineNextInv == PipelineInv /\ [Next]_vars => PipelineInv'
<1> SUFFICES ASSUME PipelineInv, [Next]_vars PROVE PipelineInv'
  OBVIOUS
<1>1. CASE Submit \/ SubmitDirectly \/ Validate
  BY <1>1, EntryKeeps
<1>2. CASE Lookup \/ LookupEnds
  BY <1>2, LookupKeeps
<1>3. CASE Resolve \/ HostResolved \/ Choose
  BY <1>3, ResolveKeeps, HostKeeps, ChooseKeeps
<1>4. CASE RunTool \/ ToolFails \/ PingEnds
  BY <1>4, ToolKeeps
<1>5. CASE TracerouteEnds \/ MtrEnds
  <2>1. PICK hops : stage = "running" /\ ReverseLookup(hops)
    BY <1>5, Zenon DEF TracerouteEnds, MtrEnds
  <2>2. QED
    BY <2>1, HopsKeep
<1>6. CASE \E a \in DOMAIN lookups : ReverseAnswer(a) \/ LookupGivesUp(a)
  BY <1>6, WaitKeeps DEF ReverseAnswer, LookupGivesUp
<1>7. CASE BudgetOver \/ CancelToken
  BY <1>7, WaitKeeps DEF BudgetOver, CancelToken
<1>8. CASE Finish \/ Stop
  BY <1>8, FinishKeeps, StopKeeps
<1>9. CASE UNCHANGED vars
  BY <1>9, WaitKeeps DEF vars
<1>10. QED
  BY <1>1, <1>2, <1>3, <1>4, <1>5, <1>6, <1>7, <1>8, <1>9 DEF Next

\* DiagnosticsPipeline!OnlyPublicProbed, for all requests, records and paths and all
\* extra blocked networks: no tool is started on a restricted address.
THEOREM ProbesArePublic == Spec => []OnlyPublicProbed
<1>1. PipelineInv => OnlyPublicProbed
  <2> SUFFICES ASSUME PipelineInv, stage = "running" \/ raw # <<>> PROVE OnlyPublicProbed
    BY DEF OnlyPublicProbed
  <2>1. TargetKnown /\ stage # "resolved"
    BY DEF PipelineInv
  <2>2. ~IsBlocked(target) /\ \A i \in DOMAIN found : ~IsBlocked(found[i])
    BY <2>1 DEF TargetKnown
  <2>3. ~Restricted(target) /\ \A i \in DOMAIN found : ~Restricted(found[i])
    BY <2>2, RestrictedBlocked
  <2>4. QED
    BY <2>1, <2>3 DEF OnlyPublicProbed, TargetKnown
<1>2. QED
  BY <1>1, PipelineInitInv, PipelineNextInv, PTL DEF Spec

\* DiagnosticsPipeline!NothingInternal: no internal name or restricted address is asked
\* of DNS, and none is shown to the visitor.
THEOREM InternalStaysInside == Spec => []NothingInternal
<1>1. PipelineInv => NothingInternal
  <2> SUFFICES ASSUME PipelineInv PROVE NothingInternal
    OBVIOUS
  <2>1. AskedKnown /\ AnswerKnown
    BY DEF PipelineInv
  <2>2. ASSUME NEW q \in asked
        PROVE  IF q[1] = "PTR" THEN ~Restricted(q[2])
               ELSE \A suffix \in DefaultBlockedSuffixes : ~IsSuffix(suffix, q[2])
    BY <2>1, RestrictedBlocked DEF AskedKnown
  <2>3. ASSUME answer.is = "hops", Redact, NEW i \in DOMAIN answer.hops
        PROVE  LET h == answer.hops[i]
               IN /\ h.address # <<>> => ~Restricted(h.address)
                  /\ h.named => h.address # <<>>
                  /\ Len(answer.text[i]) = 2 => answer.text[i][2] = h.address
    <3>1. HopTold(answer.hops[i], answer.text[i])
      BY <2>1, <2>3 DEF AnswerKnown
    <3>2. QED
      BY <2>3, <3>1, RestrictedBlocked, Zenon DEF HopTold
  <2>4. QED
    BY <2>2, <2>3, Zenon DEF NothingInternal
<1>2. QED
  BY <1>1, PipelineInitInv, PipelineNextInv, PTL DEF Spec

\* DiagnosticsPipeline!NamesCostNothing: once a path is known, only the cancelling of
\* the run keeps it from the visitor.
THEOREM PathIsNotLost == Spec => []NamesCostNothing
<1>1. PipelineInv => NamesCostNothing
  BY DEF PipelineInv
<1>2. QED
  BY <1>1, PipelineInitInv, PipelineNextInv, PTL DEF Spec

(***************************************************************************)
(* What the page checks before it asks                                     *)
(***************************************************************************)

\* The page refuses fewer IPv4 addresses than the list does.
LEMMA PageBlocks4 ==
  ASSUME NEW o \in [1..4 -> 0..255], Ipv4BlockReason(o)
  PROVE  IsBlocked(o)
<1>1. ~IsV6(o)
  BY RecordFamilies
<1>2. o[1] \in 0..255
  OBVIOUS
<1>3. Caught(o)
  <2>1. CASE o[1] \in {0, 10, 127}
    BY <1>1, <2>1, Covered4
  <2>2. CASE o[1] = 100 /\ o[2] \in 64..127
    BY <1>1, <2>2, Covered4
  <2>3. CASE o[1] = 169 /\ o[2] = 254
    BY <1>1, <2>3, Covered4
  <2>4. CASE o[1] = 172 /\ o[2] \in 16..31
    BY <1>1, <2>4, Covered4
  <2>5. CASE o[1] = 192 /\ o[2] = 168
    BY <1>1, <2>5, Covered4
  <2>6. CASE o[1] = 192 /\ o[2] = 0 /\ o[3] = 0
    BY <1>1, <2>6, Covered4
  <2>7. CASE o[1] >= 224
    <3>1. o[1] \in 224..239 \/ o[1] \in 240..255
      BY <1>2, <2>7
    <3>2. QED
      BY <1>1, <3>1, Covered4
  <2>8. QED
    BY <2>1, <2>2, <2>3, <2>4, <2>5, <2>6, <2>7 DEF Ipv4BlockReason
<1>4. o \in Expand(o)
  BY <1>1 DEF Expand
<1>5. QED
  BY <1>3, <1>4 DEF IsBlocked, Caught

\* A group is two bytes.
LEMMA BytesAt ==
  ASSUME NEW g
  PROVE  LET b == BytesOf(g) IN
         /\ b[1] = g[1] \div 256 /\ b[2] = g[1] % 256 /\ b[3] = g[2] \div 256 /\ b[4] = g[2] % 256
         /\ b[5] = g[3] \div 256 /\ b[6] = g[3] % 256 /\ b[7] = g[4] \div 256 /\ b[8] = g[4] % 256
         /\ b[9] = g[5] \div 256 /\ b[10] = g[5] % 256 /\ b[11] = g[6] \div 256 /\ b[12] = g[6] % 256
         /\ b[13] = g[7] \div 256 /\ b[14] = g[7] % 256 /\ b[15] = g[8] \div 256 /\ b[16] = g[8] % 256
BY DEF BytesOf

\* The groups of an IPv6 address.
Words16 == {x \in Nat : x <= 65535}
Groups == [1..8 -> Words16]

LEMMA BytesRange ==
  ASSUME NEW g \in Groups
  PROVE  BytesOf(g) \in [1..16 -> 0..255]
<1>1. ASSUME NEW k \in 1..8 PROVE g[k] \div 256 \in 0..255 /\ g[k] % 256 \in 0..255
  <2>1. g[k] \in Nat /\ g[k] <= 65535
    BY SMT DEF Groups, Words16
  <2>2. QED
    BY <2>1, SMT
<1>2. ASSUME NEW i \in 1..16
      PROVE  (IF i % 2 = 1 THEN g[(i + 1) \div 2] \div 256 ELSE g[i \div 2] % 256) \in 0..255
  <2>1. CASE i % 2 = 1
    <3>1. (i + 1) \div 2 \in 1..8
      OBVIOUS
    <3>2. QED
      BY <1>1, <2>1, <3>1
  <2>2. CASE i % 2 # 1
    <3>1. i \div 2 \in 1..8
      BY <2>2
    <3>2. QED
      BY <1>1, <2>2, <3>1
  <2>3. QED
    BY <2>1, <2>2
<1>3. QED
  BY <1>2 DEF BytesOf

\* An IPv6 address that is not mapped is looked up as it is.
LEMMA Blocked6 ==
  ASSUME NEW b, IsV6(b), ~IsMapped(b), Caught(b)
  PROVE  IsBlocked(b)
<1>1. b \in Expand(b)
  BY DEF Expand
<1>2. QED
  BY <1>1 DEF IsBlocked, Caught

\* Only the first three bytes decide.
LEMMA ReasonBytes ==
  ASSUME NEW c, NEW w, NEW x, NEW y, NEW z, Ipv4BlockReason(<<w, x, y, z>>),
         c[1] = w, c[2] = x, c[3] = y
  PROVE  Ipv4BlockReason(c)
BY DEF Ipv4BlockReason

\* A list with two more elements, as a function of its positions.
LEMMA TwoMore ==
  ASSUME NEW S, NEW s \in Seq(S), NEW x \in S, NEW y \in S
  PROVE  LET t == s \o <<x, y>> IN t = [i \in 1..Len(s) + 2 |-> t[i]]
<1>1. s \o <<x, y>> \in Seq(S) /\ Len(s \o <<x, y>>) = Len(s) + 2
  OBVIOUS
<1> DEFINE t == s \o <<x, y>>
<1> HIDE DEF t
<1>2. t \in Seq(S) /\ Len(t) = Len(s) + 2
  BY <1>1 DEF t
<1>3. t = [i \in 1..Len(s) + 2 |-> t[i]]
  BY <1>2
<1>4. QED
  BY <1>3 DEF t

\* The page refuses fewer IPv6 addresses than the list does.
LEMMA PageBlocks6 ==
  ASSUME NEW g \in Groups, Ipv6BlockReason(g)
  PROVE  IsBlocked(BytesOf(g))
<1> DEFINE b == BytesOf(g)
<1>1. b \in [1..16 -> 0..255] /\ IsV6(b)
  BY BytesRange, RecordFamilies
<1>2. g[1] \in Nat /\ g[1] <= 65535
  BY SMT DEF Groups, Words16
<1>3. /\ b[1] = g[1] \div 256 /\ b[2] = g[1] % 256 /\ b[3] = g[2] \div 256 /\ b[4] = g[2] % 256
      /\ b[5] = g[3] \div 256 /\ b[6] = g[3] % 256 /\ b[7] = g[4] \div 256 /\ b[8] = g[4] % 256
      /\ b[9] = g[5] \div 256 /\ b[10] = g[5] % 256 /\ b[11] = g[6] \div 256 /\ b[12] = g[6] % 256
      /\ b[13] = g[7] \div 256 /\ b[14] = g[7] % 256 /\ b[15] = g[8] \div 256 /\ b[16] = g[8] % 256
  BY BytesAt
<1> HIDE DEF b
<1>4. CASE Slice(g, 1, 7) = Zeros(7)
  <2>1. \A i \in 1..7 : Slice(g, 1, 7)[i] = g[i] /\ Zeros(7)[i] = 0
    BY DEF Slice, Zeros
  <2>2. \A i \in 1..7 : g[i] = 0
    BY <1>4, <2>1
  <2>3. g[1] = 0 /\ g[2] = 0 /\ g[3] = 0 /\ g[4] = 0 /\ g[5] = 0 /\ g[6] = 0
    BY <2>2
  <2>4. \A i \in 1..12 : b[i] = 0
    BY <1>3, <2>3
  <2>5. ~IsMapped(b)
    BY <2>4, MappedBytes
  <2>6. Caught(b)
    BY <1>1, <2>4, Covered6
  <2>7. QED
    BY <1>1, <2>5, <2>6, Blocked6 DEF b
<1>5. CASE g[1] \div 64 = 65152 \div 64
  <2>1. b[1] = 254 /\ b[2] \in 128..191
    <3> DEFINE x == g[1]
    <3>1. x \in Nat /\ x \div 64 = 65152 \div 64
      BY <1>2, <1>5
    <3> HIDE DEF x
    <3>2. x \div 256 = 254 /\ x % 256 \in 128..191
      BY <3>1, SMT
    <3>3. b[1] = x \div 256 /\ b[2] = x % 256
      BY <1>3 DEF x
    <3>4. QED
      BY <3>2, <3>3
  <2>2. ~IsMapped(b)
    BY <2>1, MappedBytes
  <2>3. Caught(b)
    BY <1>1, <2>1, Covered6
  <2>4. QED
    BY <1>1, <2>2, <2>3, Blocked6 DEF b
<1>6. CASE g[1] \div 512 = 64512 \div 512
  <2>1. b[1] \in 252..253
    <3> DEFINE x == g[1]
    <3>1. x \in Nat /\ x \div 512 = 64512 \div 512
      BY <1>2, <1>6
    <3> HIDE DEF x
    <3>2. x \div 256 \in 252..253
      BY <3>1, SMT
    <3>3. b[1] = x \div 256
      BY <1>3 DEF x
    <3>4. QED
      BY <3>2, <3>3
  <2>2. ~IsMapped(b)
    BY <2>1, MappedBytes
  <2>3. Caught(b)
    BY <1>1, <2>1, Covered6
  <2>4. QED
    BY <1>1, <2>2, <2>3, Blocked6 DEF b
<1>7. CASE g[1] \div 256 = 255
  <2>1. b[1] = 255
    BY <1>3, <1>7
  <2>2. ~IsMapped(b)
    BY <2>1, MappedBytes
  <2>3. Caught(b)
    BY <1>1, <2>1, Covered6
  <2>4. QED
    BY <1>1, <2>2, <2>3, Blocked6 DEF b
<1>8. CASE /\ Slice(g, 1, 6) = Zeros(5) \o <<65535>>
           /\ Ipv4BlockReason(<<g[7] \div 256, g[7] % 256, g[8] \div 256, g[8] % 256>>)
  <2> DEFINE c == Slice(b, 13, 16)
             head == Zeros(5) \o <<65535>>
             mapped == Zeros(10) \o <<255, 255>>
  <2>1. Zeros(5) \in Seq({0}) /\ Len(Zeros(5)) = 5 /\ Zeros(10) \in Seq({0}) /\ Len(Zeros(10)) = 10
    BY DEF Zeros
  <2>2. (\A i \in 1..5 : head[i] = 0) /\ head[6] = 65535
    BY <2>1, SMT DEF Zeros
  <2>3. DOMAIN mapped = 1..12 /\ (\A i \in 1..10 : mapped[i] = 0) /\ mapped[11] = 255 /\ mapped[12] = 255
    BY <2>1 DEF Zeros
  <2>4. mapped = [i \in 1..12 |-> mapped[i]]
    <3> DEFINE z == Zeros(10)
               ones == 255
    <3>1. z \in Seq({0, ones})
      BY <2>1
    <3>2. Len(z) = 10
      BY <2>1
    <3>3. mapped = z \o <<ones, ones>>
      OBVIOUS
    <3> HIDE DEF z, ones, mapped
    <3>4. Len(z) + 2 = 12
      BY <3>2
    <3>5. z \o <<ones, ones>> = [i \in 1..Len(z) + 2 |-> (z \o <<ones, ones>>)[i]]
      BY <3>1, TwoMore
    <3>6. QED
      BY <3>3, <3>4, <3>5
  <2> HIDE DEF head, mapped
  <2>5. \A i \in 1..6 : Slice(g, 1, 6)[i] = g[i]
    BY DEF Slice
  <2>6. g[1] = 0 /\ g[2] = 0 /\ g[3] = 0 /\ g[4] = 0 /\ g[5] = 0 /\ g[6] = 65535
    BY <1>8, <2>2, <2>5, SMT DEF head
  <2>7. \A i \in 1..12 : b[i] = mapped[i]
    BY <1>3, <2>3, <2>6, SMT
  <2>8. Slice(b, 1, 12) = [i \in 1..12 |-> b[i]]
    BY DEF Slice
  <2>9. IsMapped(b)
    BY <1>1, <2>4, <2>7, <2>8 DEF IsMapped, mapped
  <2>10. c \in [1..4 -> 0..255] /\ c[1] = b[13] /\ c[2] = b[14] /\ c[3] = b[15]
    BY <1>1 DEF Slice
  <2>11. Ipv4BlockReason(c)
    BY <1>3, <1>8, <2>10, ReasonBytes
  <2>12. IsBlocked(c) /\ Expand(c) = {c} /\ Expand(b) = {c}
    BY <1>1, <2>9, <2>10, <2>11, PageBlocks4, RecordFamilies DEF Expand
  <2>13. QED
    BY <2>12 DEF IsBlocked, b
<1>9. QED
  BY <1>4, <1>5, <1>6, <1>7, <1>8, SMT DEF Ipv6BlockReason

\* A list whose elements are all in a smaller set, and its parts.
LEMMA PartsIn ==
  ASSUME NEW S, NEW T, NEW f \in Seq(T), NEW s \in Seq(T),
         \A i \in DOMAIN (f \o s) : (f \o s)[i] \in S
  PROVE  f \in Seq(S) /\ s \in Seq(S)
<1>1. \A i \in DOMAIN f : i \in DOMAIN (f \o s) /\ (f \o s)[i] = f[i]
  OBVIOUS
<1>2. \A i \in DOMAIN s : Len(f) + i \in DOMAIN (f \o s) /\ (f \o s)[Len(f) + i] = s[i]
  OBVIOUS
<1> DEFINE whole == f \o s
<1>3. \A i \in DOMAIN whole : whole[i] \in S
  OBVIOUS
<1> HIDE DEF whole
<1>4. \A i \in DOMAIN f : f[i] \in S
  BY <1>1, <1>3 DEF whole
<1>5. \A i \in DOMAIN s : s[i] \in S
  BY <1>2, <1>3 DEF whole
<1>6. QED
  BY <1>4, <1>5

\* A list that is padded to eight.
LEMMA Eight ==
  ASSUME NEW S, NEW l \in Seq(S), NEW z \in Seq(S), NEW r \in Seq(S), Len(l) + Len(z) + Len(r) = 8
  PROVE  /\ l \o z \o r \in [1..8 -> S]
         /\ Len(l \o z \o r) = 8
<1> DEFINE lz == l \o z
<1>1. lz \in Seq(S) /\ Len(lz) = Len(l) + Len(z)
  OBVIOUS
<1> HIDE DEF lz
<1> DEFINE whole == lz \o r
<1>2. whole \in Seq(S) /\ Len(whole) = 8
  BY <1>1
<1> HIDE DEF whole
<1>3. whole \in [1..8 -> S]
  <2>1. whole \in [1..Len(whole) -> S]
    BY <1>2, LenProperties
  <2>2. QED
    BY <1>2, <2>1
<1>4. QED
  BY <1>2, <1>3 DEF lz, whole

LEMMA TailTyped == ASSUME NEW t \in Texts PROVE TailGroups(t) \in Seq(Nat)
<1> DEFINE tail == t.tail
<1>1. tail = <<>> \/ tail \in [1..4 -> 0..255]
  BY DEF Texts
<1> HIDE DEF tail
<1>2. CASE tail = <<>>
  BY <1>2 DEF TailGroups, tail
<1>3. CASE tail # <<>>
  <2>1. tail \in [1..4 -> 0..255]
    BY <1>1, <1>3
  <2>2. tail[1] \in Nat /\ tail[2] \in Nat /\ tail[3] \in Nat /\ tail[4] \in Nat
    BY <2>1
  <2>3. 256 * tail[1] + tail[2] \in Nat /\ 256 * tail[3] + tail[4] \in Nat
    BY <2>2
  <2>4. TailGroups(t) = <<256 * tail[1] + tail[2], 256 * tail[3] + tail[4]>>
    BY <1>3, SMT DEF TailGroups, tail
  <2>5. QED
    BY <2>3, <2>4
<1>4. QED
  BY <1>2, <1>3

\* What both make of the groups of a text.
LEMMA SameGroups ==
  ASSUME NEW t \in Texts, t.marks = {}, TryParse(t) # <<>>
  PROVE  \E g \in Groups : /\ ParseIPv6(t) = <<g>> /\ TryParse(t) = <<BytesOf(g)>>
                          /\ g = Padded(t, Missing(t))
<1> DEFINE front == t.left
           right == Right(t)
           given == front \o right
           gaps == t.gaps
           missing == Missing(t)
           zeros == Zeros(missing)
           g == Padded(t, missing)
<1>1. front \in Seq(Nat) /\ right \in Seq(Nat) /\ gaps \in Nat
  BY TailTyped DEF Texts, Right
<1>2. /\ TryParse(t) = <<BytesOf(g)>>
      /\ ~Oversized(given)
  BY Zenon DEF TryParse
<1>3. ~(gaps > 1) /\ (gaps = 0 => missing = 0) /\ ~(gaps = 1 /\ missing < 1)
  BY Zenon DEF TryParse
<1>4. missing = 8 - Len(given)
  BY DEF Missing
<1>5. g = front \o zeros \o right
  BY DEF Padded
<1> HIDE DEF front, right, missing, gaps
<1>6. Len(given) = Len(front) + Len(right) /\ given \in Seq(Nat)
  BY <1>1
<1>7. missing \in Nat
  <2> HIDE DEF given
  <2>1. missing \in Int
    BY <1>4, <1>6
  <2>2. gaps = 0 \/ gaps = 1
    BY <1>1, <1>3
  <2>3. QED
    BY <1>3, <2>1, <2>2
<1>8. zeros \in Seq({0}) /\ Len(zeros) = missing
  BY <1>7 DEF Zeros
<1>9. \A i \in DOMAIN given : given[i] \in Words16
  <2> HIDE DEF given
  <2>1. \A i \in DOMAIN given : given[i] \in Nat
    BY <1>6
  <2>2. QED
    BY <1>2, <2>1, SMT DEF Words16, Oversized
<1>10. front \in Seq(Words16) /\ right \in Seq(Words16)
  BY <1>1, <1>9, PartsIn, Zenon
<1>11. zeros \in Seq(Words16)
  <2>1. 0 \in Words16
    BY SMT DEF Words16
  <2> HIDE DEF zeros
  <2>2. QED
    BY <1>8, <2>1
<1> HIDE DEF given, zeros, g
<1>12. Len(front) + Len(zeros) + Len(right) = 8
  <2> DEFINE n == Len(given)
             l == Len(front)
             r == Len(right)
  <2>1. l \in Nat /\ r \in Nat
    BY <1>1
  <2>2. n = l + r /\ missing = 8 - n
    BY <1>4, <1>6
  <2> HIDE DEF n, l, r
  <2>3. l + missing + r = 8
    BY <2>1, <2>2
  <2>4. QED
    BY <1>8, <2>3, Zenon DEF l, r
<1>13. g \in [1..8 -> Words16] /\ Len(g) = 8
  BY <1>5, <1>10, <1>11, <1>12, Eight
<1>14. ~Oversized(g)
  <2>1. \A i \in DOMAIN g : g[i] \in Words16
    BY <1>13
  <2>2. QED
    BY <2>1, SMT DEF Words16, Oversized
<1>15. (IF gaps = 0 THEN 0 ELSE missing) = missing
  BY <1>3
<1>16. ParseIPv6(t) = <<g>>
  <2> DEFINE groups == Padded(t, IF gaps = 0 THEN 0 ELSE missing)
  <2>1. groups = g
    BY <1>15, Zenon DEF g
  <2>2. ParseIPv6(t) = IF \/ t.marks # {} \/ gaps > 1 \/ (gaps = 1 /\ missing < 1)
                          \/ Len(groups) # 8 \/ Oversized(groups)
                       THEN <<>> ELSE <<groups>>
    BY Zenon DEF ParseIPv6, gaps, missing
  <2> HIDE DEF groups
  <2>3. QED
    BY <1>13, <1>14, <1>3, <2>1, <2>2, Zenon
<1>17. g = Padded(t, Missing(t))
  BY Zenon DEF g, missing
<1>18. QED
  BY <1>2, <1>13, <1>16, <1>17, Zenon DEF Groups

\* What the parts of an IPv4 address are read as.
LEMMA OctetsRead ==
  ASSUME NEW t \in Texts, Len(t.parts) = 4, \A i \in 1..4 : IsOctet(t.parts[i])
  PROVE  [i \in 1..4 |-> Octet(t.parts[i])] \in [1..4 -> 0..255]
<1>1. ASSUME NEW i \in 1..4 PROVE Octet(t.parts[i]) \in 0..255
  <2> DEFINE p == t.parts[i]
  <2>1. t.parts \in Seq(Seq(0..9))
    BY DEF Texts
  <2>2. p \in Seq(0..9)
    BY <2>1
  <2>3. IsOctet(p)
    OBVIOUS
  <2> HIDE DEF p
  <2>4. Len(p) \in 1..3 /\ Octet(p) <= 255
    BY <2>3 DEF IsOctet
  <2>5. \A k \in 1..Len(p) : p[k] \in 0..9
    BY <2>2
  <2>6. Octet(p) \in Nat
    <3>1. CASE Len(p) = 1
      BY <2>5, <3>1 DEF Octet
    <3>2. CASE Len(p) = 2
      <4>1. p[1] \in Nat /\ p[2] \in Nat /\ Octet(p) = 10 * p[1] + p[2]
        BY <2>5, <3>2 DEF Octet
      <4>2. QED
        BY <4>1
    <3>3. CASE Len(p) = 3
      <4>1. p[1] \in Nat /\ p[2] \in Nat /\ p[3] \in Nat
        BY <2>5, <3>3
      <4>2. Octet(p) = 100 * p[1] + 10 * p[2] + p[3]
        BY <3>3 DEF Octet
      <4>3. QED
        BY <4>1, <4>2
    <3>4. QED
      BY <2>4, <3>1, <3>2, <3>3
  <2>7. QED
    BY <2>4, <2>6 DEF p
<1>2. QED
  BY <1>1

\* An address the API takes is taken by the page, as the same address.
LEMMA AddressAgrees ==
  ASSUME NEW t \in Texts, NEW dns, t.shape \in {"v4", "v6"}, Parse(t, dns).is \in {"address", "name"},
         t.len <= 253
  PROVE  ValidateDestination(t, "auto", dns) = Parse(t, dns)
<1>1. t.len \in 1..253 /\ t.marks \cap {"space", "path"} = {}
  <2>1. t.len \in 1..255 /\ t.marks \cap {"space", "path"} = {}
    BY DEF Parse, Invalid
  <2>2. QED
    BY <2>1
<1> DEFINE within == t.len \in 1..253
<1>2. within
  BY <1>1
<1> HIDE DEF within
<1>3. CASE t.shape = "v6"
  <2>1. Parse(t, dns) = ParseIpv6(t)
    BY <1>3 DEF Parse, Invalid
  <2>2. t.marks = {} /\ TryParse(t) # <<>> /\ Parse(t, dns) = CheckAddress(TryParse(t)[1])
    BY <2>1, SMT DEF ParseIpv6, Invalid
  <2>3. PICK g \in Groups : ParseIPv6(t) = <<g>> /\ TryParse(t) = <<BytesOf(g)>>
    BY <2>2, SameGroups, Zenon
  <2> DEFINE b == BytesOf(g)
  <2>4. TryParse(t)[1] = b /\ ParseIPv6(t)[1] = g /\ ParseIPv6(t) # <<>>
    BY <2>3, SMT
  <2> HIDE DEF b
  <2>5. Parse(t, dns) = CheckAddress(b)
    BY <2>2, <2>4, Zenon
  <2>6. ~IsBlocked(b) /\ Parse(t, dns) = [is |-> "address", address |-> b]
    BY <2>5, SMT DEF CheckAddress, Blocked
  <2>7. ~Ipv6BlockReason(g)
    BY <2>6, PageBlocks6, Zenon DEF b
  <2>8. ValidateDestination(t, "auto", dns) = [is |-> "address", address |-> b]
    BY <1>1, <1>3, <2>4, <2>7, SMT DEF ValidateDestination, b
  <2>9. QED
    BY <2>6, <2>8
<1>4. CASE t.shape = "v4"
  <2>1. Parse(t, dns) = ParseIpv4(t)
    BY <1>4 DEF Parse, Invalid
  <2> DEFINE o == [i \in 1..4 |-> Octet(t.parts[i])]
  <2>2. /\ Len(t.parts) = 4 /\ \A i \in 1..4 : IsOctet(t.parts[i])
        /\ Parse(t, dns) = CheckAddress(o)
    BY <2>1, SMT DEF ParseIpv4, Invalid
  <2>3. o \in [1..4 -> 0..255]
    BY <2>2, OctetsRead
  <2>4. ParseIPv4(t.parts) = <<o>>
    BY <2>2, Zenon DEF ParseIPv4
  <2> HIDE DEF o
  <2>5. ~IsBlocked(o) /\ Parse(t, dns) = [is |-> "address", address |-> o]
    BY <2>2, SMT DEF CheckAddress, Blocked
  <2>6. ~Ipv4BlockReason(o)
    BY <2>3, <2>5, PageBlocks4
  <2>7. ParseIPv4(t.parts)[1] = o /\ ParseIPv4(t.parts) # <<>>
    BY <2>4
  <2>8. ValidateDestination(t, "auto", dns) = [is |-> "address", address |-> o]
    BY <1>1, <1>4, <2>6, <2>7, SMT DEF ValidateDestination
  <2>9. QED
    BY <2>5, <2>8
<1>5. QED
  BY <1>3, <1>4

\* A name the API takes is taken by the page too.
LEMMA NameAgrees ==
  ASSUME NEW t \in Texts, NEW dns, t.shape \notin {"v4", "v6"}, Parse(t, dns).is \in {"address", "name"}
  PROVE  /\ t.len \in 1..255 /\ t.marks = {} /\ t.len - t.dots \in 1..253
         /\ Parse(t, dns) = [is |-> "name", name |-> Words(t.labels)]
         /\ t.dots < 2 /\ t.len <= 253 => ValidateDestination(t, "auto", dns) = Parse(t, dns)
<1> DEFINE tld == Last(t.labels)
           words == Words(t.labels)
<1>1. /\ t.len \in 1..255 /\ t.marks \cap {"space", "path"} = {}
      /\ Parse(t, dns) = ParseHostname(t, dns)
  BY DEF Parse, Invalid
<1>2. /\ t.marks = {} /\ t.len - t.dots \in 1..253
      /\ \A i \in DOMAIN t.labels : IsValidLabel(t.labels[i], dns)
      /\ ~(Len(t.labels) < 2)
      /\ tld.kind \notin {"digits", "under"}
      /\ ~IsBlockedName(words) /\ ParseHostname(t, dns) = [is |-> "name", name |-> words]
  BY <1>1 DEF ParseHostname, Invalid, Blocked
<1>3. ASSUME t.dots < 2, t.len <= 253
      PROVE  ValidateDestination(t, "auto", dns) = [is |-> "name", name |-> words]
  <2>1. InternalSuffixes \subseteq DefaultBlockedSuffixes
    BY DEF InternalSuffixes, DefaultBlockedSuffixes
  <2>2. ~\E suffix \in InternalSuffixes : IsSuffix(suffix, words)
    BY <1>2, <2>1, Zenon DEF IsBlockedName
  <2>3. ~(t.dots > 1) /\ t.len \in 1..253
    <3> DEFINE dots == t.dots
               len == t.len
    <3>1. dots \in Nat /\ len \in 1..255 /\ dots < 2 /\ len <= 253
      BY <1>1, <1>3 DEF Texts
    <3> HIDE DEF dots, len
    <3>2. ~(dots > 1) /\ len \in 1..253
      BY <3>1
    <3>3. QED
      BY <3>2 DEF dots, len
  <2>4. t.labels # <<>>
    BY <1>2
  <2>5. ValidateHost(t, dns) = [is |-> "name", name |-> words]
    BY <1>2, <2>2, <2>3, <2>4, Zenon DEF ValidateHost
  <2>6. ValidateDestination(t, "auto", dns) = ValidateHost(t, dns)
    BY <1>1, <2>3 DEF ValidateDestination
  <2>7. QED
    BY <2>5, <2>6
<1>4. QED
  BY <1>1, <1>2, <1>3

\* What the page sends is read as what was entered.
LEMMA SentAgrees ==
  ASSUME NEW t \in Texts, NEW dns, Parse(t, dns).is \in {"address", "name"}
  PROVE  Parse(Sent(t), dns) = Parse(t, dns)
<1>1. CASE t.shape = "name" /\ t.dots = 1
  <2> DEFINE u == [t EXCEPT !.dots = 0, !.len = @ - 1]
  <2>1. t.len \in 1..255 /\ t.marks = {} /\ t.len - 1 \in 1..253
    BY <1>1, NameAgrees
  <2>2. /\ u.shape = "name" /\ u.marks = t.marks /\ u.labels = t.labels
        /\ u.dots = 0 /\ u.len = t.len - 1
    BY <1>1 DEF Texts
  <2>3. Sent(t) = u
    BY <1>1 DEF Sent
  <2> HIDE DEF u
  <2>4. u.len \in 1..255 /\ u.len - u.dots = t.len - t.dots
    BY <1>1, <2>1, <2>2
  <2>5. ParseHostname(u, dns) = ParseHostname(t, dns)
    BY <2>2, <2>4 DEF ParseHostname
  <2>6. Parse(t, dns) = ParseHostname(t, dns)
    BY <1>1, <2>1 DEF Parse
  <2>7. Parse(u, dns) = ParseHostname(u, dns)
    BY <2>1, <2>2, <2>4 DEF Parse
  <2>8. QED
    BY <2>3, <2>5, <2>6, <2>7
<1>2. CASE ~(t.shape = "name" /\ t.dots = 1)
  BY <1>2 DEF Sent
<1>3. QED
  BY <1>1, <1>2

LEMMA TextsAgree == ASSUME NEW t \in Texts, NEW dns PROVE Agrees(t, dns)
<1>1. Parse(t, dns).is \in {"address", "name"} => Parse(Sent(t), dns) = Parse(t, dns)
  BY SentAgrees
<1>2. Parse(t, dns).is \in {"address", "name"} /\ t.dots < 2 /\ t.len <= 253
        => ValidateDestination(t, "auto", dns) = Parse(t, dns)
  BY AddressAgrees, NameAgrees
<1>3. QED
  BY <1>1, <1>2, Zenon DEF Agrees

\* A text that is sent is a text again.
LEMMA SentTyped ==
  ASSUME NEW t \in Texts, NEW family, NEW dns, ValidateDestination(t, family, dns) # Refused
  PROVE  Sent(t) \in Texts
<1>1. t.len \in 1..253
  BY DEF ValidateDestination
<1>2. t.len - 1 \in Nat
  BY <1>1
<1>3. CASE t.shape = "name" /\ t.dots = 1
  BY <1>2, <1>3 DEF Sent, Texts
<1>4. CASE ~(t.shape = "name" /\ t.dots = 1)
  BY <1>4 DEF Sent
<1>5. QED
  BY <1>3, <1>4

\* The text stays one the parsers can look at.
LEMMA TextKept == request.text \in Texts /\ [Next]_vars => request'.text \in Texts
<1> SUFFICES ASSUME request.text \in Texts, [Next]_vars PROVE request'.text \in Texts
  OBVIOUS
<1>1. CASE Submit
  <2>1. PICK family, dns :
          \/ request' = request
          \/ /\ ValidateDestination(request.text, family, dns) # Refused
             /\ request'.text = Sent(request.text)
    <3> DEFINE family == IF request.kind = "dns" THEN "auto" ELSE request.family
               dns == request.kind = "dns"
    <3>1. \/ request' = request
          \/ /\ ValidateDestination(request.text, family, dns) # Refused
             /\ request'.text = Sent(request.text)
      BY <1>1 DEF Submit, BuildRequest
    <3>2. QED
      BY <3>1, Zenon
  <2>2. QED
    BY <2>1, SentTyped
<1>2. CASE UNCHANGED request
  BY <1>2
<1>3. QED
  BY <1>1, <1>2 DEF Next, vars, SubmitDirectly, Validate, Lookup, LookupEnds, Resolve,
     HostResolved, Choose, RunTool, ToolFails, PingEnds, TracerouteEnds, MtrEnds, ReverseLookup,
     ReverseAnswer, LookupGivesUp, BudgetOver, Finish, CancelToken, Stop

\* DiagnosticsPipeline!PageAgrees, for every text the parsers can look at: what the API
\* would take is never refused by the page or read as something else.
THEOREM PageNeverBlocks == Spec => []PageAgrees
<1>1. Init => request.text \in Texts
  BY PipelineAssumption DEF Init
<1>2. request.text \in Texts /\ [Next]_vars => (request.text \in Texts)'
  BY TextKept
<1>3. request.text \in Texts => PageAgrees
  BY TextsAgree, Zenon DEF PageAgrees
<1>4. QED
  BY <1>1, <1>2, <1>3, PTL DEF Spec

\* No probe reaches what is restricted, and no question or answer names it.
THEOREM RestrictedNeverTouched == Spec => []RestrictedUntouched
<1>1. OnlyPublicProbed /\ NothingInternal => RestrictedUntouched
  BY DEF RestrictedUntouched
<1>2. QED
  BY <1>1, ProbesArePublic, InternalStaysInside, PTL

(***************************************************************************)
(* The blocklist refuses nothing else                                      *)
(***************************************************************************)

\* The parts of membership of a network.
LEMMA Within4 ==
  ASSUME NEW head, NEW bits, NEW a, InNetwork(Net4(head, bits), a)
  PROVE  /\ ~IsV6(a) /\ \A i \in 1..bits \div 8 : a[i] = head[i]
         /\ bits % 8 # 0 => SameBits(bits % 8, a[bits \div 8 + 1], head[bits \div 8 + 1])
<1> DEFINE net == Net4(head, bits)
<1>1. net.v6 = FALSE /\ net.head = head /\ net.bits = bits
  BY DEF Net4
<1> HIDE DEF net
<1>2. InNetwork(net, a)
  BY DEF net
<1>3. /\ net.v6 = IsV6(a)
      /\ \A i \in 1..bits \div 8 : a[i] = head[i]
      /\ bits % 8 # 0 => SameBits(bits % 8, a[bits \div 8 + 1], head[bits \div 8 + 1])
  BY <1>1, <1>2, Zenon DEF InNetwork
<1>4. QED
  BY <1>1, <1>3

LEMMA Within6 ==
  ASSUME NEW head, NEW bits, NEW a, InNetwork(Net6(head, bits), a)
  PROVE  /\ IsV6(a) /\ \A i \in 1..bits \div 8 : a[i] = head[i]
         /\ bits % 8 # 0 => SameBits(bits % 8, a[bits \div 8 + 1], head[bits \div 8 + 1])
<1> DEFINE net == Net6(head, bits)
<1>1. net.v6 = TRUE /\ net.head = head /\ net.bits = bits
  BY DEF Net6
<1> HIDE DEF net
<1>2. InNetwork(net, a)
  BY DEF net
<1>3. /\ net.v6 = IsV6(a)
      /\ \A i \in 1..bits \div 8 : a[i] = head[i]
      /\ bits % 8 # 0 => SameBits(bits % 8, a[bits \div 8 + 1], head[bits \div 8 + 1])
  BY <1>1, <1>2, Zenon DEF InNetwork
<1>4. QED
  BY <1>1, <1>3

\* Membership of a documented range, by its parts.
LEMMA RangeParts ==
  ASSUME NEW a, NEW head, NEW from, NEW to, \A i \in 1..Len(head) : a[i] = head[i],
         a[Len(head) + 1] \in from..to
  PROVE  InRange(<<head, from, to>>, a)
BY DEF InRange

LEMMA ListedIn4 == ASSUME NEW a, ~IsV6(a), NEW r \in Documented4, InRange(r, a) PROVE Listed(a)
BY DEF Listed

LEMMA ListedIn6 == ASSUME NEW a, IsV6(a), NEW r \in Documented6, InRange(r, a) PROVE Listed(a)
BY DEF Listed

\* The documented ranges of IPv4 again, range by range.
LEMMA Ranges4 ==
  ASSUME NEW a \in [1..4 -> 0..255]
  PROVE  /\ a[1] = 0 => Listed(a)
         /\ a[1] = 10 => Listed(a)
         /\ a[1] = 100 /\ a[2] \in 64..127 => Listed(a)
         /\ a[1] = 127 => Listed(a)
         /\ a[1] = 169 /\ a[2] = 254 => Listed(a)
         /\ a[1] = 172 /\ a[2] \in 16..31 => Listed(a)
         /\ a[1] = 192 /\ a[2] = 0 /\ a[3] = 0 => Listed(a)
         /\ a[1] = 192 /\ a[2] = 0 /\ a[3] = 2 => Listed(a)
         /\ a[1] = 192 /\ a[2] = 88 /\ a[3] = 99 => Listed(a)
         /\ a[1] = 192 /\ a[2] = 168 => Listed(a)
         /\ a[1] = 198 /\ a[2] \in 18..19 => Listed(a)
         /\ a[1] = 198 /\ a[2] = 51 /\ a[3] = 100 => Listed(a)
         /\ a[1] = 203 /\ a[2] = 0 /\ a[3] = 113 => Listed(a)
         /\ a[1] \in 224..239 => Listed(a)
         /\ a[1] \in 240..255 => Listed(a)
<1>1. ~IsV6(a) /\ a[1] \in 0..255 /\ a[2] \in 0..255 /\ a[3] \in 0..255 /\ a[4] \in 0..255
  BY RecordFamilies
<1>2. a[1] = 0 => Listed(a)
  <2>1. a[1] = 0 => InRange(<<<<0>>, 0, 255>>, a)
    BY <1>1 DEF InRange
  <2>2. <<<<0>>, 0, 255>> \in Documented4
    BY DEF Documented4
  <2>3. QED
    BY <1>1, <2>1, <2>2, ListedIn4
<1>3. a[1] = 10 => Listed(a)
  <2>1. a[1] = 10 => InRange(<<<<10>>, 0, 255>>, a)
    BY <1>1 DEF InRange
  <2>2. <<<<10>>, 0, 255>> \in Documented4
    BY DEF Documented4
  <2>3. QED
    BY <1>1, <2>1, <2>2, ListedIn4
<1>4. a[1] = 100 /\ a[2] \in 64..127 => Listed(a)
  <2>1. a[1] = 100 /\ a[2] \in 64..127 => InRange(<<<<100>>, 64, 127>>, a)
    BY <1>1 DEF InRange
  <2>2. <<<<100>>, 64, 127>> \in Documented4
    BY DEF Documented4
  <2>3. QED
    BY <1>1, <2>1, <2>2, ListedIn4
<1>5. a[1] = 127 => Listed(a)
  <2>1. a[1] = 127 => InRange(<<<<127>>, 0, 255>>, a)
    BY <1>1 DEF InRange
  <2>2. <<<<127>>, 0, 255>> \in Documented4
    BY DEF Documented4
  <2>3. QED
    BY <1>1, <2>1, <2>2, ListedIn4
<1>6. a[1] = 169 /\ a[2] = 254 => Listed(a)
  <2>1. a[1] = 169 /\ a[2] = 254 => InRange(<<<<169, 254>>, 0, 255>>, a)
    BY <1>1 DEF InRange
  <2>2. <<<<169, 254>>, 0, 255>> \in Documented4
    BY DEF Documented4
  <2>3. QED
    BY <1>1, <2>1, <2>2, ListedIn4
<1>7. a[1] = 172 /\ a[2] \in 16..31 => Listed(a)
  <2>1. a[1] = 172 /\ a[2] \in 16..31 => InRange(<<<<172>>, 16, 31>>, a)
    BY <1>1 DEF InRange
  <2>2. <<<<172>>, 16, 31>> \in Documented4
    BY DEF Documented4
  <2>3. QED
    BY <1>1, <2>1, <2>2, ListedIn4
<1>8. a[1] = 192 /\ a[2] = 0 /\ a[3] = 0 => Listed(a)
  <2>1. a[1] = 192 /\ a[2] = 0 /\ a[3] = 0 => InRange(<<<<192, 0, 0>>, 0, 255>>, a)
    BY <1>1 DEF InRange
  <2>2. <<<<192, 0, 0>>, 0, 255>> \in Documented4
    BY DEF Documented4
  <2>3. QED
    BY <1>1, <2>1, <2>2, ListedIn4
<1>9. a[1] = 192 /\ a[2] = 0 /\ a[3] = 2 => Listed(a)
  <2>1. a[1] = 192 /\ a[2] = 0 /\ a[3] = 2 => InRange(<<<<192, 0, 2>>, 0, 255>>, a)
    BY <1>1 DEF InRange
  <2>2. <<<<192, 0, 2>>, 0, 255>> \in Documented4
    BY DEF Documented4
  <2>3. QED
    BY <1>1, <2>1, <2>2, ListedIn4
<1>10. a[1] = 192 /\ a[2] = 88 /\ a[3] = 99 => Listed(a)
  <2>1. a[1] = 192 /\ a[2] = 88 /\ a[3] = 99 => InRange(<<<<192, 88, 99>>, 0, 255>>, a)
    BY <1>1 DEF InRange
  <2>2. <<<<192, 88, 99>>, 0, 255>> \in Documented4
    BY DEF Documented4
  <2>3. QED
    BY <1>1, <2>1, <2>2, ListedIn4
<1>11. a[1] = 192 /\ a[2] = 168 => Listed(a)
  <2>1. a[1] = 192 /\ a[2] = 168 => InRange(<<<<192, 168>>, 0, 255>>, a)
    BY <1>1 DEF InRange
  <2>2. <<<<192, 168>>, 0, 255>> \in Documented4
    BY DEF Documented4
  <2>3. QED
    BY <1>1, <2>1, <2>2, ListedIn4
<1>12. a[1] = 198 /\ a[2] \in 18..19 => Listed(a)
  <2>1. a[1] = 198 /\ a[2] \in 18..19 => InRange(<<<<198>>, 18, 19>>, a)
    BY <1>1 DEF InRange
  <2>2. <<<<198>>, 18, 19>> \in Documented4
    BY DEF Documented4
  <2>3. QED
    BY <1>1, <2>1, <2>2, ListedIn4
<1>13. a[1] = 198 /\ a[2] = 51 /\ a[3] = 100 => Listed(a)
  <2>1. a[1] = 198 /\ a[2] = 51 /\ a[3] = 100 => InRange(<<<<198, 51, 100>>, 0, 255>>, a)
    BY <1>1 DEF InRange
  <2>2. <<<<198, 51, 100>>, 0, 255>> \in Documented4
    BY DEF Documented4
  <2>3. QED
    BY <1>1, <2>1, <2>2, ListedIn4
<1>14. a[1] = 203 /\ a[2] = 0 /\ a[3] = 113 => Listed(a)
  <2>1. a[1] = 203 /\ a[2] = 0 /\ a[3] = 113 => InRange(<<<<203, 0, 113>>, 0, 255>>, a)
    BY <1>1 DEF InRange
  <2>2. <<<<203, 0, 113>>, 0, 255>> \in Documented4
    BY DEF Documented4
  <2>3. QED
    BY <1>1, <2>1, <2>2, ListedIn4
<1>15. a[1] \in 224..239 => Listed(a)
  <2>1. Len(<<>>) = 0
    OBVIOUS
  <2>2. a[1] \in 224..239 => InRange(<<<<>>, 224, 239>>, a)
    BY <2>1, RangeParts
  <2>3. <<<<>>, 224, 239>> \in Documented4
    BY DEF Documented4
  <2>4. QED
    BY <1>1, <2>2, <2>3, ListedIn4
<1>16. a[1] \in 240..255 => Listed(a)
  <2>1. Len(<<>>) = 0
    OBVIOUS
  <2>2. a[1] \in 240..255 => InRange(<<<<>>, 240, 255>>, a)
    BY <2>1, RangeParts
  <2>3. <<<<>>, 240, 255>> \in Documented4
    BY DEF Documented4
  <2>4. QED
    BY <1>1, <2>2, <2>3, ListedIn4
<1>17. QED
  BY <1>2, <1>3, <1>4, <1>5, <1>6, <1>7, <1>8, <1>9, <1>10, <1>11, <1>12, <1>13, <1>14, <1>15, <1>16

\* What is in a network of the list is in a documented range.
LEMMA Uncovered4 ==
  ASSUME NEW a \in [1..4 -> 0..255], NEW net \in DefaultCidrs, InNetwork(net, a)
  PROVE  Listed(a)
<1>1. ~IsV6(a) /\ a[1] \in 0..255 /\ a[2] \in 0..255 /\ a[3] \in 0..255 /\ a[4] \in 0..255
  BY RecordFamilies
<1>2. \A head, bits : net # Net6(head, bits)
  BY <1>1, Within6
<1>3. CASE net = Net4(<<0>>, 8)
  BY <1>3, Within4, Ranges4
<1>4. CASE net = Net4(<<10>>, 8)
  BY <1>4, Within4, Ranges4
<1>5. CASE net = Net4(<<100, 64>>, 10)
  <2>1. a[1] = 100 /\ a[2] \in 64..127
    BY <1>1, <1>5, Within4, Bits
  <2>2. QED
    BY <2>1, Ranges4
<1>6. CASE net = Net4(<<127>>, 8)
  BY <1>6, Within4, Ranges4
<1>7. CASE net = Net4(<<169, 254>>, 16)
  BY <1>7, Within4, Ranges4
<1>8. CASE net = Net4(<<172, 16>>, 12)
  <2>1. a[1] = 172 /\ a[2] \in 16..31
    BY <1>1, <1>8, Within4, Bits
  <2>2. QED
    BY <2>1, Ranges4
<1>9. CASE net = Net4(<<192, 0, 0>>, 24)
  BY <1>9, Within4, Ranges4
<1>10. CASE net = Net4(<<192, 0, 2>>, 24)
  BY <1>10, Within4, Ranges4
<1>11. CASE net = Net4(<<192, 88, 99>>, 24)
  BY <1>11, Within4, Ranges4
<1>12. CASE net = Net4(<<192, 168>>, 16)
  BY <1>12, Within4, Ranges4
<1>13. CASE net = Net4(<<198, 18>>, 15)
  <2>1. a[1] = 198 /\ a[2] \in 18..19
    BY <1>1, <1>13, Within4, Bits
  <2>2. QED
    BY <2>1, Ranges4
<1>14. CASE net = Net4(<<198, 51, 100>>, 24)
  BY <1>14, Within4, Ranges4
<1>15. CASE net = Net4(<<203, 0, 113>>, 24)
  BY <1>15, Within4, Ranges4
<1>16. CASE net = Net4(<<224>>, 4)
  <2>1. a[1] \in 224..239
    BY <1>1, <1>16, Within4, Bits
  <2>2. QED
    BY <2>1, Ranges4
<1>17. CASE net = Net4(<<240>>, 4)
  <2>1. a[1] \in 240..255
    BY <1>1, <1>17, Within4, Bits
  <2>2. QED
    BY <2>1, Ranges4
<1>18. QED
  BY <1>2, <1>3, <1>4, <1>5, <1>6, <1>7, <1>8, <1>9, <1>10, <1>11, <1>12, <1>13, <1>14, <1>15, <1>16, <1>17 DEF DefaultCidrs

\* The documented ranges of IPv6 again, range by range.
LEMMA Ranges6 ==
  ASSUME NEW a \in [1..16 -> 0..255]
  PROVE  /\ (\A i \in 1..12 : a[i] = 0) => Listed(a)
         /\ a[1] = 0 /\ a[2] = 100 /\ a[3] = 255 /\ a[4] = 155 /\ a[5] = 0 /\ a[6] = 1 => Listed(a)
         /\ a[1] = 1 /\ (\A i \in 2..8 : a[i] = 0) => Listed(a)
         /\ a[1] = 32 /\ a[2] = 1 /\ a[3] \in 0..1 => Listed(a)
         /\ a[1] = 32 /\ a[2] = 1 /\ a[3] = 13 /\ a[4] = 184 => Listed(a)
         /\ a[1] = 32 /\ a[2] = 2 => Listed(a)
         /\ a[1] = 63 /\ a[2] = 255 /\ a[3] \in 0..15 => Listed(a)
         /\ a[1] \in 252..253 => Listed(a)
         /\ a[1] = 254 /\ a[2] \in 128..191 => Listed(a)
         /\ a[1] = 254 /\ a[2] \in 192..255 => Listed(a)
         /\ a[1] = 255 => Listed(a)
<1>1. IsV6(a) /\ \A i \in 1..16 : a[i] \in 0..255
  BY RecordFamilies
<1>2. (\A i \in 1..12 : a[i] = 0) => Listed(a)
  <2> DEFINE head == Zeros(12)
  <2>1. Len(head) = 12 /\ \A i \in 1..12 : head[i] = 0
    BY DEF Zeros
  <2>2. <<head, 0, 255>> \in Documented6
    BY DEF Documented6
  <2> HIDE DEF head
  <2>3. (\A i \in 1..12 : a[i] = 0) => InRange(<<head, 0, 255>>, a)
    <3>1. a[Len(head) + 1] \in 0..255
      BY <1>1, <2>1
    <3>2. (\A i \in 1..12 : a[i] = 0) => \A i \in 1..Len(head) : a[i] = head[i]
      BY <2>1
    <3>3. QED
      BY <3>1, <3>2, RangeParts
  <2>4. QED
    BY <1>1, <2>2, <2>3, ListedIn6
<1>3. a[1] = 0 /\ a[2] = 100 /\ a[3] = 255 /\ a[4] = 155 /\ a[5] = 0 /\ a[6] = 1 => Listed(a)
  <2>1. a[1] = 0 /\ a[2] = 100 /\ a[3] = 255 /\ a[4] = 155 /\ a[5] = 0 /\ a[6] = 1 => InRange(<<<<0, 100, 255, 155, 0, 1>>, 0, 255>>, a)
    BY <1>1 DEF InRange
  <2>2. <<<<0, 100, 255, 155, 0, 1>>, 0, 255>> \in Documented6
    BY DEF Documented6
  <2>3. QED
    BY <1>1, <2>1, <2>2, ListedIn6
<1>4. a[1] = 1 /\ (\A i \in 2..8 : a[i] = 0) => Listed(a)
  <2> DEFINE head == <<1>> \o Zeros(7)
  <2>1. Len(head) = 8 /\ head[1] = 1 /\ \A i \in 2..8 : head[i] = 0
    <3>1. Zeros(7) \in Seq({0}) /\ Len(Zeros(7)) = 7
      BY DEF Zeros
    <3>2. QED
      BY <3>1 DEF Zeros
  <2>2. <<head, 0, 255>> \in Documented6
    BY DEF Documented6
  <2> HIDE DEF head
  <2>3. a[1] = 1 /\ (\A i \in 2..8 : a[i] = 0) => InRange(<<head, 0, 255>>, a)
    <3>1. a[Len(head) + 1] \in 0..255
      BY <1>1, <2>1
    <3>2. (\A i \in 2..8 : a[i] = 0) /\ a[1] = 1 => \A i \in 1..Len(head) : a[i] = head[i]
      BY <2>1
    <3>3. QED
      BY <3>1, <3>2, RangeParts
  <2>4. QED
    BY <1>1, <2>2, <2>3, ListedIn6
<1>5. a[1] = 32 /\ a[2] = 1 /\ a[3] \in 0..1 => Listed(a)
  <2>1. a[1] = 32 /\ a[2] = 1 /\ a[3] \in 0..1 => InRange(<<<<32, 1>>, 0, 1>>, a)
    BY <1>1 DEF InRange
  <2>2. <<<<32, 1>>, 0, 1>> \in Documented6
    BY DEF Documented6
  <2>3. QED
    BY <1>1, <2>1, <2>2, ListedIn6
<1>6. a[1] = 32 /\ a[2] = 1 /\ a[3] = 13 /\ a[4] = 184 => Listed(a)
  <2>1. a[1] = 32 /\ a[2] = 1 /\ a[3] = 13 /\ a[4] = 184 => InRange(<<<<32, 1, 13, 184>>, 0, 255>>, a)
    BY <1>1 DEF InRange
  <2>2. <<<<32, 1, 13, 184>>, 0, 255>> \in Documented6
    BY DEF Documented6
  <2>3. QED
    BY <1>1, <2>1, <2>2, ListedIn6
<1>7. a[1] = 32 /\ a[2] = 2 => Listed(a)
  <2>1. a[1] = 32 /\ a[2] = 2 => InRange(<<<<32, 2>>, 0, 255>>, a)
    BY <1>1 DEF InRange
  <2>2. <<<<32, 2>>, 0, 255>> \in Documented6
    BY DEF Documented6
  <2>3. QED
    BY <1>1, <2>1, <2>2, ListedIn6
<1>8. a[1] = 63 /\ a[2] = 255 /\ a[3] \in 0..15 => Listed(a)
  <2>1. a[1] = 63 /\ a[2] = 255 /\ a[3] \in 0..15 => InRange(<<<<63, 255>>, 0, 15>>, a)
    BY <1>1 DEF InRange
  <2>2. <<<<63, 255>>, 0, 15>> \in Documented6
    BY DEF Documented6
  <2>3. QED
    BY <1>1, <2>1, <2>2, ListedIn6
<1>9. a[1] \in 252..253 => Listed(a)
  <2>1. Len(<<>>) = 0
    OBVIOUS
  <2>2. a[1] \in 252..253 => InRange(<<<<>>, 252, 253>>, a)
    BY <2>1, RangeParts
  <2>3. <<<<>>, 252, 253>> \in Documented6
    BY DEF Documented6
  <2>4. QED
    BY <1>1, <2>2, <2>3, ListedIn6
<1>10. a[1] = 254 /\ a[2] \in 128..191 => Listed(a)
  <2>1. a[1] = 254 /\ a[2] \in 128..191 => InRange(<<<<254>>, 128, 191>>, a)
    BY <1>1 DEF InRange
  <2>2. <<<<254>>, 128, 191>> \in Documented6
    BY DEF Documented6
  <2>3. QED
    BY <1>1, <2>1, <2>2, ListedIn6
<1>11. a[1] = 254 /\ a[2] \in 192..255 => Listed(a)
  <2>1. a[1] = 254 /\ a[2] \in 192..255 => InRange(<<<<254>>, 192, 255>>, a)
    BY <1>1 DEF InRange
  <2>2. <<<<254>>, 192, 255>> \in Documented6
    BY DEF Documented6
  <2>3. QED
    BY <1>1, <2>1, <2>2, ListedIn6
<1>12. a[1] = 255 => Listed(a)
  <2>1. a[1] = 255 => InRange(<<<<255>>, 0, 255>>, a)
    BY <1>1 DEF InRange
  <2>2. <<<<255>>, 0, 255>> \in Documented6
    BY DEF Documented6
  <2>3. QED
    BY <1>1, <2>1, <2>2, ListedIn6
<1>13. QED
  BY <1>2, <1>3, <1>4, <1>5, <1>6, <1>7, <1>8, <1>9, <1>10, <1>11, <1>12

LEMMA Uncovered6 ==
  ASSUME NEW a \in [1..16 -> 0..255], NEW net \in DefaultCidrs, InNetwork(net, a)
  PROVE  Listed(a)
<1>1. IsV6(a) /\ \A i \in 1..16 : a[i] \in 0..255
  BY RecordFamilies
<1>2. \A head, bits : net # Net4(head, bits)
  BY <1>1, Within4
<1>3. CASE net = Net6(Zeros(12), 96)
  <2>1. \A i \in 1..12 : Zeros(12)[i] = 0
    BY DEF Zeros
  <2>2. \A i \in 1..12 : a[i] = Zeros(12)[i]
    BY <1>3, Within6
  <2>3. QED
    BY <2>1, <2>2, Ranges6
<1>4. CASE net = Net6(Zeros(15) \o <<1>>, 128)
  <2> DEFINE head == Zeros(15) \o <<1>>
  <2>1. \A i \in 1..12 : head[i] = 0
    <3>1. Zeros(15) \in Seq({0}) /\ Len(Zeros(15)) = 15 /\ \A i \in 1..15 : Zeros(15)[i] = 0
      BY DEF Zeros
    <3>2. QED
      BY <3>1
  <2>2. net = Net6(head, 128)
    BY <1>4
  <2> HIDE DEF head
  <2>3. \A i \in 1..16 : a[i] = head[i]
    BY <2>2, Within6
  <2>4. QED
    BY <2>1, <2>3, Ranges6
<1>5. CASE net = Net6(<<0, 100, 255, 155, 0, 1>>, 48)
  BY <1>5, Within6, Ranges6
<1>6. CASE net = Net6(<<1>> \o Zeros(7), 64)
  <2> DEFINE head == <<1>> \o Zeros(7)
  <2>1. head[1] = 1 /\ \A i \in 2..8 : head[i] = 0
    <3>1. Zeros(7) \in Seq({0}) /\ Len(Zeros(7)) = 7
      BY DEF Zeros
    <3>2. QED
      BY <3>1 DEF Zeros
  <2>2. net = Net6(head, 64)
    BY <1>6
  <2> HIDE DEF head
  <2>3. \A i \in 1..8 : a[i] = head[i]
    BY <2>2, Within6
  <2>4. QED
    BY <2>1, <2>3, Ranges6
<1>7. CASE net = Net6(<<32, 1, 0>>, 23)
  <2>1. a[1] = 32 /\ a[2] = 1 /\ a[3] \in 0..1
    BY <1>1, <1>7, Within6, Bits
  <2>2. QED
    BY <2>1, Ranges6
<1>8. CASE net = Net6(<<32, 1, 13, 184>>, 32)
  BY <1>8, Within6, Ranges6
<1>9. CASE net = Net6(<<32, 2>>, 16)
  BY <1>9, Within6, Ranges6
<1>10. CASE net = Net6(<<63, 255, 0>>, 20)
  <2>1. a[1] = 63 /\ a[2] = 255 /\ a[3] \in 0..15
    BY <1>1, <1>10, Within6, Bits
  <2>2. QED
    BY <2>1, Ranges6
<1>11. CASE net = Net6(<<252>>, 7)
  <2>1. SameBits(7, a[1], 252)
    BY <1>11, Within6
  <2>2. a[1] \in Nat
    BY <1>1
  <2>3. a[1] \div 2 = 252 \div 2
    BY <2>1, <2>2, Bits
  <2>4. a[1] \in 252..253
    BY <2>2, <2>3
  <2>5. QED
    BY <2>4, Ranges6
<1>12. CASE net = Net6(<<254, 128>>, 10)
  <2>1. a[1] = 254 /\ a[2] \in 128..191
    BY <1>1, <1>12, Within6, Bits
  <2>2. QED
    BY <2>1, Ranges6
<1>13. CASE net = Net6(<<254, 192>>, 10)
  <2>1. a[1] = 254 /\ a[2] \in 192..255
    BY <1>1, <1>13, Within6, Bits
  <2>2. QED
    BY <2>1, Ranges6
<1>14. CASE net = Net6(<<255>>, 8)
  BY <1>14, Within6, Ranges6
<1>15. QED
  BY <1>2, <1>3, <1>4, <1>5, <1>6, <1>7, <1>8, <1>9, <1>10, <1>11, <1>12, <1>13, <1>14 DEF DefaultCidrs

\* The addresses of cloud metadata services are in documented ranges.
LEMMA MetadataListed ==
  ASSUME NEW a \in Ips, a \in MetadataAddresses
  PROVE  Listed(a)
<1> DEFINE far == <<253, 0, 14, 194>> \o Zeros(10) \o <<2, 84>>
<1>1. CASE a \in [1..4 -> 0..255]
  <2>1. Len(a) = 4
    BY <1>1
  <2>2. Len(far) = 16
    BY DEF Zeros
  <2> HIDE DEF far
  <2>3. a \in {<<169, 254, 169, 254>>, <<169, 254, 170, 2>>, <<100, 100, 100, 200>>}
    BY <2>1, <2>2 DEF MetadataAddresses, far
  <2>4. (a[1] = 169 /\ a[2] = 254) \/ (a[1] = 100 /\ a[2] \in 64..127)
    BY <2>3
  <2>5. QED
    BY <1>1, <2>4, Ranges4
<1>2. CASE a \in [1..16 -> 0..255]
  <2>1. Len(a) = 16
    BY <1>2
  <2>2. far[1] = 253
    BY DEF Zeros
  <2> HIDE DEF far
  <2>3. a = far
    <3> DEFINE near == {<<169, 254, 169, 254>>, <<169, 254, 170, 2>>, <<100, 100, 100, 200>>}
    <3>1. a \notin near
      BY <2>1
    <3>2. a \in near \cup {far}
      BY Zenon DEF MetadataAddresses, far
    <3>3. QED
      BY <3>1, <3>2
  <2>4. a[1] \in 252..253
    BY <2>2, <2>3
  <2>5. QED
    BY <1>2, <2>4, Ranges6
<1>3. QED
  BY <1>1, <1>2 DEF Ips

\* An address that the list itself catches is in a documented range.
LEMMA DefaultListed ==
  ASSUME NEW a \in Ips, a \in MetadataAddresses \/ \E net \in DefaultCidrs : InNetwork(net, a)
  PROVE  Listed(a)
BY MetadataListed, Uncovered4, Uncovered6 DEF Ips

\* The IPv4 address in the last bytes of an IPv6 one.
LEMMA InnerIp ==
  ASSUME NEW a \in [1..16 -> 0..255]
  PROVE  Slice(a, 13, 16) \in Ips
BY DEF Slice, Ips

\* Destinations!IsBlocked refuses the addresses that the documentation restricts or the
\* operator adds, whatever wraps them, and no other address.
THEOREM BlockedExactly ==
  ASSUME NEW a \in Ips
  PROVE  IsBlocked(a) <=> Restricted(a) \/ Added(a)
<1> DEFINE inner == Slice(a, 13, 16)
           Hit(c) == \/ c \in MetadataAddresses
                     \/ \E net \in DefaultCidrs \cup ExtraCidrs : InNetwork(net, c)
           Wraps == IsV6(a) /\ Slice(a, 1, 12) \in Prefixes4
<1>1. IsBlocked(a) <=> \E c \in Expand(a) : Hit(c)
  BY DEF IsBlocked
<1>2. \/ a \in [1..4 -> 0..255] /\ ~IsV6(a)
      \/ a \in [1..16 -> 0..255] /\ IsV6(a)
  BY RecordFamilies DEF Ips
<1>3. ASSUME NEW c \in Ips, Hit(c) PROVE Listed(c) \/ \E net \in ExtraCidrs : InNetwork(net, c)
  BY <1>3, DefaultListed
<1>4. IsV6(a) => inner \in Ips
  BY <1>2, InnerIp
<1>5. IsV6(a) /\ (IsMapped(a) \/ IsNat64WellKnown(a)) <=> Wraps
  BY DEF Prefixes4, IsMapped, IsNat64WellKnown
<1>6. ASSUME Wraps, Hit(inner) PROVE Restricted(a) \/ Added(a)
  <2>1. Listed(inner) \/ \E net \in ExtraCidrs : InNetwork(net, inner)
    BY <1>3, <1>4, <1>6
  <2>2. QED
    BY <1>6, <2>1 DEF Restricted, Added
<1>7. ASSUME ~IsMapped(a), Hit(a) PROVE Restricted(a) \/ Added(a)
  <2>1. Listed(a) \/ \E net \in ExtraCidrs : InNetwork(net, a)
    BY <1>3, <1>7
  <2>2. QED
    BY <1>7, <2>1 DEF Restricted, Added
<1>8. ASSUME IsV6(a), Slice(a, 1, 2) = <<32, 2>> PROVE Restricted(a)
  <2>1. Slice(a, 1, 2)[1] = a[1] /\ Slice(a, 1, 2)[2] = a[2]
    BY DEF Slice
  <2>2. a[1] = 32 /\ a[2] = 2
    BY <1>8, <2>1
  <2>3. QED
    BY <1>2, <1>8, <2>2, Ranges6 DEF Restricted
<1> HIDE DEF inner, Hit, Wraps
<1>9. ASSUME IsBlocked(a) PROVE Restricted(a) \/ Added(a)
  <2>1. PICK c \in Expand(a) : Hit(c)
    BY <1>1, <1>9
  <2>2. CASE ~IsV6(a)
    <3>1. ~IsMapped(a) /\ c = a
      BY <2>2 DEF IsMapped, Expand
    <3>2. QED
      BY <1>7, <2>1, <3>1
  <2>3. CASE IsV6(a) /\ IsMapped(a)
    <3>1. c = inner
      BY <2>3 DEF Expand, inner
    <3>2. QED
      BY <1>5, <1>6, <2>1, <2>3, <3>1
  <2>4. CASE IsV6(a) /\ ~IsMapped(a)
    <3>1. \/ c = a \/ (IsNat64WellKnown(a) /\ c = inner) \/ Slice(a, 1, 2) = <<32, 2>>
      BY <2>4, Zenon DEF Expand, inner
    <3>2. QED
      BY <1>5, <1>6, <1>7, <1>8, <2>1, <2>4, <3>1
  <2>5. QED
    BY <2>2, <2>3, <2>4
<1>10. ASSUME Added(a) PROVE IsBlocked(a)
  <2>1. PICK net \in ExtraCidrs : \/ InNetwork(net, a) /\ ~IsMapped(a)
                                  \/ Wraps /\ InNetwork(net, inner)
    BY <1>10 DEF Added, Wraps, inner
  <2>2. CASE InNetwork(net, a) /\ ~IsMapped(a)
    <3>1. a \in Expand(a)
      BY <2>2 DEF Expand
    <3>2. QED
      BY <2>2, <3>1 DEF IsBlocked
  <2>3. CASE Wraps /\ InNetwork(net, inner)
    <3>1. inner \in Expand(a)
      BY <1>5, <2>3 DEF Expand, inner
    <3>2. QED
      BY <2>3, <3>1 DEF IsBlocked
  <2>4. QED
    BY <2>1, <2>2, <2>3
<1>11. QED
  BY <1>9, <1>10, RestrictedBlocked

(***************************************************************************)
(* Addresses as they are written                                           *)
(***************************************************************************)

\* The digits of a byte are read as that byte, and no others are.
LEMMA DigitsRead ==
  ASSUME NEW n \in 0..255
  PROVE  /\ Len(Digits(n)) \in 1..3 /\ IsOctet(Digits(n))
         /\ Octet(Digits(n)) = n
<1>1. CASE n < 10
  <2>1. Digits(n) = <<n>>
    BY <1>1 DEF Digits
  <2>2. QED
    BY <2>1 DEF Octet, IsOctet
<1>2. CASE n >= 10 /\ n < 100
  <2>1. Digits(n) = <<n \div 10, n % 10>>
    BY <1>2 DEF Digits
  <2>2. n \div 10 # 0 /\ 10 * (n \div 10) + (n % 10) = n
    BY <1>2
  <2> DEFINE x == n \div 10
             y == n % 10
  <2>3. x # 0 /\ 10 * x + y = n /\ Digits(n) = <<x, y>> /\ x \in Nat /\ y \in Nat
    BY <2>1, <2>2
  <2> HIDE DEF x, y
  <2>4. QED
    BY <2>3 DEF Octet, IsOctet
<1>3. CASE n >= 100
  <2> DEFINE x == n \div 100
             y == (n \div 10) % 10
             z == n % 10
  <2>1. Digits(n) = <<x, y, z>>
    BY <1>3 DEF Digits
  <2>2. x # 0 /\ 100 * x + 10 * y + z = n /\ x \in Nat /\ y \in Nat /\ z \in Nat
    BY <1>3
  <2> HIDE DEF x, y, z
  <2>3. QED
    BY <2>1, <2>2 DEF Octet, IsOctet
<1>4. QED
  BY <1>1, <1>2, <1>3

LEMMA DigitsOnly ==
  ASSUME NEW p \in Seq(0..9), IsOctet(p)
  PROVE  Digits(Octet(p)) = p
<1>1. /\ Len(p) \in 1..3 /\ (Len(p) > 1 => p[1] # 0)
      /\ \A k \in 1..Len(p) : p[k] \in 0..9
  BY DEF IsOctet
<1>2. CASE Len(p) = 1
  <2>1. p[1] \in 0..9
    BY <1>1, <1>2
  <2>2. Octet(p) = p[1]
    BY <1>2, <2>1 DEF Octet
  <2>3. Digits(Octet(p)) = <<p[1]>>
    BY <2>1, <2>2 DEF Digits
  <2>4. QED
    BY <1>2, <2>3
<1>3. CASE Len(p) = 2
  <2> DEFINE x == p[1]
             y == p[2]
             n == Octet(p)
  <2>1. x \in 1..9 /\ y \in 0..9
    <3>1. p[1] \in 0..9 /\ p[2] \in 0..9 /\ p[1] # 0
      BY <1>1, <1>3
    <3>2. QED
      BY <3>1
  <2>2. n = 10 * x + y
    BY <1>3, <2>1 DEF Octet
  <2>3. p = <<x, y>>
    BY <1>3
  <2> HIDE DEF x, y, n
  <2>4. n >= 10 /\ n < 100 /\ n \div 10 = x /\ n % 10 = y
    BY <2>1, <2>2
  <2>5. Digits(n) = <<n \div 10, n % 10>>
    BY <2>1, <2>2, <2>4 DEF Digits
  <2>6. QED
    BY <2>3, <2>4, <2>5 DEF n
<1>4. CASE Len(p) = 3
  <2> DEFINE x == p[1]
             y == p[2]
             z == p[3]
             n == Octet(p)
  <2>1. x \in 1..9 /\ y \in 0..9 /\ z \in 0..9
    <3>1. p[1] \in 0..9 /\ p[2] \in 0..9 /\ p[3] \in 0..9 /\ p[1] # 0
      BY <1>1, <1>4
    <3>2. QED
      BY <3>1
  <2>2. n = 100 * x + 10 * y + z
    BY <1>4, <2>1 DEF Octet
  <2>3. p = <<x, y, z>>
    BY <1>4
  <2> HIDE DEF x, y, z, n
  <2>4. n >= 100 /\ n \div 100 = x /\ n % 10 = z
    BY <2>1, <2>2
  <2>5. n \div 10 = 10 * x + y
    BY <2>1, <2>2
  <2>6. (10 * x + y) % 10 = y
    BY <2>1
  <2>7. Digits(n) = <<n \div 100, (n \div 10) % 10, n % 10>>
    BY <2>1, <2>2, <2>4 DEF Digits
  <2>8. QED
    BY <2>3, <2>4, <2>5, <2>6, <2>7 DEF n
<1>5. QED
  BY <1>1, <1>2, <1>3, <1>4

\* A text of digits and dots that could be an address has its length.
Measured(t) ==
  /\ t.marks = {}
  /\ Len(t.parts) = 4 /\ (\A i \in 1..4 : Len(t.parts[i]) \in 1..3) => t.len \in 7..15

\* An IPv4 address is read if it is written, and nothing else is.
LEMMA Reads4 ==
  ASSUME NEW t \in Texts, t.shape = "v4", Measured(t)
  PROVE  /\ \A a \in Ips : Writes(t, a) => Parse(t, FALSE) = CheckAddress(a)
         /\ (\A a \in Ips : ~Writes(t, a)) => Parse(t, FALSE) = Invalid
<1> DEFINE parts == t.parts
           o == [i \in 1..4 |-> Octet(parts[i])]
<1>1. parts \in Seq(Seq(0..9))
  BY DEF Texts
<1>2. \A a : Writes(t, a) <=> Len(a) = 4 /\ parts = [i \in 1..4 |-> Digits(a[i])]
  BY DEF Writes, Writes4
<1>3. ASSUME NEW a \in Ips, Writes(t, a) PROVE Parse(t, FALSE) = CheckAddress(a)
  <2>1. a \in [1..4 -> 0..255]
    <3>1. Len(a) = 4
      BY <1>2, <1>3
    <3>2. QED
      BY <3>1 DEF Ips
  <2>2. parts = [i \in 1..4 |-> Digits(a[i])]
    BY <1>2, <1>3
  <2>3. Len(parts) = 4 /\ \A i \in 1..4 : parts[i] = Digits(a[i])
    <3> DEFINE D(i) == Digits(a[i])
    <3> HIDE DEF D
    <3>1. parts = [i \in 1..4 |-> D(i)]
      BY <2>2 DEF D
    <3> HIDE DEF parts
    <3>2. Len(parts) = 4 /\ \A i \in 1..4 : parts[i] = D(i)
      BY <3>1
    <3>3. QED
      BY <3>2 DEF D
  <2>4. ASSUME NEW i \in 1..4
        PROVE  Len(parts[i]) \in 1..3 /\ IsOctet(parts[i]) /\ Octet(parts[i]) = a[i]
    <3>1. a[i] \in 0..255 /\ parts[i] = Digits(a[i])
      BY <2>1, <2>3
    <3>2. QED
      BY <3>1, DigitsRead
  <2>5. o = a
    BY <2>1, <2>4
  <2>6. t.len \in 7..15 /\ t.marks = {}
    BY <2>3, <2>4 DEF Measured
  <2>7. t.len \in 1..255
    BY <2>6
  <2>8. Parse(t, FALSE) = ParseIpv4(t)
    BY <2>6, <2>7 DEF Parse
  <2>9. ParseIpv4(t) = CheckAddress(o)
    BY <2>3, <2>4, Zenon DEF ParseIpv4
  <2>10. QED
    BY <2>5, <2>8, <2>9
<1>4. ASSUME Parse(t, FALSE) # Invalid PROVE \E a \in Ips : Writes(t, a)
  <2>1. Parse(t, FALSE) = ParseIpv4(t)
    BY <1>4 DEF Parse
  <2>2. Len(parts) = 4 /\ \A i \in 1..4 : IsOctet(parts[i])
    BY <1>4, <2>1, Zenon DEF ParseIpv4
  <2>3. o \in [1..4 -> 0..255]
    BY <2>2, OctetsRead
  <2>4. \A i \in 1..4 : parts[i] = Digits(o[i])
    <3>1. ASSUME NEW i \in 1..4 PROVE parts[i] = Digits(o[i])
      <4>1. parts[i] \in Seq(0..9) /\ IsOctet(parts[i]) /\ o[i] = Octet(parts[i])
        BY <1>1, <2>2
      <4>2. QED
        BY <4>1, DigitsOnly
    <3>2. QED
      BY <3>1
  <2>5. Len(o) = 4
    BY <2>3
  <2> HIDE DEF o
  <2>6. parts = [i \in 1..4 |-> Digits(o[i])]
    <3> DEFINE V == Seq(0..9)
    <3>1. parts \in Seq(V)
      BY <1>1
    <3> HIDE DEF V, parts
    <3>2. parts = [i \in 1..4 |-> parts[i]]
      BY <2>2, <3>1
    <3>3. QED
      BY <2>4, <3>2, Zenon
  <2>7. o \in Ips
    BY <2>3 DEF Ips
  <2>8. QED
    BY <1>2, <2>5, <2>6, <2>7
<1>5. QED
  BY <1>3, <1>4

\* The groups of an address and its bytes say the same.
LEMMA GroupsOfBytes ==
  ASSUME NEW g \in Groups, NEW i \in 1..8
  PROVE  /\ Group(BytesOf(g), i) = g[i]
         /\ BytesOf(g)[2 * i - 1] = g[i] \div 256 /\ BytesOf(g)[2 * i] = g[i] % 256
<1> DEFINE b == BytesOf(g)
           x == g[i]
<1>1. x \in Nat
  BY SMT DEF Groups, Words16
<1>2. b[2 * i - 1] = x \div 256
  <2>1. 2 * i - 1 \in 1..16 /\ (2 * i - 1) % 2 = 1 /\ (2 * i - 1 + 1) \div 2 = i
    OBVIOUS
  <2>2. QED
    BY <2>1, SMT DEF BytesOf
<1>3. b[2 * i] = x % 256
  <2>1. 2 * i \in 1..16 /\ (2 * i) % 2 # 1 /\ (2 * i) \div 2 = i
    OBVIOUS
  <2>2. QED
    BY <2>1, SMT DEF BytesOf
<1> HIDE DEF b, x
<1>4. 256 * (x \div 256) + (x % 256) = x
  BY <1>1
<1>5. Group(b, i) = x
  BY <1>2, <1>3, <1>4 DEF Group
<1>6. QED
  BY <1>2, <1>3, <1>5 DEF b, x

LEMMA BytesOfGroups ==
  ASSUME NEW a \in [1..16 -> 0..255]
  PROVE  /\ \A i \in 1..8 : Group(a, i) \in Words16
         /\ BytesOf([i \in 1..8 |-> Group(a, i)]) = a
<1>1. ASSUME NEW i \in 1..8
      PROVE  /\ Group(a, i) \in Words16
             /\ Group(a, i) \div 256 = a[2 * i - 1] /\ Group(a, i) % 256 = a[2 * i]
  <2> DEFINE x == a[2 * i - 1]
             y == a[2 * i]
  <2>1. x \in 0..255 /\ y \in 0..255
    OBVIOUS
  <2>2. Group(a, i) = 256 * x + y
    BY DEF Group
  <2> HIDE DEF x, y
  <2>3. 256 * x + y \in Nat /\ 256 * x + y <= 65535
    BY <2>1
  <2>4. (256 * x + y) \div 256 = x /\ (256 * x + y) % 256 = y
    BY <2>1
  <2>5. QED
    BY <2>2, <2>3, <2>4 DEF Words16, x, y
<1> DEFINE g == [i \in 1..8 |-> Group(a, i)]
           b == BytesOf(g)
<1>2. g \in Groups
  BY <1>1 DEF Groups
<1>3. \A i \in 1..8 : g[i] \div 256 = a[2 * i - 1] /\ g[i] % 256 = a[2 * i]
  BY <1>1
<1> HIDE DEF g
<1>4. ASSUME NEW k \in 1..16 PROVE b[k] = a[k]
  <2>1. CASE k % 2 = 1
    <3>1. PICK i \in 1..8 : k = 2 * i - 1
      <4>1. (k + 1) \div 2 \in 1..8 /\ k = 2 * ((k + 1) \div 2) - 1
        BY <2>1
      <4>2. QED
        BY <4>1
    <3>2. QED
      BY <1>2, <1>3, <3>1, GroupsOfBytes
  <2>2. CASE k % 2 # 1
    <3>1. PICK i \in 1..8 : k = 2 * i
      <4>1. k \div 2 \in 1..8 /\ k = 2 * (k \div 2)
        BY <2>2
      <4>2. QED
        BY <4>1
    <3>2. QED
      BY <1>2, <1>3, <3>1, GroupsOfBytes
  <2>3. QED
    BY <2>1, <2>2
<1>5. b \in [1..16 -> 0..255]
  BY <1>2, BytesRange
<1> HIDE DEF b
<1>6. b = a
  BY <1>4, <1>5
<1>7. QED
  BY <1>1, <1>6 DEF b, g

\* The groups that a dotted tail stands for.
LEMMA TailRead ==
  ASSUME NEW t \in Texts, NEW a \in [1..16 -> 0..255], NEW m \in {6, 8},
         t.tail = IF m = 8 THEN <<>> ELSE Slice(a, 13, 16)
  PROVE  /\ m = 8 => TailGroups(t) = <<>>
         /\ m = 6 => TailGroups(t) = <<Group(a, 7), Group(a, 8)>>
<1> DEFINE tail == t.tail
<1>1. CASE m = 8
  BY <1>1 DEF TailGroups
<1>2. CASE m = 6
  <2>1. tail = [i \in 1..4 |-> a[i + 12]]
    BY <1>2 DEF Slice
  <2> HIDE DEF tail
  <2>2. /\ tail[1] = a[13] /\ tail[2] = a[14] /\ tail[3] = a[15] /\ tail[4] = a[16]
        /\ Len(tail) = 4
    BY <2>1
  <2>3. tail # <<>>
    <3>1. Len(<<>>) # 4
      OBVIOUS
    <3>2. QED
      BY <2>2, <3>1, Zenon
  <2>4. TailGroups(t) = <<256 * tail[1] + tail[2], 256 * tail[3] + tail[4]>>
    BY <2>3, Zenon DEF TailGroups, tail
  <2>5. Group(a, 7) = 256 * a[13] + a[14] /\ Group(a, 8) = 256 * a[15] + a[16]
    BY DEF Group
  <2>6. QED
    BY <1>2, <2>2, <2>4, <2>5
<1>3. QED
  BY <1>1, <1>2

\* Four lists are the same joined two by two or one after the other.
JoinedAlike(l, z, r, e) == l \o z \o (r \o e) = (l \o z \o r) \o e

\* Joining does not depend on the order it is done in.
LEMMA FourJoined ==
  ASSUME NEW l \in Seq(Nat), NEW z \in Seq(Nat), NEW r \in Seq(Nat), NEW e \in Seq(Nat)
  PROVE  JoinedAlike(l, z, r, e)
<1> DEFINE lz == l \o z
<1>1. lz \in Seq(Nat)
  OBVIOUS
<1> HIDE DEF lz
<1>2. (lz \o r) \o e = lz \o (r \o e)
  BY <1>1, ConcatAssociative
<1>3. QED
  BY <1>2, Zenon DEF lz, JoinedAlike

\* A list that is cut in two.
LEMMA Halves ==
  ASSUME NEW g \in [1..8 -> Nat], NEW p \in Seq(Nat), p = [i \in 1..6 |-> g[i]]
  PROVE  p \o <<g[7], g[8]>> = g
<1> DEFINE x == g[7]
           y == g[8]
           w == p \o <<x, y>>
<1>1. x \in Nat /\ y \in Nat
  OBVIOUS
<1>2. Len(p) = 6 /\ \A i \in 1..6 : p[i] = g[i]
  OBVIOUS
<1>3. /\ w \in Seq(Nat) /\ Len(w) = 8 /\ w[7] = x /\ w[8] = y
      /\ \A i \in 1..6 : w[i] = p[i]
  <2> HIDE DEF x, y
  <2>1. QED
    BY <1>1, <1>2
<1> HIDE DEF w
<1>4. \A i \in 1..8 : w[i] = g[i]
  BY <1>2, <1>3
<1>5. w = [i \in 1..8 |-> w[i]]
  BY <1>3
<1>6. w = g
  BY <1>4, <1>5
<1>7. QED
  BY <1>6 DEF w

\* An IPv6 address that is written is read.
LEMMA Reads6 ==
  ASSUME NEW t \in Texts, t.shape = "v6", NEW a \in Ips, Writes(t, a)
  PROVE  Parse(t, FALSE) = CheckAddress(a)
<1>1. Writes6(t, a)
  BY DEF Writes
<1>2. Len(a) = 16 /\ t.marks = {} /\ t.len \in 1..45
  BY <1>1 DEF Writes6
<1>3. a \in [1..16 -> 0..255]
  BY <1>2 DEF Ips
<1>4. PICK n \in 0..8, m \in {6, 8} :
        /\ t.gaps = (IF n = 0 THEN 0 ELSE 1)
        /\ t.left \o Zeros(n) \o t.right = [i \in 1..m |-> Group(a, i)]
        /\ t.tail = (IF m = 8 THEN <<>> ELSE Slice(a, 13, 16))
  BY <1>1 DEF Writes6
<1> DEFINE l == t.left
           r == t.right
           z == Zeros(n)
           e == TailGroups(t)
           p == l \o z \o r
           g == [i \in 1..8 |-> Group(a, i)]
           given == l \o (r \o e)
<1>5. l \in Seq(Nat) /\ r \in Seq(Nat) /\ e \in Seq(Nat)
  BY TailTyped DEF Texts
<1>6. z \in Seq(Nat) /\ Len(z) = n
  BY DEF Zeros
<1>7. g \in [1..8 -> Words16] /\ BytesOf(g) = a /\ \A i \in 1..8 : g[i] = Group(a, i)
  BY <1>3, BytesOfGroups
<1>8. p = [i \in 1..m |-> g[i]]
  <2>1. m <= 8
    OBVIOUS
  <2>2. \A i \in 1..m : Group(a, i) = g[i]
    BY <2>1
  <2>3. QED
    BY <1>4, <2>2, Zenon
<1>9. (m = 8 => e = <<>>) /\ (m = 6 => e = <<g[7], g[8]>>)
  <2>1. (m = 8 => TailGroups(t) = <<>>) /\ (m = 6 => TailGroups(t) = <<Group(a, 7), Group(a, 8)>>)
    BY <1>3, <1>4, TailRead, Zenon
  <2>2. g[7] = Group(a, 7) /\ g[8] = Group(a, 8)
    BY <1>7
  <2> HIDE DEF g
  <2>3. QED
    BY <2>1, <2>2
<1> HIDE DEF l, r, z, e, g
<1>10. g \in [1..8 -> Nat]
  <2>1. Words16 \subseteq Nat
    BY DEF Words16
  <2>2. QED
    BY <1>7, <2>1
<1>11. p \in Seq(Nat) /\ Len(p) = Len(l) + n + Len(r)
  BY <1>5, <1>6
<1>12. p \o e = g /\ Len(p) = m /\ Len(e) = 8 - m
  <2> HIDE DEF p, given
  <2>1. Len(p) = m
    BY <1>8
  <2>2. CASE m = 8
    <3>1. p = g /\ e = <<>>
      BY <1>8, <1>9, <1>10, <2>2
    <3>2. p \o e = p
      BY <1>11, <3>1
    <3>3. QED
      BY <2>1, <2>2, <3>1, <3>2
  <2>3. CASE m = 6
    <3>1. e = <<g[7], g[8]>>
      BY <1>9, <2>3, Zenon
    <3>2. p \o e = g
      BY <1>8, <1>10, <1>11, <2>3, <3>1, Halves
    <3>3. Len(e) = 2
      BY <3>1
    <3>4. Len(e) = 8 - m
      BY <2>3, <3>3
    <3>5. QED
      BY <2>1, <3>2, <3>4, Zenon
  <2>4. QED
    BY <2>2, <2>3
<1>13. l \o z \o (r \o e) = g
  <2>1. l \o z \o (r \o e) = (l \o z \o r) \o e
    <3>1. JoinedAlike(l, z, r, e)
      BY <1>5, <1>6, FourJoined, Zenon
    <3>2. QED
      BY <3>1, Zenon DEF JoinedAlike
  <2>2. QED
    BY <1>12, <2>1, Zenon
<1>14. Len(given) = Len(l) + Len(r) + Len(e) /\ given \in Seq(Nat)
  BY <1>5
<1>15. Missing(t) = n
  <2>1. Missing(t) = 8 - Len(given)
    BY DEF Missing, Right, l, r, e
  <2> HIDE DEF given, p
  <2>2. Len(l) \in Nat /\ Len(r) \in Nat
    BY <1>5
  <2>3. QED
    BY <1>11, <1>12, <1>14, <2>1, <2>2
<1>16. Padded(t, n) = g
  BY <1>13 DEF Padded, Right, l, r, e, z
<1>17. ~Oversized(given)
  <2> DEFINE lz == l \o z
             re == r \o e
  <2>1. lz \in Seq(Nat) /\ re \in Seq(Nat)
    BY <1>5, <1>6
  <2>2. lz \o re = g
    BY <1>13
  <2>3. \A i \in DOMAIN (lz \o re) : (lz \o re)[i] \in Words16
    <3> HIDE DEF lz, re
    <3>1. QED
      BY <1>7, <2>2
  <2>4. lz \in Seq(Words16) /\ re \in Seq(Words16)
    <3> HIDE DEF lz, re
    <3>1. QED
      BY <2>1, <2>3, PartsIn, Zenon
  <2>5. l \in Seq(Words16)
    <3>1. \A i \in DOMAIN (l \o z) : (l \o z)[i] \in Words16
      BY <2>4
    <3>2. QED
      BY <1>5, <1>6, <3>1, PartsIn, Zenon
  <2> HIDE DEF lz, re
  <2>6. l \o re \in Seq(Words16)
    BY <2>4, <2>5
  <2>7. \A i \in DOMAIN (l \o re) : (l \o re)[i] \in Words16
    <3> DEFINE w == l \o re
    <3>1. w \in Seq(Words16)
      BY <2>6
    <3> HIDE DEF w
    <3>2. \A i \in DOMAIN w : w[i] \in Words16
      BY <3>1
    <3>3. QED
      BY <3>2 DEF w
  <2>8. \A x \in Words16 : ~(x > 65535)
    BY SMT DEF Words16
  <2>9. \A i \in DOMAIN given : given[i] \in Words16
    BY <2>7 DEF re
  <2> HIDE DEF given
  <2>10. QED
    BY <2>9, SMT DEF Oversized, Words16
<1>18. ~(t.gaps > 1) /\ (t.gaps = 0 => n = 0) /\ (t.gaps = 1 => ~(n < 1))
  BY <1>4
<1>19. TryParse(t) = <<BytesOf(g)>>
  <2> DEFINE q == l \o Right(t)
  <2>1. ~Oversized(t.left \o Right(t))
    BY <1>17 DEF Right, l, r, e
  <2>2. Missing(t) # 0 => ~(t.gaps = 0)
    BY <1>15, <1>18
  <2>3. Missing(t) < 1 => ~(t.gaps = 1)
    BY <1>15, <1>18
  <2>4. TryParse(t) = <<BytesOf(Padded(t, Missing(t)))>>
    BY <1>18, <2>1, <2>2, <2>3, Zenon DEF TryParse
  <2>5. QED
    BY <1>15, <1>16, <2>4, Zenon
<1>20. TryParse(t) # <<>> /\ TryParse(t)[1] = a
  BY <1>7, <1>19
<1>21. ~(t.len > 45) /\ t.len \in 1..255
  BY <1>2
<1>22. ParseIpv6(t) = CheckAddress(TryParse(t)[1])
  BY <1>2, <1>20, <1>21, Zenon DEF ParseIpv6
<1>23. Parse(t, FALSE) = ParseIpv6(t)
  BY <1>2, <1>21 DEF Parse
<1>24. QED
  BY <1>20, <1>22, <1>23

\* A list of eight that is put together, as its first elements and the rest.
LEMMA FrontOf ==
  ASSUME NEW p \in Seq(Nat), NEW e \in Seq(Nat), NEW g \in [1..8 -> Nat], NEW m \in 0..8
  PROVE  Len(e) = 8 - m /\ p \o e = g =>
           /\ p = [i \in 1..m |-> g[i]]
           /\ \A i \in 1..8 - m : g[m + i] = e[i]
<1> DEFINE w == p \o e
<1>1. /\ Len(p) \in Nat /\ Len(w) = Len(p) + Len(e)
      /\ \A i \in 1..Len(p) : w[i] = p[i]
      /\ \A i \in 1..Len(e) : w[Len(p) + i] = e[i]
  <2>1. Len(p) \in Nat /\ Len(p \o e) = Len(p) + Len(e)
    BY ConcatProperties, LenProperties, Zenon
  <2>2. \A i \in 1..Len(p) : (p \o e)[i] = p[i]
    OBVIOUS
  <2>3. \A i \in 1..Len(e) : (p \o e)[Len(p) + i] = e[i]
    OBVIOUS
  <2>4. QED
    BY <2>1, <2>2, <2>3, Zenon
<1> SUFFICES ASSUME Len(e) = 8 - m, w = g
             PROVE  /\ p = [i \in 1..m |-> g[i]]
                    /\ \A i \in 1..8 - m : g[m + i] = e[i]
  OBVIOUS
<1>2. w = g
  OBVIOUS
<1> HIDE DEF w
<1>3. Len(g) = 8
  OBVIOUS
<1>4. Len(p) = m
  <2> DEFINE k == Len(p)
             j == Len(e)
  <2>1. k \in Nat /\ k + j = 8 /\ j = 8 - m
    BY <1>1, <1>2, <1>3
  <2> HIDE DEF k, j
  <2>2. k = m
    BY <2>1
  <2>3. QED
    BY <2>2 DEF k
<1>5. p = [i \in 1..m |-> p[i]]
  BY <1>4
<1>6. \A i \in 1..m : p[i] = g[i]
  BY <1>1, <1>2, <1>4, Zenon
<1>7. p = [i \in 1..m |-> g[i]]
  BY <1>5, <1>6, Zenon
<1>8. \A i \in 1..8 - m : g[m + i] = e[i]
  BY <1>1, <1>2, <1>4, Zenon
<1>9. QED
  BY <1>7, <1>8

\* What is read as an IPv6 address is written as one.
LEMMA Written6 ==
  ASSUME NEW t \in Texts, t.shape = "v6", Parse(t, FALSE) # Invalid
  PROVE  \E a \in Ips : Writes(t, a)
<1>1. Parse(t, FALSE) = ParseIpv6(t) /\ t.len \in 1..255
  BY DEF Parse
<1>2. ~(t.len > 45) /\ t.marks = {} /\ TryParse(t) # <<>>
  BY <1>1, Zenon DEF ParseIpv6
<1>3. PICK g \in Groups : /\ ParseIPv6(t) = <<g>> /\ TryParse(t) = <<BytesOf(g)>>
                          /\ g = Padded(t, Missing(t))
  BY <1>2, SameGroups
<1> DEFINE a == BytesOf(g)
           gaps == t.gaps
           n == Missing(t)
           tail == t.tail
           m == IF tail = <<>> THEN 8 ELSE 6
           l == t.left
           r == t.right
           z == Zeros(n)
           e == TailGroups(t)
           p == l \o z \o r
           given == l \o (r \o e)
<1>4. l \in Seq(Nat) /\ r \in Seq(Nat) /\ e \in Seq(Nat) /\ gaps \in Nat
  BY TailTyped DEF Texts
<1>5. tail = <<>> \/ tail \in [1..4 -> 0..255]
  BY DEF Texts
<1>6. ~(gaps > 1) /\ (gaps = 0 => n = 0) /\ ~(gaps = 1 /\ n < 1)
  BY <1>2, Zenon DEF TryParse
<1>7. n = 8 - Len(given)
  BY DEF Missing, Right
<1>8. a \in [1..16 -> 0..255] /\ Len(a) = 16
  <2>1. a \in [1..16 -> 0..255]
    BY BytesRange
  <2> HIDE DEF a
  <2>2. QED
    BY <2>1
<1>9. g \in [1..8 -> Nat]
  <2>1. Words16 \subseteq Nat
    BY DEF Words16
  <2>2. QED
    BY <2>1 DEF Groups
<1> HIDE DEF gaps, n, l, r, e, a, tail
<1>10. n \in 0..8 /\ gaps = (IF n = 0 THEN 0 ELSE 1)
  <2>1. given \in Seq(Nat)
    BY <1>4
  <2>2. Len(given) \in Nat
    BY <2>1
  <2> HIDE DEF given
  <2>3. gaps = 0 \/ gaps = 1
    BY <1>4, <1>6
  <2>4. n \in Int /\ n <= 8
    BY <1>7, <2>2
  <2>5. CASE gaps = 0
    BY <1>6, <2>5
  <2>6. CASE gaps = 1
    <3>1. ~(n < 1)
      BY <1>6, <2>6
    <3>2. n \in 1..8
      BY <2>4, <3>1
    <3>3. QED
      BY <2>6, <3>2
  <2>7. QED
    BY <2>3, <2>5, <2>6
<1>11. z \in Seq(Nat)
  BY <1>10 DEF Zeros
<1> HIDE DEF z
<1>12. p \in Seq(Nat)
  BY <1>4, <1>11
<1>13. p \o e = g
  <2>1. l \o z \o (r \o e) = (l \o z \o r) \o e
    <3>1. JoinedAlike(l, z, r, e)
      BY <1>4, <1>11, FourJoined, Zenon
    <3>2. QED
      BY <3>1, Zenon DEF JoinedAlike
  <2>2. g = l \o z \o (r \o e)
    BY <1>3, Zenon DEF Padded, Right, l, r, z, e, n
  <2>3. QED
    BY <2>1, <2>2, Zenon
<1>14. m \in {6, 8} /\ Len(e) = 8 - m
  <2>1. CASE tail = <<>>
    <3>1. e = <<>>
      BY <2>1, Zenon DEF e, tail, TailGroups
    <3>2. QED
      BY <2>1, <3>1
  <2>2. CASE tail # <<>>
    <3>1. e = <<256 * tail[1] + tail[2], 256 * tail[3] + tail[4]>>
      BY <2>2, Zenon DEF e, tail, TailGroups
    <3>2. QED
      BY <2>2, <3>1
  <2>3. QED
    BY <2>1, <2>2
<1>15. /\ p = [i \in 1..m |-> g[i]]
       /\ \A i \in 1..8 - m : g[m + i] = e[i]
  <2> HIDE DEF p, m
  <2>1. m \in 0..8
    BY <1>14
  <2>2. e \in Seq(Nat) /\ Len(e) = 8 - m
    BY <1>4, <1>14
  <2>3. p \o e = g
    BY <1>13
  <2>4. QED
    BY <1>9, <1>12, <2>1, <2>2, <2>3, FrontOf
<1>16. \A i \in 1..8 : g[i] = Group(a, i)
  BY GroupsOfBytes DEF a
<1>17. p = [i \in 1..m |-> Group(a, i)]
  <2>1. \A i \in 1..m : g[i] = Group(a, i)
    <3> HIDE DEF m
    <3>1. QED
      BY <1>14, <1>16
  <2>2. QED
    BY <1>15, <2>1, Zenon
<1>18. tail = (IF m = 8 THEN <<>> ELSE Slice(a, 13, 16))
  <2>1. CASE tail = <<>>
    BY <2>1
  <2>2. CASE tail # <<>>
    <3> DEFINE x == tail[1]
               y == tail[2]
               u == tail[3]
               v == tail[4]
    <3>1. x \in 0..255 /\ y \in 0..255 /\ u \in 0..255 /\ v \in 0..255
      BY <1>5, <2>2
    <3>2. m = 6
      BY <2>2
    <3>3. g[7] = e[1] /\ g[8] = e[2]
      BY <1>15, <3>2
    <3>4. e = <<256 * x + y, 256 * u + v>>
      BY <2>2, Zenon DEF e, tail, TailGroups
    <3>5. g[7] = 256 * x + y /\ g[8] = 256 * u + v
      BY <3>3, <3>4
    <3>6. /\ a[13] = g[7] \div 256 /\ a[14] = g[7] % 256
          /\ a[15] = g[8] \div 256 /\ a[16] = g[8] % 256
      BY BytesAt DEF a
    <3> HIDE DEF x, y, u, v, m
    <3>7. /\ (256 * x + y) \div 256 = x /\ (256 * x + y) % 256 = y
          /\ (256 * u + v) \div 256 = u /\ (256 * u + v) % 256 = v
      BY <3>1
    <3>8. a[13] = x /\ a[14] = y /\ a[15] = u /\ a[16] = v
      BY <3>5, <3>6, <3>7
    <3>9. Slice(a, 13, 16) = [i \in 1..4 |-> a[i + 12]]
      BY DEF Slice
    <3>10. tail = Slice(a, 13, 16)
      <4>1. \A i \in 1..4 : tail[i] = a[i + 12]
        BY <3>8 DEF x, y, u, v
      <4>2. tail = [i \in 1..4 |-> tail[i]]
        BY <1>5, <2>2
      <4>3. QED
        BY <3>9, <4>1, <4>2
    <3>11. QED
      BY <3>2, <3>10
  <2>3. QED
    BY <2>1, <2>2
<1>19. Writes6(t, a)
  <2>1. t.len \in 1..45
    <3> DEFINE len == t.len
    <3>1. len \in 1..255 /\ ~(len > 45)
      BY <1>1, <1>2
    <3> HIDE DEF len
    <3>2. len \in 1..45
      BY <3>1
    <3>3. QED
      BY <3>2 DEF len
  <2>2. /\ t.gaps = (IF n = 0 THEN 0 ELSE 1)
        /\ t.left \o Zeros(n) \o t.right = [i \in 1..m |-> Group(a, i)]
        /\ t.tail = (IF m = 8 THEN <<>> ELSE Slice(a, 13, 16))
    BY <1>10, <1>17, <1>18, Zenon DEF gaps, l, r, z, tail
  <2> HIDE DEF m
  <2>3. QED
    BY <1>2, <1>8, <1>10, <1>14, <2>1, <2>2, Zenon DEF Writes6
<1>20. a \in Ips
  BY <1>8 DEF Ips
<1>21. QED
  BY <1>19, <1>20 DEF Writes

\* What a text that could be an address is read as.
LEMMA ReadAsWritten ==
  ASSUME NEW t \in Texts, t.shape # "name", t.shape = "v4" => Measured(t)
  PROVE  /\ \A a \in Ips : Writes(t, a) => Parse(t, FALSE) = CheckAddress(a)
         /\ (\A a \in Ips : ~Writes(t, a)) => Parse(t, FALSE) = Invalid
<1>1. CASE t.shape = "v4"
  BY <1>1, Reads4
<1>2. CASE t.shape = "v6"
  BY <1>2, Reads6, Written6
<1>3. t.shape \in {"v4", "v6", "name"}
  BY DEF Texts
<1>4. QED
  BY <1>1, <1>2, <1>3

\* What could be an address is sent as it was entered.
Entered ==
  /\ request.text \in Texts
  /\ request.text.shape # "name" => \E r \in Requests : request.text = r.text

LEMMA EnteredInit == Init => Entered
BY PipelineAssumption DEF Init, Entered

LEMMA EnteredNext == Entered /\ [Next]_vars => Entered'
<1> SUFFICES ASSUME Entered, [Next]_vars PROVE Entered'
  OBVIOUS
<1>1. request'.text \in Texts
  BY TextKept DEF Entered
<1>2. CASE Submit
  <2>1. request' = request \/ request'.text = Sent(request.text)
    BY <1>2 DEF Submit, BuildRequest
  <2>2. Sent(request.text) = request.text \/ Sent(request.text).shape = "name"
    <3> DEFINE t == request.text
    <3>1. t \in Texts
      BY DEF Entered
    <3> HIDE DEF t
    <3>2. Sent(t) = t \/ Sent(t).shape = "name"
      BY <3>1 DEF Sent, Texts
    <3>3. QED
      BY <3>2 DEF t
  <2>3. request'.text = request.text \/ request'.text.shape = "name"
    BY <2>1, <2>2
  <2>4. QED
    BY <1>1, <2>3 DEF Entered
<1>3. CASE UNCHANGED request
  BY <1>3 DEF Entered
<1>4. QED
  BY <1>2, <1>3 DEF Next, vars, SubmitDirectly, Validate, Lookup, LookupEnds, Resolve,
     HostResolved, Choose, RunTool, ToolFails, PingEnds, TracerouteEnds, MtrEnds, ReverseLookup,
     ReverseAnswer, LookupGivesUp, BudgetOver, Finish, CancelToken, Stop

LEMMA EnteredJudged == ASSUME Meant(Ips), Entered PROVE LiteralJudged
<1> DEFINE t == request.text
           a == t.means
<1> SUFFICES ASSUME t.shape # "name"
             PROVE  Parse(t, FALSE) =
                      CASE a = <<>> -> Invalid
                        [] a # <<>> /\ (Restricted(a) \/ Added(a)) -> Blocked
                        [] OTHER -> [is |-> "address", address |-> a]
  BY Zenon DEF LiteralJudged
<1>1. PICK r \in Requests : t = r.text
  BY DEF Entered
<1>2. /\ a \in Ips \cup {<<>>}
      /\ \A b \in Ips : Writes(t, b) <=> a = b
  BY <1>1 DEF Meant
<1>3. t \in Texts /\ (t.shape = "v4" => Measured(t))
  BY <1>1, PipelineAssumption DEF Measured
<1>4. <<>> \notin Ips
  BY DEF Ips
<1> HIDE DEF a, t
<1>5. CASE a = <<>>
  <2>1. Parse(t, FALSE) = Invalid
    BY <1>2, <1>3, <1>4, <1>5, ReadAsWritten
  <2>2. QED
    BY <1>5, <2>1, Zenon
<1>6. CASE a # <<>>
  <2>1. a \in Ips /\ Writes(t, a)
    BY <1>2, <1>6
  <2>2. Parse(t, FALSE) = CheckAddress(a)
    BY <1>3, <2>1, ReadAsWritten
  <2>3. IsBlocked(a) <=> Restricted(a) \/ Added(a)
    BY <2>1, BlockedExactly
  <2>4. QED
    BY <1>6, <2>2, <2>3, Zenon DEF CheckAddress
<1>7. QED
  BY <1>5, <1>6

\* DiagnosticsPipeline!LiteralJudged: if each text means the address that it writes, the
\* API reads it as that address and refuses it exactly if it is restricted.
THEOREM LiteralsAreJudged == ASSUME Meant(Ips) PROVE Spec => []LiteralJudged
<1>1. Entered => LiteralJudged
  BY EnteredJudged
<1>2. QED
  BY <1>1, EnteredInit, EnteredNext, PTL DEF Spec

(***************************************************************************)
(* What traceroute prints, and what is read of it                          *)
(***************************************************************************)

Tokens ==
  {[is |-> "star"], [is |-> "ms"], [is |-> "flag"]}
    \cup {[is |-> "address", a |-> a] : a \in Seq(0..255)} \cup {[is |-> "time", t |-> n] : n \in Nat}

\* A list that does not end in a number whose "ms" might follow.
Closed(ts) == ts \in Seq(Tokens) /\ (ts # <<>> => ts[Len(ts)].is # "time")

LEMMA JoinOf ==
  ASSUME NEW V, NEW a \in Seq(V), NEW b \in Seq(V), NEW c \in Seq(V), Len(a) = Len(b) + Len(c),
         \A j \in 1..Len(b) : a[j] = b[j], \A j \in 1..Len(c) : a[Len(b) + j] = c[j]
  PROVE  a = b \o c
<1> DEFINE d == b \o c
<1>1. d \in Seq(V) /\ Len(d) = Len(b) + Len(c)
  OBVIOUS
<1>2. ASSUME NEW j \in 1..Len(d) PROVE a[j] = d[j]
  <2>1. CASE j <= Len(b)
    <3>1. j \in 1..Len(b) /\ d[j] = b[j]
      BY <1>1, <2>1
    <3>2. QED
      BY <3>1
  <2>2. CASE ~(j <= Len(b))
    <3>1. j - Len(b) \in 1..Len(c) /\ Len(b) + (j - Len(b)) = j /\ d[j] = c[j - Len(b)]
      BY <1>1, <2>2
    <3>2. a[Len(b) + (j - Len(b))] = c[j - Len(b)]
      BY <3>1
    <3>3. QED
      BY <3>1, <3>2
  <2>3. QED
    BY <2>1, <2>2
<1> HIDE DEF d
<1>3. a = d
  BY <1>1, <1>2
<1>4. QED
  BY <1>3 DEF d

Given(ts) == [j \in DOMAIN ts |-> IF ts[j].is = "star" THEN <<NoTime>>
                                  ELSE IF IsTime(ts, j) THEN <<ts[j].t>> ELSE <<>>]

LEMMA GivenTyped == ASSUME NEW ts \in Seq(Tokens) PROVE Given(ts) \in Seq(Seq(Nat)) /\ Len(Given(ts)) = Len(ts)
<1>1. ASSUME NEW j \in 1..Len(ts)
      PROVE  (IF ts[j].is = "star" THEN <<NoTime>>
              ELSE IF IsTime(ts, j) THEN <<ts[j].t>> ELSE <<>>) \in Seq(Nat)
  <2>1. ts[j] \in Tokens
    OBVIOUS
  <2>2. ts[j].is = "time" => ts[j].t \in Nat
    BY <2>1 DEF Tokens
  <2>3. <<NoTime>> \in Seq(Nat) /\ <<>> \in Seq(Nat)
    BY DEF NoTime
  <2>4. QED
    BY <2>2, <2>3 DEF IsTime
<1>2. DOMAIN ts = 1..Len(ts) /\ Len(ts) \in Nat
  OBVIOUS
<1> DEFINE g == Given(ts)
<1>3. g \in [1..Len(ts) -> Seq(Nat)]
  BY <1>1, <1>2, Zenon DEF Given
<1> HIDE DEF g
<1>4. g \in Seq(Seq(Nat)) /\ Len(g) = Len(ts)
  BY <1>2, <1>3
<1>5. QED
  BY <1>4 DEF g

\* A time is read by itself and the token after it.
LEMMA TimesJoin ==
  ASSUME NEW ts, Closed(ts), NEW us \in Seq(Tokens)
  PROVE  Times(ts \o us) = Times(ts) \o Times(us)
<1> DEFINE all == ts \o us
           n == Len(ts)
<1>1. ts \in Seq(Tokens) /\ all \in Seq(Tokens) /\ n \in Nat /\ Len(all) = n + Len(us)
  BY DEF Closed
<1>2. \A j \in 1..n : all[j] = ts[j]
  BY DEF Closed
<1>3. \A j \in 1..Len(us) : all[n + j] = us[j]
  BY DEF Closed
<1>4. n # 0 => ts[n].is # "time"
  BY DEF Closed
<1> HIDE DEF all, n
<1> DEFINE a == Given(all)
           b == Given(ts)
           c == Given(us)
<1>5. a \in Seq(Seq(Nat)) /\ b \in Seq(Seq(Nat)) /\ c \in Seq(Seq(Nat))
      /\ Len(a) = n + Len(us) /\ Len(b) = n /\ Len(c) = Len(us)
  BY <1>1, GivenTyped DEF n
<1>6. ASSUME NEW j \in 1..n PROVE a[j] = b[j]
  <2>1. j \in DOMAIN all /\ j \in DOMAIN ts /\ all[j] = ts[j]
    BY <1>1, <1>2 DEF n
  <2>2. IsTime(all, j) <=> IsTime(ts, j)
    <3>1. CASE j = n
      <4>1. ts[j].is # "time"
        BY <1>4, <3>1
      <4>2. QED
        BY <2>1, <4>1 DEF IsTime
    <3>2. CASE j # n
      <4>1. j + 1 \in 1..n /\ j < n /\ j < Len(all)
        BY <1>1, <3>2
      <4>2. all[j + 1] = ts[j + 1]
        BY <1>2, <4>1
      <4>3. QED
        BY <2>1, <4>1, <4>2, Zenon DEF IsTime, n
    <3>3. QED
      BY <3>1, <3>2
  <2>3. QED
    BY <2>1, <2>2, Zenon DEF Given
<1>7. ASSUME NEW j \in 1..Len(us) PROVE a[n + j] = c[j]
  <2>1. n + j \in DOMAIN all /\ j \in DOMAIN us /\ all[n + j] = us[j]
    BY <1>1, <1>3
  <2>2. IsTime(all, n + j) <=> IsTime(us, j)
    <3>1. n + j < Len(all) <=> j < Len(us)
      BY <1>1
    <3>2. j < Len(us) => all[n + j + 1] = us[j + 1]
      <4>1. j < Len(us) => j + 1 \in 1..Len(us) /\ n + (j + 1) = n + j + 1
        BY <1>1
      <4>2. QED
        BY <1>3, <4>1
    <3>3. QED
      BY <2>1, <3>1, <3>2, Zenon DEF IsTime
  <2>3. QED
    BY <2>1, <2>2, Zenon DEF Given
<1> HIDE DEF a, b, c
<1>8. a = b \o c
  <2>1. \A j \in 1..Len(b) : a[j] = b[j]
    BY <1>5, <1>6
  <2>2. \A j \in 1..Len(c) : a[Len(b) + j] = c[j]
    BY <1>5, <1>7
  <2>3. Len(a) = Len(b) + Len(c)
    BY <1>5
  <2> DEFINE V == Seq(Nat)
  <2>4. a \in Seq(V) /\ b \in Seq(V) /\ c \in Seq(V)
    BY <1>5
  <2> HIDE DEF V
  <2>5. QED
    BY <2>1, <2>2, <2>3, <2>4, JoinOf, Zenon
<1>9. Times(all) = FlattenSeq(a) /\ Times(ts) = FlattenSeq(b) /\ Times(us) = FlattenSeq(c)
  BY Zenon DEF Times, Given, a, b, c
<1>10. QED
  BY <1>5, <1>8, <1>9, FlatConcat DEF all

\* A token that stands alone.
LEMMA TimesOne ==
  ASSUME NEW x \in Tokens
  PROVE  Times(<<x>>) = IF x.is = "star" THEN <<NoTime>> ELSE <<>>
<1> DEFINE e == IF x.is = "star" THEN <<NoTime>> ELSE <<>>
           one == <<x>>
<1>1. one \in Seq(Tokens) /\ Len(one) = 1 /\ DOMAIN one = 1..1 /\ one[1] = x
  OBVIOUS
<1> HIDE DEF one
<1>2. Given(one) \in Seq(Seq(Nat)) /\ Len(Given(one)) = 1
  BY <1>1, GivenTyped
<1>3. ~IsTime(one, 1)
  BY <1>1 DEF IsTime
<1>4. Given(one)[1] = e
  BY <1>1, <1>3 DEF Given
<1>5. <<>> \in Seq(Seq(Nat)) /\ e \in Seq(Nat)
  BY DEF NoTime
<1> HIDE DEF e
<1>6. Given(one) = Append(<<>>, e)
  BY <1>2, <1>4
<1>7. FlattenSeq(Given(one)) = FlattenSeq(<<>>) \o e
  BY <1>5, <1>6, FlatAppend
<1>8. <<>> \o e = e
  BY <1>5
<1>9. Times(one) = FlattenSeq(Given(one))
  BY Zenon DEF Times, Given
<1>10. QED
  BY <1>7, <1>8, <1>9, FlatEmpty, Zenon DEF one, e

LEMMA TimesNone == Times(<<>>) = <<>>
<1>1. <<>> \in Seq(Tokens) /\ Len(<<>>) = 0
  OBVIOUS
<1> DEFINE g == Given(<<>>)
<1>2. g \in Seq(Seq(Nat)) /\ Len(g) = 0
  BY <1>1, GivenTyped
<1> HIDE DEF g
<1>3. g = <<>>
  BY <1>2
<1>4. Times(<<>>) = FlattenSeq(g)
  BY Zenon DEF Times, Given, g
<1>5. QED
  BY <1>3, <1>4, FlatEmpty, Zenon

\* A number and its "ms".
LEMMA TimesTime ==
  ASSUME NEW n \in Nat
  PROVE  Times(<<[is |-> "time", t |-> n], [is |-> "ms"]>>) = <<n>>
<1> DEFINE two == <<[is |-> "time", t |-> n], [is |-> "ms"]>>
<1>1. two \in Seq(Tokens) /\ Len(two) = 2 /\ DOMAIN two = 1..2
  <2>1. ASSUME NEW x \in Tokens, NEW y \in Tokens
        PROVE  <<x, y>> \in Seq(Tokens) /\ Len(<<x, y>>) = 2 /\ DOMAIN <<x, y>> = 1..2
    OBVIOUS
  <2>2. [is |-> "time", t |-> n] \in Tokens /\ [is |-> "ms"] \in Tokens
    BY Zenon DEF Tokens
  <2>3. QED
    BY <2>1, <2>2
<1>2. two[1].is = "time" /\ two[1].t = n /\ two[2].is = "ms"
  OBVIOUS
<1> HIDE DEF two
<1>3. IsTime(two, 1) /\ ~IsTime(two, 2)
  BY <1>1, <1>2 DEF IsTime
<1>4. Given(two) \in Seq(Seq(Nat)) /\ Len(Given(two)) = 2
  BY <1>1, GivenTyped
<1>5. Given(two)[1] = <<n>> /\ Given(two)[2] = <<>>
  BY <1>1, <1>2, <1>3 DEF Given
<1> DEFINE d == <<n>>
<1>6. d \in Seq(Nat) /\ <<>> \in Seq(Nat) /\ <<>> \o d = d /\ d \o <<>> = d
  OBVIOUS
<1> HIDE DEF d
<1> DEFINE g == Append(<<>>, d)
<1>7. g \in Seq(Seq(Nat)) /\ <<>> \in Seq(Seq(Nat))
  BY <1>6
<1>8. Given(two) = Append(g, <<>>)
  BY <1>4, <1>5 DEF d
<1>9. FlattenSeq(g) = <<>> \o d
  BY <1>6, <1>7, FlatAppend, FlatEmpty
<1> HIDE DEF g
<1>10. FlattenSeq(Given(two)) = FlattenSeq(g) \o <<>>
  BY <1>6, <1>7, <1>8, FlatAppend
<1>11. Times(two) = FlattenSeq(Given(two))
  BY Zenon DEF Times, Given
<1>12. QED
  BY <1>6, <1>9, <1>10, <1>11, Zenon DEF two, d

Addressed(ts) == {j \in DOMAIN ts : ts[j].is = "address"}

\* The first address of two lists is that of the first that has one.
LEMMA FirstJoin ==
  ASSUME NEW ts \in Seq(Tokens), NEW us \in Seq(Tokens)
  PROVE  /\ Addressed(ts) # {} => FirstAddress(ts \o us) = FirstAddress(ts)
         /\ Addressed(ts) = {} => FirstAddress(ts \o us) = FirstAddress(us)
         /\ Addressed(ts \o us) = {} <=> Addressed(ts) = {} /\ Addressed(us) = {}
<1> DEFINE all == ts \o us
           n == Len(ts)
           A == Addressed(all)
           T == Addressed(ts)
           U == Addressed(us)
<1>1. /\ n \in Nat /\ Len(all) = n + Len(us) /\ Len(us) \in Nat
      /\ DOMAIN ts = 1..n /\ DOMAIN us = 1..Len(us) /\ DOMAIN all = 1..n + Len(us)
  OBVIOUS
<1>2. \A j \in 1..n : all[j] = ts[j]
  OBVIOUS
<1>3. \A j \in 1..Len(us) : all[n + j] = us[j]
  OBVIOUS
<1> HIDE DEF all, n
<1>4. T \in SUBSET Nat /\ U \in SUBSET Nat /\ A \in SUBSET Nat /\ T \subseteq 1..n /\ U \subseteq 1..Len(us)
  BY <1>1 DEF Addressed
<1>5. \A j \in 1..n : j \in A <=> j \in T
  BY <1>1, <1>2 DEF Addressed
<1>6. \A j \in 1..Len(us) : n + j \in A <=> j \in U
  BY <1>1, <1>3 DEF Addressed
<1>7. \A j \in A : j \in 1..n \/ (j > n /\ j - n \in U)
  <2> SUFFICES ASSUME NEW j \in A, ~(j \in 1..n) PROVE j > n /\ j - n \in U
    OBVIOUS
  <2>1. j \in 1..n + Len(us)
    BY <1>1 DEF Addressed
  <2>2. j > n /\ j - n \in 1..Len(us) /\ n + (j - n) = j
    BY <1>1, <2>1
  <2>3. QED
    BY <1>6, <2>2
<1> DEFINE Leading(S, s) == IF S = {} THEN <<>> ELSE s[Min(S)].a
<1>8. FirstAddress(all) = Leading(A, all) /\ FirstAddress(ts) = Leading(T, ts) /\ FirstAddress(us) = Leading(U, us)
  BY Zenon DEF FirstAddress, Addressed
<1> HIDE DEF A, T, U
<1>9. ASSUME T # {} PROVE A # {} /\ FirstAddress(all) = FirstAddress(ts)
  <2> DEFINE m == Min(T)
  <2>1. m \in T /\ m \in 1..n /\ \A y \in T : m <= y
    BY <1>4, <1>9, LeastMember
  <2> HIDE DEF m
  <2>2. m \in A
    BY <1>5, <2>1
  <2>3. Min(A) \in A /\ \A y \in A : Min(A) <= y
    BY <1>4, <2>2, LeastMember
  <2>4. Min(A) <= m /\ Min(A) \in Nat /\ m \in Nat
    BY <1>4, <2>1, <2>2, <2>3
  <2>5. Min(A) \in 1..n
    BY <1>1, <1>7, <2>1, <2>3, <2>4
  <2>6. Min(A) = m
    BY <1>5, <2>1, <2>3, <2>4, <2>5
  <2>7. QED
    BY <1>2, <1>8, <1>9, <2>1, <2>2, <2>6, Zenon DEF m
<1>10. ASSUME T = {}, U # {} PROVE A # {} /\ FirstAddress(all) = FirstAddress(us)
  <2> DEFINE m == Min(U)
  <2>1. m \in U /\ m \in 1..Len(us) /\ \A y \in U : m <= y
    BY <1>4, <1>10, LeastMember
  <2> HIDE DEF m
  <2>2. n + m \in A
    BY <1>6, <2>1
  <2>3. Min(A) \in A /\ \A y \in A : Min(A) <= y
    BY <1>4, <2>2, LeastMember
  <2>4. Min(A) <= n + m /\ Min(A) \in Nat /\ m \in Nat
    BY <1>4, <2>1, <2>2, <2>3
  <2>5. Min(A) - n \in U
    BY <1>5, <1>7, <1>10, <2>3
  <2>6. Min(A) = n + m
    BY <1>1, <2>1, <2>4, <2>5
  <2>7. all[Min(A)] = us[m]
    BY <1>3, <2>1, <2>6
  <2>8. QED
    BY <1>8, <1>10, <2>2, <2>7, Zenon DEF m
<1>11. ASSUME T = {}, U = {} PROVE A = {} /\ FirstAddress(all) = FirstAddress(us)
  <2>1. A = {}
    BY <1>5, <1>7, <1>11
  <2>2. QED
    BY <1>8, <1>11, <2>1, Zenon
<1>12. QED
  BY <1>9, <1>10, <1>11, Zenon DEF all, A, T, U

LEMMA ClosedJoin == ASSUME NEW ts, Closed(ts), NEW us, Closed(us) PROVE Closed(ts \o us)
<1>1. ts \in Seq(Tokens) /\ us \in Seq(Tokens)
  BY DEF Closed
<1> DEFINE all == ts \o us
<1>2. all \in Seq(Tokens) /\ Len(all) = Len(ts) + Len(us)
  BY <1>1
<1>3. CASE us = <<>>
  <2>1. all = ts
    BY <1>1, <1>3
  <2>2. QED
    BY <2>1
<1>4. CASE us # <<>>
  <2>1. all[Len(all)] = us[Len(us)]
    BY <1>1, <1>4
  <2>2. QED
    BY <1>2, <1>4, <2>1 DEF Closed
<1>5. QED
  BY <1>3, <1>4

\* A token by itself, and none.
LEMMA OneToken ==
  ASSUME NEW x \in Tokens, x.is # "time"
  PROVE  /\ Closed(<<x>>) /\ Closed(<<>>)
         /\ Addressed(<<x>>) = {} <=> x.is # "address"
         /\ x.is = "address" => FirstAddress(<<x>>) = x.a
         /\ Addressed(<<>>) = {}
<1> DEFINE one == <<x>>
<1>1. one \in Seq(Tokens) /\ Len(one) = 1 /\ DOMAIN one = {1} /\ one[1] = x
  OBVIOUS
<1>2. <<>> \in Seq(Tokens) /\ DOMAIN <<>> = {}
  OBVIOUS
<1> HIDE DEF one
<1>3. Closed(one)
  BY <1>1 DEF Closed
<1>4. Addressed(one) = {} <=> x.is # "address"
  BY <1>1 DEF Addressed
<1>5. ASSUME x.is = "address" PROVE FirstAddress(one) = x.a
  <2>1. Addressed(one) = {1}
    BY <1>1, <1>5 DEF Addressed
  <2>2. Min({1}) = 1
    <3>1. {1} \in SUBSET Nat /\ {1} # {}
      OBVIOUS
    <3>2. Min({1}) \in {1}
      BY <3>1, LeastMember
    <3>3. QED
      BY <3>2
  <2>3. FirstAddress(one) = one[Min({1})].a
    BY <2>1, Zenon DEF FirstAddress, Addressed
  <2>4. QED
    BY <1>1, <2>2, <2>3
<1>6. Closed(<<>>) /\ Addressed(<<>>) = {}
  BY <1>2 DEF Closed, Addressed
<1>7. QED
  BY <1>3, <1>4, <1>5, <1>6 DEF one

TimeOf(probe) == IF probe.from = <<>> THEN NoTime ELSE probe.rtt

\* What is read of the tokens of one probe: its time, and its router if it is the
\* first that answered.
LEMMA ProbeRead ==
  ASSUME NEW hop \in Seq(Probes), NEW k \in 1..Len(hop)
  PROVE  LET g == PrintProbe(hop, k)
         IN /\ Closed(g)
            /\ Times(g) = <<TimeOf(hop[k])>>
            /\ hop[k].from = <<>> => Addressed(g) = {}
            /\ hop[k].from # <<>> /\ (\A j \in 1..k - 1 : hop[j].from = <<>>)
                 => Addressed(g) # {} /\ FirstAddress(g) = hop[k].from
<1> DEFINE p == hop[k]
           answered == {j \in 1..k - 1 : hop[j].from # <<>>}
           again == answered # {} /\ hop[Max(answered)].from = p.from
           from == p.from
           star == [is |-> "star"]
           addr == [is |-> "address", a |-> from]
           flag == [is |-> "flag"]
           A == IF again THEN <<>> ELSE <<addr>>
           B == <<[is |-> "time", t |-> p.rtt], [is |-> "ms"]>>
           C == IF p.flag THEN <<flag>> ELSE <<>>
           g == PrintProbe(hop, k)
<1>1. p \in Probes /\ from \in Seq(0..255) /\ p.rtt \in Nat
  <2>1. ASSUME NEW q \in Probes PROVE q.from \in Seq(0..255) /\ q.rtt \in Nat
    BY DEF Probes
  <2>2. p \in Probes
    OBVIOUS
  <2>3. QED
    BY <2>1, <2>2, Zenon
<1>2. g = IF from = <<>> THEN <<star>> ELSE A \o B \o C
  BY Zenon DEF PrintProbe
<1>3. star \in Tokens /\ addr \in Tokens /\ flag \in Tokens
  BY <1>1, Zenon DEF Tokens
<1>4. star.is = "star" /\ addr.is = "address" /\ addr.a = from /\ flag.is = "flag"
  OBVIOUS
<1>5. B \in Seq(Tokens) /\ Closed(B)
  <2>1. [is |-> "time", t |-> p.rtt] \in Tokens /\ [is |-> "ms"] \in Tokens
    BY <1>1, Zenon DEF Tokens
  <2>2. ASSUME NEW x \in Tokens, NEW y \in Tokens, y.is # "time"
        PROVE  <<x, y>> \in Seq(Tokens) /\ Closed(<<x, y>>)
    <3>1. <<x, y>> \in Seq(Tokens) /\ Len(<<x, y>>) = 2 /\ <<x, y>>[2] = y
      OBVIOUS
    <3>2. QED
      BY <2>2, <3>1 DEF Closed
  <2>3. [is |-> "ms"].is # "time"
    OBVIOUS
  <2>4. QED
    BY <2>1, <2>2, <2>3
<1>6. Times(B) = <<p.rtt>>
  BY <1>1, TimesTime
<1> HIDE DEF answered, from, star, addr, flag, B, g
<1>7. CASE from = <<>>
  <2>1. g = <<star>> /\ TimeOf(p) = NoTime
    BY <1>2, <1>7 DEF TimeOf, from
  <2>2. Closed(<<star>>) /\ Addressed(<<star>>) = {} /\ Times(<<star>>) = <<NoTime>>
    BY <1>3, <1>4, OneToken, TimesOne
  <2>3. QED
    BY <1>7, <2>1, <2>2 DEF g, from
<1>8. CASE from # <<>>
  <2>1. Closed(A) /\ Times(A) = <<>>
    BY <1>3, <1>4, OneToken, TimesOne, TimesNone
  <2>2. Closed(C) /\ Times(C) = <<>>
    BY <1>3, <1>4, OneToken, TimesOne, TimesNone
  <2>3. answered = {} => A = <<addr>>
    OBVIOUS
  <2> HIDE DEF A, C
  <2>4. A \in Seq(Tokens) /\ C \in Seq(Tokens)
    BY <2>1, <2>2 DEF Closed
  <2> DEFINE AB == A \o B
  <2>5. Closed(AB) /\ AB \in Seq(Tokens) /\ Times(AB) = <<p.rtt>>
    <3> DEFINE r == <<p.rtt>>
    <3>1. Closed(AB)
      BY <1>5, <2>1, ClosedJoin
    <3>2. Times(AB) = <<>> \o r
      BY <1>5, <1>6, <2>1, TimesJoin
    <3>3. r \in Seq(Nat) /\ <<>> \o r = r
      BY <1>1
    <3>4. QED
      BY <3>1, <3>2, <3>3 DEF Closed
  <2> HIDE DEF AB
  <2>6. Closed(AB \o C) /\ Times(AB \o C) = <<p.rtt>>
    <3> DEFINE r == <<p.rtt>>
    <3>1. Closed(AB \o C)
      BY <2>2, <2>5, ClosedJoin
    <3>2. Times(AB \o C) = r \o <<>>
      BY <2>2, <2>4, <2>5, TimesJoin
    <3>3. r \o <<>> = r
      BY <1>1
    <3>4. QED
      BY <3>1, <3>2, <3>3
  <2>7. g = AB \o C /\ TimeOf(p) = p.rtt
    BY <1>2, <1>8 DEF TimeOf, from, AB, A, C
  <2>8. ASSUME \A j \in 1..k - 1 : hop[j].from = <<>>
        PROVE  Addressed(AB \o C) # {} /\ FirstAddress(AB \o C) = from
    <3>1. A = <<addr>>
      BY <2>3, <2>8 DEF answered
    <3>2. Addressed(A) # {} /\ FirstAddress(A) = from
      BY <1>3, <1>4, <3>1, OneToken
    <3>3. Addressed(AB) # {} /\ FirstAddress(AB) = from
      BY <1>5, <2>4, <3>2, FirstJoin DEF AB
    <3>4. QED
      BY <2>4, <2>5, <3>3, FirstJoin
  <2>9. QED
    BY <1>8, <2>6, <2>7, <2>8 DEF g, from
<1>9. QED
  BY <1>7, <1>8

\* What is read of the line of a hop: a time or a star for every probe, and the first
\* router that answered.
LEMMA HopRead ==
  ASSUME NEW hop \in Seq(Probes)
  PROVE  /\ Times(PrintHop(hop)) = [k \in DOMAIN hop |-> TimeOf(hop[k])]
         /\ FirstAddress(PrintHop(hop)) =
              IF Answered(hop) = {} THEN <<>> ELSE FirstRouter(hop)
<1> DEFINE n == Len(hop)
           Groups0(k) == [i \in 1..k |-> PrintProbe(hop, i)]
           Line(k) == FlattenSeq(Groups0(k))
           Who(k) == {i \in 1..k : hop[i].from # <<>>}
           Good(k) == /\ Closed(Line(k))
                      /\ Times(Line(k)) = [i \in 1..k |-> TimeOf(hop[i])]
                      /\ Addressed(Line(k)) = {} <=> Who(k) = {}
                      /\ Who(k) # {} => FirstAddress(Line(k)) = hop[Min(Who(k))].from
           S == {k \in Nat : k <= n => Good(k)}
<1>1. n \in Nat /\ DOMAIN hop = 1..n
  OBVIOUS
<1>2. ASSUME NEW k \in 1..n
      PROVE  Closed(PrintProbe(hop, k)) /\ PrintProbe(hop, k) \in Seq(Tokens)
  BY ProbeRead DEF Closed
<1>3. 0 \in S
  <2>1. Groups0(0) = <<>>
    OBVIOUS
  <2>2. Line(0) = <<>>
    BY <2>1, FlatEmpty
  <2>3. Closed(<<>>) /\ Addressed(<<>>) = {}
    <3>1. <<>> \in Seq(Tokens) /\ DOMAIN <<>> = {}
      OBVIOUS
    <3>2. QED
      BY <3>1 DEF Closed, Addressed
  <2>4. [i \in 1..0 |-> TimeOf(hop[i])] = <<>>
    OBVIOUS
  <2>5. Who(0) = {}
    OBVIOUS
  <2> HIDE DEF Line, Who
  <2>6. QED
    BY <2>2, <2>3, <2>4, <2>5, TimesNone
<1>4. ASSUME NEW k \in Nat, k \in S PROVE k + 1 \in S
  <2> SUFFICES ASSUME k + 1 <= n PROVE Good(k + 1)
    OBVIOUS
  <2> DEFINE g == PrintProbe(hop, k + 1)
             gs == Groups0(k)
  <2>1. k + 1 \in 1..n /\ k <= n /\ Good(k)
    BY <1>1, <1>4
  <2>2. gs \in Seq(Seq(Tokens)) /\ g \in Seq(Tokens) /\ Len(gs) = k
    <3>1. \A i \in 1..k : PrintProbe(hop, i) \in Seq(Tokens)
      BY <1>1, <1>2, <2>1
    <3> DEFINE V == Seq(Tokens)
    <3>2. \A i \in 1..k : PrintProbe(hop, i) \in V
      BY <3>1
    <3> HIDE DEF V
    <3>3. gs \in Seq(V) /\ Len(gs) = k
      BY <3>2
    <3>4. QED
      BY <1>2, <2>1, <3>3 DEF V
  <2>3. Groups0(k + 1) = Append(gs, g)
    <3> DEFINE V == Seq(Tokens)
    <3>1. \A i \in 1..k + 1 : PrintProbe(hop, i) \in V
      BY <1>1, <1>2, <2>1
    <3>2. gs \in Seq(V) /\ Len(gs) = k
      BY <2>2
    <3> HIDE DEF V
    <3>3. QED
      BY <3>1, <3>2
  <2>4. Line(k + 1) = Line(k) \o g
    BY <2>2, <2>3, FlatAppend
  <2>5. /\ Closed(g) /\ Times(g) = <<TimeOf(hop[k + 1])>>
        /\ hop[k + 1].from = <<>> => Addressed(g) = {}
        /\ hop[k + 1].from # <<>> /\ (\A j \in 1..k : hop[j].from = <<>>)
             => Addressed(g) # {} /\ FirstAddress(g) = hop[k + 1].from
    <3>1. k + 1 - 1 = k
      OBVIOUS
    <3>2. QED
      BY <2>1, <3>1, ProbeRead
  <2> DEFINE l == Line(k)
             w == Who(k)
             w1 == Who(k + 1)
  <2>6. /\ Closed(l) /\ l \in Seq(Tokens) /\ Times(l) = [i \in 1..k |-> TimeOf(hop[i])]
        /\ Addressed(l) = {} <=> w = {}
        /\ w # {} => FirstAddress(l) = hop[Min(w)].from
    BY <2>1 DEF Closed
  <2> HIDE DEF Line, g, gs, l
  <2>7. Closed(l \o g)
    BY <2>5, <2>6, ClosedJoin
  <2>8. Times(l \o g) = [i \in 1..k + 1 |-> TimeOf(hop[i])]
    <3>1. Times(l \o g) = [i \in 1..k |-> TimeOf(hop[i])] \o <<TimeOf(hop[k + 1])>>
      <4>1. Times(l \o g) = Times(l) \o Times(g)
        BY <2>2, <2>6, TimesJoin
      <4>2. QED
        BY <2>5, <2>6, <4>1, Zenon
    <3>2. ASSUME NEW i \in 1..k + 1 PROVE TimeOf(hop[i]) \in Nat
      <4>1. hop[i] \in Probes
        BY <1>1, <2>1
      <4>2. QED
        BY <4>1 DEF TimeOf, NoTime, Probes
    <3>3. [i \in 1..k |-> TimeOf(hop[i])] \o <<TimeOf(hop[k + 1])>> = [i \in 1..k + 1 |-> TimeOf(hop[i])]
      BY <3>2
    <3>4. QED
      BY <3>1, <3>3
  <2>9. /\ Addressed(l \o g) = {} <=> w1 = {}
        /\ w1 # {} => FirstAddress(l \o g) = hop[Min(w1)].from
    <3>1. /\ Addressed(l) # {} => FirstAddress(l \o g) = FirstAddress(l)
          /\ Addressed(l) = {} => FirstAddress(l \o g) = FirstAddress(g)
          /\ Addressed(l \o g) = {} <=> Addressed(l) = {} /\ Addressed(g) = {}
      BY <2>2, <2>6, FirstJoin
    <3>2. w \in SUBSET Nat /\ w1 \in SUBSET Nat /\ w \subseteq 1..k
      OBVIOUS
    <3>3. w1 = IF hop[k + 1].from # <<>> THEN w \cup {k + 1} ELSE w
      OBVIOUS
    <3>4. w = {} => \A j \in 1..k : hop[j].from = <<>>
      OBVIOUS
    <3> HIDE DEF w, w1
    <3>5. CASE w # {}
      <4>1. w1 # {} /\ Min(w) \in w /\ \A y \in w : Min(w) <= y
        BY <3>2, <3>3, <3>5, LeastMember
      <4>2. Min(w1) \in w1 /\ \A y \in w1 : Min(w1) <= y
        BY <3>2, <4>1, LeastMember
      <4>3. Min(w1) = Min(w)
        <5>1. Min(w) \in 1..k /\ Min(w) \in w1
          BY <3>2, <3>3, <4>1
        <5>2. Min(w1) <= Min(w) /\ Min(w1) \in Nat
          BY <3>2, <4>2, <5>1
        <5>3. Min(w1) # k + 1
          BY <5>1, <5>2
        <5>4. Min(w1) \in w
          BY <3>3, <4>2, <5>3
        <5>5. Min(w) <= Min(w1)
          BY <4>1, <5>4
        <5>6. QED
          BY <5>1, <5>2, <5>5
      <4>4. QED
        BY <2>6, <3>1, <3>5, <4>1, <4>3, Zenon
    <3>6. CASE w = {} /\ hop[k + 1].from # <<>>
      <4>1. w1 = {k + 1}
        BY <3>3, <3>6
      <4>2. Min(w1) = k + 1
        <5>1. Min(w1) \in w1
          BY <3>2, <4>1, LeastMember
        <5>2. QED
          BY <4>1, <5>1
      <4>3. Addressed(g) # {} /\ FirstAddress(g) = hop[k + 1].from
        BY <2>5, <3>4, <3>6
      <4>4. QED
        BY <2>6, <3>1, <3>6, <4>1, <4>2, <4>3
    <3>7. CASE w = {} /\ hop[k + 1].from = <<>>
      BY <2>5, <2>6, <3>1, <3>3, <3>7
    <3>8. QED
      BY <3>5, <3>6, <3>7
  <2>10. QED
    BY <2>4, <2>7, <2>8, <2>9 DEF l
<1>5. Good(n)
  <2>1. Nat \subseteq S
    <3> HIDE DEF S
    <3>1. QED
      BY <1>3, <1>4, SetInduction
  <2>2. n \in S
    <3> HIDE DEF S
    <3>1. QED
      BY <1>1, <2>1
  <2>3. n <= n
    BY <1>1
  <2> HIDE DEF Good
  <2>4. QED
    BY <2>2, <2>3
<1>6. Line(n) = PrintHop(hop) /\ Who(n) = Answered(hop)
  BY <1>1 DEF PrintHop, Answered
<1>7. Addressed(PrintHop(hop)) = {} => FirstAddress(PrintHop(hop)) = <<>>
  BY Zenon DEF FirstAddress, Addressed
<1> HIDE DEF Line, Who
<1>8. QED
  BY <1>1, <1>5, <1>6, <1>7 DEF FirstRouter

\* Lists of one each, end to end.
LEMMA FlatSingles ==
  ASSUME NEW n \in Nat, NEW f
  PROVE  FlattenSeq([i \in 1..n |-> <<f[i]>>]) = [i \in 1..n |-> f[i]]
<1> DEFINE U == {f[i] : i \in 1..n}
           One(m) == [i \in 1..m |-> <<f[i]>>]
           S == {m \in Nat : m <= n => FlattenSeq(One(m)) = [i \in 1..m |-> f[i]]}
<1>1. 0 \in S
  <2>1. One(0) = <<>> /\ [i \in 1..0 |-> f[i]] = <<>>
    OBVIOUS
  <2>2. FlattenSeq(One(0)) = [i \in 1..0 |-> f[i]]
    BY <2>1, FlatEmpty, Zenon
  <2>3. QED
    BY <2>2
<1>2. ASSUME NEW m \in Nat, m \in S PROVE m + 1 \in S
  <2> SUFFICES ASSUME m + 1 <= n PROVE FlattenSeq(One(m + 1)) = [i \in 1..m + 1 |-> f[i]]
    OBVIOUS
  <2>1. \A i \in 1..m + 1 : f[i] \in U
    OBVIOUS
  <2>2. FlattenSeq(One(m)) = [i \in 1..m |-> f[i]]
    BY <1>2
  <2> DEFINE ss == One(m)
             e == <<f[m + 1]>>
             V == Seq(U)
  <2> HIDE DEF U
  <2>3. e \in V /\ \A i \in 1..m : <<f[i]>> \in V
    BY <2>1
  <2>4. ss \in Seq(V) /\ One(m + 1) = Append(ss, e)
    <3>1. \A i \in 1..m + 1 : <<f[i]>> \in V
      BY <2>1
    <3> HIDE DEF V
    <3>2. QED
      BY <3>1
  <2>5. FlattenSeq(Append(ss, e)) = FlattenSeq(ss) \o e
    BY <2>3, <2>4, FlatAppend
  <2>6. [i \in 1..m |-> f[i]] \o e = [i \in 1..m + 1 |-> f[i]]
    BY <2>1
  <2> HIDE DEF ss, e
  <2>7. QED
    BY <2>2, <2>4, <2>5, <2>6, Zenon DEF ss
<1>3. Nat \subseteq S
  <2> HIDE DEF S
  <2>1. QED
    BY <1>1, <1>2, SetInduction
<1>4. n \in S /\ n <= n
  <2> HIDE DEF S
  <2>1. QED
    BY <1>3
<1>5. QED
  BY <1>4

\* What is read of the line of the i-th hop of a path.
HopOf(p, i) ==
  [hop |-> i, address |-> FirstAddress(PrintHop(p[i])), rtts |-> Times(PrintHop(p[i]))]

LEMMA LineRead ==
  ASSUME NEW p \in Seq(Hops), NEW i \in 1..Len(p)
  PROVE  ParseLine([no |-> i, tokens |-> PrintHop(p[i])]) = <<HopOf(p, i)>>
<1>1. p[i] \in Hops
  OBVIOUS
<1>2. p[i] \in Seq(Probes) /\ p[i] # <<>>
  BY <1>1 DEF Hops
<1> DEFINE hop == p[i]
           times == [k \in DOMAIN hop |-> TimeOf(hop[k])]
           line == [no |-> i, tokens |-> PrintHop(p[i])]
<1>3. HopOf(p, i).rtts = times
  BY <1>2, HopRead DEF HopOf
<1>4. times # <<>>
  <2> HIDE DEF hop
  <2>1. hop \in Seq(Probes) /\ hop # <<>>
    BY <1>2 DEF hop
  <2>2. 1 \in DOMAIN hop
    BY <2>1
  <2>3. 1 \in DOMAIN times
    BY <2>2
  <2> HIDE DEF times
  <2>4. QED
    BY <2>3
<1>5. line.no = i /\ line.tokens = PrintHop(p[i])
  OBVIOUS
<1> HIDE DEF times, line
<1>6. [hop |-> line.no, address |-> FirstAddress(line.tokens), rtts |-> Times(line.tokens)] = HopOf(p, i)
  BY <1>5, Zenon DEF HopOf
<1>7. ParseLine(line) = <<HopOf(p, i)>>
  BY <1>3, <1>4, <1>6, Zenon DEF ParseLine
<1>8. QED
  BY <1>7 DEF line

\* What is read of the first lines of a path.
LEMMA LinesRead ==
  ASSUME NEW p \in Seq(Hops), NEW n \in 0..Len(p)
  PROVE  FlattenSeq([i \in 1..n |-> ParseLine(Output(p)[i])]) = [i \in 1..n |-> HopOf(p, i)]
<1> DEFINE f == [i \in 1..n |-> HopOf(p, i)]
<1>1. DOMAIN p = 1..Len(p) /\ n \in Nat
  OBVIOUS
<1>2. ASSUME NEW i \in 1..n PROVE ParseLine(Output(p)[i]) = <<f[i]>>
  <2>1. i \in 1..Len(p)
    OBVIOUS
  <2>2. Output(p)[i] = [no |-> i, tokens |-> PrintHop(p[i])]
    BY <1>1, <2>1, Zenon DEF Output
  <2>3. QED
    BY <2>1, <2>2, LineRead, Zenon
<1>3. [i \in 1..n |-> ParseLine(Output(p)[i])] = [i \in 1..n |-> <<f[i]>>]
  <2> HIDE DEF f
  <2>1. QED
    BY <1>2, Zenon
<1>4. [i \in 1..n |-> f[i]] = f
  OBVIOUS
<1> HIDE DEF f
<1>5. QED
  BY <1>1, <1>3, <1>4, FlatSingles, Zenon DEF f

\* The hops that were read are those of the path, all of them or, if the output was cut,
\* all but the last one that was read.
Shows(hops, p, cropped) ==
  /\ \E U : hops \in Seq(U)
  /\ Len(hops) <= Len(p) /\ (~cropped => Len(hops) = Len(p))
  /\ \A i \in 1..(IF cropped THEN Len(hops) - 1 ELSE Len(hops)) : hops[i] = HopOf(p, i)

LEMMA AllRead ==
  ASSUME NEW p \in Seq(Hops), NEW c
  PROVE  Shows(ParseTraceroute(Output(p)), p, c)
<1> DEFINE n == Len(p)
           hops == [i \in 1..n |-> HopOf(p, i)]
           U == {HopOf(p, i) : i \in 1..n}
<1>1. n \in 0..Len(p) /\ n \in Nat /\ DOMAIN Output(p) = 1..n
  BY DEF Output
<1>2. ParseTraceroute(Output(p)) = hops
  BY <1>1, LinesRead, Zenon DEF ParseTraceroute
<1>3. \A i \in 1..n : HopOf(p, i) \in U
  OBVIOUS
<1> HIDE DEF U
<1>4. hops \in Seq(U) /\ Len(hops) = n /\ \A i \in 1..n : hops[i] = HopOf(p, i)
  BY <1>1, <1>3
<1> HIDE DEF hops
<1>5. Shows(hops, p, c)
  BY <1>1, <1>4 DEF Shows
<1>6. QED
  BY <1>2, <1>5

LEMMA OneMore ==
  ASSUME NEW V, NEW head \in Seq(V), NEW x \in V
  PROVE  /\ head \o <<x>> \in Seq(V) /\ Len(head \o <<x>>) = Len(head) + 1
         /\ \A i \in 1..Len(head) : (head \o <<x>>)[i] = head[i]
OBVIOUS

\* Some whole lines and a part of the next.
LEMMA CutRead ==
  ASSUME NEW p \in Seq(Hops), NEW k \in 1..Len(p), NEW line,
         NEW lines, lines = SubSeq(Output(p), 1, k - 1) \o <<line>>
  PROVE  Shows(ParseTraceroute(lines), p, TRUE)
<1> DEFINE out == Output(p)
           L == {out[i] : i \in 1..Len(p)} \cup {line}
           m == k - 1
           G(i) == ParseLine(lines[i])
           U == {HopOf(p, i) : i \in 1..Len(p)} \cup {G(k)[1]}
           whole == [i \in 1..m |-> HopOf(p, i)]
           groups == [i \in 1..m |-> G(i)]
<1>1. DOMAIN out = 1..Len(p) /\ Len(out) = Len(p) /\ out \in Seq(L)
  <2>1. Len(p) \in Nat /\ out = [i \in 1..Len(p) |-> out[i]]
    BY DEF Output
  <2>2. \A i \in 1..Len(p) : out[i] \in L
    OBVIOUS
  <2> HIDE DEF out, L
  <2>3. QED
    BY <2>1, <2>2
<1>2. m \in 0..Len(p) /\ m \in Nat /\ k = m + 1
  OBVIOUS
<1>3. line \in L
  OBVIOUS
<1>4. /\ lines \in Seq(L) /\ Len(lines) = k
      /\ \A i \in 1..m : lines[i] = out[i]
  <2> HIDE DEF out, L
  <2> DEFINE head == SubSeq(out, 1, m)
  <2>1. head \in Seq(L) /\ Len(head) = m /\ \A i \in 1..m : head[i] = out[i]
    BY <1>1, <1>2
  <2> DEFINE one == <<line>>
  <2>2. lines = head \o one
    BY DEF out
  <2>3. one \in Seq(L) /\ Len(one) = 1
    BY <1>3
  <2> HIDE DEF head
  <2>4. k = Len(head) + 1 /\ Len(head) = m
    BY <1>2, <2>1
  <2>5. lines \in Seq(L) /\ Len(lines) = Len(head) + 1 /\ \A i \in 1..Len(head) : lines[i] = head[i]
    <3>1. head \o <<line>> \in Seq(L) /\ Len(head \o <<line>>) = Len(head) + 1
          /\ \A i \in 1..Len(head) : (head \o <<line>>)[i] = head[i]
      BY <1>3, <2>1, OneMore
    <3>2. lines = head \o <<line>>
      BY <2>2
    <3>3. QED
      BY <3>1, <3>2, Zenon
  <2> HIDE DEF m
  <2>6. QED
    BY <2>1, <2>4, <2>5
<1> HIDE DEF out, L
<1>5. ASSUME NEW i \in 1..m PROVE G(i) = <<HopOf(p, i)>>
  <2>1. i \in 1..Len(p)
    BY <1>2
  <2>2. lines[i] = [no |-> i, tokens |-> PrintHop(p[i])]
    <3>1. i \in DOMAIN p
      BY <2>1
    <3>2. QED
      BY <1>4, <3>1, Zenon DEF out, Output
  <2>3. QED
    BY <2>1, <2>2, LineRead, Zenon
<1>6. G(k) = <<>> \/ G(k) = <<G(k)[1]>>
  <2>1. ASSUME NEW h PROVE <<h>>[1] = h
    OBVIOUS
  <2>2. QED
    BY <2>1, Zenon DEF ParseLine
<1>7. (\A i \in 1..m : HopOf(p, i) \in U) /\ G(k)[1] \in U
  BY <1>2
<1> DEFINE V == Seq(U)
           last == G(k)
<1> HIDE DEF U
<1>8. last \in V /\ \A i \in 1..m : G(i) \in V
  <2>1. ASSUME NEW h \in U PROVE <<h>> \in V
    OBVIOUS
  <2>2. <<>> \in V
    OBVIOUS
  <2> HIDE DEF V
  <2>3. QED
    BY <1>5, <1>6, <1>7, <2>1, <2>2, Zenon
<1>9. groups \in Seq(V) /\ [i \in DOMAIN lines |-> G(i)] = Append(groups, last)
  <2>1. DOMAIN lines = 1..m + 1
    BY <1>2, <1>4
  <2> DEFINE all == [i \in DOMAIN lines |-> G(i)]
  <2>2. all = [i \in 1..m + 1 |-> G(i)] /\ last = G(m + 1)
    BY <1>2, <2>1
  <2>3. \A i \in 1..m + 1 : G(i) \in V
    BY <1>2, <1>8
  <2> HIDE DEF V, G
  <2>4. groups \in Seq(V) /\ Len(groups) = m
    BY <1>2, <2>3
  <2>5. [i \in 1..m + 1 |-> G(i)] = Append(groups, last)
    BY <1>2, <2>2, <2>3, <2>4
  <2>6. QED
    BY <2>2, <2>4, <2>5
<1>10. ParseTraceroute(lines) = FlattenSeq(groups) \o last
  <2>1. FlattenSeq(Append(groups, last)) = FlattenSeq(groups) \o last
    BY <1>8, <1>9, FlatAppend
  <2>2. QED
    BY <1>9, <2>1, Zenon DEF ParseTraceroute
<1>11. FlattenSeq(groups) = whole
  <2>1. groups = [i \in 1..m |-> ParseLine(out[i])]
    BY <1>4
  <2>2. QED
    BY <1>2, <2>1, LinesRead DEF out
<1>12. whole \in Seq(U) /\ Len(whole) = m /\ \A i \in 1..m : whole[i] = HopOf(p, i)
  BY <1>2, <1>7
<1> DEFINE hops == whole \o last
<1> HIDE DEF whole, groups, m, G
<1>13. hops \in Seq(U) /\ Len(hops) \in {m, m + 1} /\ \A i \in 1..m : hops[i] = HopOf(p, i)
  <2>1. last \in Seq(U)
    BY <1>8
  <2>2. last = <<>> \/ last = <<last[1]>>
    BY <1>6
  <2>3. last[1] \in U
    BY <1>7
  <2> HIDE DEF last
  <2>4. CASE last = <<>>
    BY <1>2, <1>12, <2>4
  <2>5. CASE last = <<last[1]>>
    <3>1. hops = whole \o <<last[1]>>
      BY <2>5
    <3> HIDE DEF hops
    <3>2. hops \in Seq(U) /\ Len(hops) = Len(whole) + 1 /\ \A i \in 1..Len(whole) : hops[i] = whole[i]
      BY <1>12, <2>3, <3>1, OneMore
    <3>3. QED
      BY <1>2, <1>12, <3>2
  <2>6. QED
    BY <2>2, <2>4, <2>5
<1> HIDE DEF hops
<1>14. Shows(hops, p, TRUE)
  BY <1>2, <1>13 DEF Shows
<1>15. QED
  BY <1>10, <1>11, <1>14 DEF hops

LEMMA RawWhole ==
  ASSUME NEW p \in Seq(Hops), NEW lines \in CutOutputs(Output(p))
  PROVE  Shows(ParseTraceroute(lines), p, lines # Output(p))
<1>1. CASE lines = Output(p)
  BY <1>1, AllRead
<1>2. CASE lines # Output(p)
  <2>1. PICK k \in DOMAIN Output(p) : \E line : lines = SubSeq(Output(p), 1, k - 1) \o <<line>>
    BY <1>2, Zenon DEF CutOutputs
  <2>2. DOMAIN Output(p) = 1..Len(p)
    BY DEF Output
  <2>3. Shows(ParseTraceroute(lines), p, TRUE)
    BY <2>1, <2>2, CutRead
  <2>4. (lines # Output(p)) = TRUE
    BY <1>2
  <2>5. QED
    BY <2>3, <2>4
<1>3. QED
  BY <1>1, <1>2

\* An address that Parse finds is one.
LEMMA ParsedIp ==
  ASSUME NEW t \in Texts, NEW dns, Parse(t, dns).is = "address"
  PROVE  Parse(t, dns).address \in Ips
<1>1. ASSUME NEW a \in Ips, Parse(t, dns) = CheckAddress(a)
      PROVE  Parse(t, dns).address \in Ips
  BY <1>1 DEF CheckAddress, Blocked
<1>2. CASE Parse(t, dns) = ParseIpv4(t)
  <2> DEFINE o == [i \in 1..4 |-> Octet(t.parts[i])]
  <2>1. /\ Len(t.parts) = 4 /\ \A i \in 1..4 : IsOctet(t.parts[i])
        /\ Parse(t, dns) = CheckAddress(o)
    BY <1>2, SMT DEF ParseIpv4, Invalid
  <2>2. o \in Ips
    BY <2>1, OctetsRead DEF Ips
  <2>3. QED
    BY <1>1, <2>1, <2>2
<1>3. CASE Parse(t, dns) = ParseIpv6(t)
  <2>1. t.marks = {} /\ TryParse(t) # <<>> /\ Parse(t, dns) = CheckAddress(TryParse(t)[1])
    BY <1>3, SMT DEF ParseIpv6, Invalid
  <2>2. PICK g \in Groups : TryParse(t) = <<BytesOf(g)>>
    BY <2>1, SameGroups, Zenon
  <2> DEFINE b == BytesOf(g)
  <2>3. b \in Ips
    BY BytesRange DEF Ips
  <2> HIDE DEF b
  <2>4. TryParse(t)[1] = b
    BY <2>2, SMT DEF b
  <2>5. QED
    BY <1>1, <2>1, <2>3, <2>4, Zenon
<1>4. Parse(t, dns) \in {Invalid, ParseIpv4(t), ParseIpv6(t), ParseHostname(t, dns)}
  BY Zenon DEF Parse
<1>5. ParseHostname(t, dns).is # "address" /\ Invalid.is # "address"
  BY DEF ParseHostname, Invalid, Blocked
<1>6. QED
  BY <1>2, <1>3, <1>4, <1>5

\* What the resolver found are addresses, the tool is given one of them, and the hops
\* that wait for their names are those the tool found.
TraceInv ==
  /\ request.text \in Texts
  /\ \A i \in DOMAIN found : found[i] \in Ips
  /\ stage \in {"resolved", "running", "naming"} => target \in Ips
  /\ stage = "naming" /\ request.kind = "traceroute" =>
       path \in Seq(Hops) /\ raw # <<>> /\ Shows(raw, path, cut)
  /\ PathShown

LEMMA TraceInitInv == Init => TraceInv
<1> SUFFICES ASSUME Init PROVE TraceInv
  OBVIOUS
<1>1. request \in Requests /\ stage = "entered" /\ found = <<>> /\ answer.is = "none"
  BY DEF Init, NoAnswer
<1>2. request.text \in Texts
  BY <1>1, PipelineAssumption
<1>3. QED
  BY <1>1, <1>2 DEF TraceInv, PathShown

\* A step that learns no address and no hop, and tells none.
LEMMA TraceWaits ==
  ASSUME TraceInv, request'.text \in Texts, UNCHANGED <<found, target>>, answer'.is # "hops",
         stage' \in {"resolved", "running"} => stage \in {"resolved", "running"},
         stage' = "naming" => stage = "naming" /\ UNCHANGED <<request, path, raw, cut>>
  PROVE  TraceInv'
<1>1. PathShown'
  BY DEF PathShown
<1>2. (\A i \in DOMAIN found : found[i] \in Ips)'
  BY DEF TraceInv
<1>3. (stage \in {"resolved", "running", "naming"} => target \in Ips)'
  BY DEF TraceInv
<1>4. (stage = "naming" /\ request.kind = "traceroute" =>
         path \in Seq(Hops) /\ raw # <<>> /\ Shows(raw, path, cut))'
  <2> SUFFICES ASSUME stage' = "naming", request'.kind = "traceroute"
               PROVE  path' \in Seq(Hops) /\ raw' # <<>> /\ Shows(raw', path', cut')
    BY DEF Shows, HopOf
  <2>1. path \in Seq(Hops) /\ raw # <<>> /\ Shows(raw, path, cut)
    BY DEF TraceInv
  <2>2. path' = path /\ raw' = raw /\ cut' = cut
    OBVIOUS
  <2>3. QED
    BY <2>1, <2>2
<1>5. QED
  BY <1>1, <1>2, <1>3, <1>4 DEF TraceInv

\* An address that is entered is the target.
LEMMA ResolveTraced == ASSUME TraceInv, PipelineInv, Resolve PROVE TraceInv'
<1>1. stage = "accepted" /\ UNCHANGED <<request, found>> /\ answer.is # "hops" /\ PathShown'
      /\ answer'.is # "hops"
  BY DEF Resolve, PipelineInv, Told, Invalid, PathShown
<1>2. stage' \in {"done", "resolving", "resolved"}
  BY DEF Resolve, Told
<1>3. stage' = "resolved" => target' \in Ips
  <2> SUFFICES ASSUME stage' = "resolved" PROVE target' \in Ips
    OBVIOUS
  <2>1. Parsed.is = "address" /\ target' = Parsed.address
    BY DEF Resolve, Told
  <2>2. QED
    BY <2>1, ParsedIp DEF TraceInv, Parsed
<1>4. QED
  BY <1>1, <1>2, <1>3 DEF TraceInv

\* A name has the addresses of its records.
LEMMA HostTraced == ASSUME TraceInv, PipelineInv, HostResolved PROVE TraceInv'
<1> DEFINE four(r) == IF request.family # "ipv6" THEN r.A ELSE <<>>
           six(r) == IF request.family # "ipv4" THEN r.AAAA ELSE <<>>
<1>1. stage = "resolving" /\ UNCHANGED <<request, target>> /\ answer.is # "hops"
  BY DEF HostResolved, PipelineInv
<1>2. \/ stage' = "done" /\ answer' = Failed /\ UNCHANGED found
      \/ \E r \in Records : \E n \in 0..Len(four(r) \o six(r)) :
           /\ found' \in [1..n -> ToSet(four(r) \o six(r))]
           /\ stage' = "found" /\ answer' = answer
  BY Zenon DEF HostResolved, Told
<1>3. answer'.is # "hops" /\ stage' \in {"done", "found"}
  <2>1. \/ stage' = "done" /\ answer' = Failed
        \/ stage' = "found" /\ answer' = answer
    BY <1>2
  <2>2. QED
    BY <1>1, <2>1 DEF Failed
<1>4. ASSUME NEW r \in Records, NEW i \in DOMAIN (four(r) \o six(r))
      PROVE  (four(r) \o six(r))[i] \in Ips
  <2> DEFINE f == four(r)
             s == six(r)
  <2>1. r.A \in Seq([1..4 -> 0..255]) /\ r.AAAA \in Seq([1..16 -> 0..255])
    BY PipelineAssumption
  <2>2. f \in Seq([1..4 -> 0..255]) /\ s \in Seq([1..16 -> 0..255])
    BY <2>1
  <2> DEFINE S == [1..4 -> 0..255]
             T == [1..16 -> 0..255]
  <2> HIDE DEF f, s, S, T
  <2>3. f \in Seq(S) /\ s \in Seq(T) /\ i \in DOMAIN (f \o s)
    BY <1>4, <2>2 DEF f, s, S, T
  <2>4. \/ i \in DOMAIN f /\ (f \o s)[i] = f[i]
        \/ i - Len(f) \in DOMAIN s /\ (f \o s)[i] = s[i - Len(f)]
    BY <2>3, Joined
  <2>5. (f \o s)[i] \in S \cup T
    BY <2>3, <2>4
  <2>6. QED
    BY <2>5 DEF f, s, S, T, Ips
<1>5. (\A i \in DOMAIN found : found[i] \in Ips)'
  <2>1. CASE UNCHANGED found
    BY <2>1 DEF TraceInv
  <2>2. ASSUME NEW r \in Records, NEW n, found' \in [1..n -> ToSet(four(r) \o six(r))]
        PROVE  \A i \in DOMAIN found' : found'[i] \in Ips
    <3> DEFINE all == four(r) \o six(r)
    <3>1. \A a \in ToSet(all) : a \in Ips
      BY <1>4 DEF ToSet
    <3> HIDE DEF all
    <3>2. found' \in [1..n -> ToSet(all)]
      BY <2>2 DEF all
    <3>3. QED
      BY <3>1, <3>2
  <2>3. QED
    BY <1>2, <2>1, <2>2
<1>6. QED
  BY <1>1, <1>3, <1>5 DEF TraceInv, PathShown

\* One of them is the target.
LEMMA ChooseTraced == ASSUME TraceInv, PipelineInv, Choose PROVE TraceInv'
<1>1. stage = "found" /\ UNCHANGED <<request, found>> /\ answer.is # "hops"
  BY DEF Choose, PipelineInv
<1>2. \/ stage' = "done" /\ answer' \in {Failed, Blocked} /\ target' = target
      \/ stage' = "resolved" /\ answer' = answer /\ target' = Preferred(found) /\ found # <<>>
  BY DEF Choose, Told
<1>3. answer'.is # "hops"
  BY <1>1, <1>2 DEF Failed, Blocked
<1>4. stage' = "resolved" => target' \in Ips
  <2> SUFFICES ASSUME found # <<>> PROVE Preferred(found) \in Ips
    BY <1>2
  <2> DEFINE four == {i \in DOMAIN found : ~IsV6(found[i])}
             at == IF four = {} THEN 1 ELSE Min(four)
  <2>1. found \in Seq(ToSet(found)) /\ DOMAIN found = 1..Len(found) /\ Len(found) >= 1
    BY DEF PipelineInv, FoundKnown
  <2>2. four \in SUBSET Nat /\ four \subseteq DOMAIN found
    BY <2>1
  <2>3. Preferred(found) = found[at]
    BY Zenon DEF Preferred
  <2> HIDE DEF four
  <2>4. at \in DOMAIN found
    <3>1. four # {} => Min(four) \in DOMAIN found
      BY <2>2, LeastMember
    <3>2. 1 \in DOMAIN found
      BY <2>1
    <3>3. QED
      BY <3>1, <3>2, Zenon
  <2> HIDE DEF at
  <2>5. QED
    BY <2>3, <2>4 DEF TraceInv
<1>5. QED
  BY <1>1, <1>2, <1>3, <1>4 DEF TraceInv, PathShown

\* The hops are those of the path.
LEMMA HopsTraced ==
  ASSUME TraceInv, PipelineInv, PathsOfHops(Ips), TracerouteEnds \/ MtrEnds
  PROVE  TraceInv'
<1>1. /\ stage = "running" /\ stage' = "naming" /\ UNCHANGED <<request, found, target, answer>>
      /\ answer.is # "hops"
  BY DEF TracerouteEnds, MtrEnds, ReverseLookup, PipelineInv
<1>2. ASSUME request.kind = "traceroute"
      PROVE  path' \in Seq(Hops) /\ raw' # <<>> /\ Shows(raw', path', cut')
  <2>1. request.kind # "mtr"
    BY <1>2
  <2>2. PICK p \in Paths(target) : \E lines \in CutOutputs(Output(p)) :
          /\ ParseTraceroute(lines) # <<>>
          /\ path' = p /\ cut' = (lines # Output(p)) /\ raw' = ParseTraceroute(lines)
    BY <2>1, Zenon DEF TracerouteEnds, MtrEnds, ReverseLookup
  <2>3. PICK lines \in CutOutputs(Output(p)) :
          /\ ParseTraceroute(lines) # <<>>
          /\ path' = p /\ cut' = (lines # Output(p)) /\ raw' = ParseTraceroute(lines)
    BY <2>2
  <2>4. target \in Ips
    BY <1>1 DEF TraceInv
  <2>5. p \in Seq(Hops)
    BY <2>4 DEF PathsOfHops
  <2>6. Shows(ParseTraceroute(lines), p, lines # Output(p))
    BY <2>5, RawWhole
  <2>7. QED
    BY <2>3, <2>5, <2>6
<1>3. (stage = "naming" /\ request.kind = "traceroute" =>
         path \in Seq(Hops) /\ raw # <<>> /\ Shows(raw, path, cut))'
  BY <1>1, <1>2 DEF Shows, HopOf
<1>4. QED
  BY <1>1, <1>3 DEF TraceInv, PathShown

\* What is presented of a hop is what the tool was answered.
LEMMA HopPresented ==
  ASSUME NEW hop \in Seq(Probes), NEW i, NEW h, request.kind = "traceroute",
         h.hop = i, h.address = FirstAddress(PrintHop(hop)), h.rtts = Times(PrintHop(hop))
  PROVE  /\ HopShown(Present(h), i, hop)
         /\ h.address = IF Answered(hop) = {} THEN <<>> ELSE FirstRouter(hop)
         /\ Answered(hop) # {} => FirstRouter(hop) # <<>>
<1> DEFINE who == Answered(hop)
           first == FirstRouter(hop)
           times == [k \in DOMAIN hop |-> TimeOf(hop[k])]
           presented == Present(h)
<1>1. h.rtts = times /\ h.address = IF who = {} THEN <<>> ELSE first
  BY HopRead, Zenon
<1>2. who # {} => first # <<>>
  <2>1. who \in SUBSET Nat
    BY DEF Answered
  <2>2. who # {} => Min(who) \in who
    BY <2>1, LeastMember
  <2>3. QED
    BY <2>2 DEF Answered, FirstRouter
<1>3. times = [k \in DOMAIN hop |-> IF k \in who THEN hop[k].rtt ELSE NoTime]
  BY DEF TimeOf, Answered
<1>4. who = {} => ToSet(times) \ {NoTime} = {}
  <2>1. who = {} => \A k \in DOMAIN hop : TimeOf(hop[k]) = NoTime
    BY DEF TimeOf, Answered
  <2>2. QED
    BY <2>1 DEF ToSet
<1> HIDE DEF times, who, first
<1> DEFINE seen == h.address # <<>> /\ ~Internal(h.address)
<1>5. /\ presented.hop = h.hop /\ presented.rtts = h.rtts
      /\ presented.responded = (h.address # <<>> \/ (request.kind = "traceroute" /\ ToSet(h.rtts) \ {NoTime} # {}))
      /\ presented.redacted = (h.address # <<>> /\ Internal(h.address))
      /\ presented.address = IF seen THEN h.address ELSE <<>>
  BY DEF Present
<1> HIDE DEF presented
<1>6. presented.responded = (who # {})
  BY <1>1, <1>2, <1>4, <1>5
<1>7. who # {} => (presented.address = first \/ (presented.redacted /\ presented.address = <<>>))
  <2>1. who # {} => h.address = first /\ h.address # <<>>
    BY <1>1, <1>2
  <2>2. QED
    BY <1>5, <2>1
<1>8. HopShown(presented, i, hop)
  BY <1>1, <1>3, <1>5, <1>6, <1>7, Zenon DEF HopShown, who, first
<1>9. QED
  BY <1>1, <1>2, <1>8 DEF who, first, presented

LEMMA FinishTraced == ASSUME TraceInv, PipelineInv, Finish PROVE TraceInv'
<1> DEFINE hops == [i \in DOMAIN raw |-> Present(raw[i])]
           n == Len(raw)
           whole == IF cut THEN n - 1 ELSE n
           reached == request.kind = "traceroute" /\ Last(raw).address = target
<1>1. /\ stage = "naming" /\ stage' = "done"
      /\ UNCHANGED <<request, found, target, path, cut, raw>>
      /\ answer'.is = "hops" /\ answer'.hops = hops /\ answer'.reached = reached
  BY DEF Finish, Told
<1>2. ASSUME request.kind = "traceroute"
      PROVE  /\ Len(hops) = n /\ n \in 1..Len(path) /\ (~cut => n = Len(path))
             /\ \A i \in 1..whole : HopShown(hops[i], i, path[i])
             /\ ~cut => reached = (Answered(path[n]) # {} /\ FirstRouter(path[n]) = target)
  <2>1. path \in Seq(Hops) /\ raw # <<>> /\ Shows(raw, path, cut) /\ target \in Ips
    BY <1>1, <1>2 DEF TraceInv
  <2>2. PICK U : raw \in Seq(U)
    BY <2>1 DEF Shows
  <2>3. /\ DOMAIN raw = 1..n /\ n \in 1..Len(path) /\ Len(path) \in Nat /\ (~cut => n = Len(path))
        /\ \A i \in 1..whole : raw[i] = HopOf(path, i)
    BY <2>1, <2>2 DEF Shows
  <2>4. Len(hops) = n
    <3>1. hops = [i \in 1..n |-> Present(raw[i])] /\ n \in Nat
      BY <2>3
    <3>2. QED
      BY <3>1
  <2>5. ASSUME NEW i \in 1..whole
        PROVE  /\ HopShown(hops[i], i, path[i])
               /\ raw[i].address = IF Answered(path[i]) = {} THEN <<>> ELSE FirstRouter(path[i])
               /\ Answered(path[i]) # {} => FirstRouter(path[i]) # <<>>
    <3>1. i \in 1..n /\ i \in DOMAIN path
      BY <2>1, <2>3
    <3>2. path[i] \in Seq(Probes)
      <4>1. path[i] \in Hops
        BY <2>1, <3>1
      <4>2. QED
        BY <4>1 DEF Hops
    <3>3. /\ raw[i].hop = i /\ raw[i].address = FirstAddress(PrintHop(path[i]))
          /\ raw[i].rtts = Times(PrintHop(path[i]))
      <4>1. raw[i] = HopOf(path, i)
        BY <2>3
      <4> DEFINE h == HopOf(path, i)
      <4>2. h.hop = i /\ h.address = FirstAddress(PrintHop(path[i])) /\ h.rtts = Times(PrintHop(path[i]))
        BY DEF HopOf
      <4> HIDE DEF h
      <4>3. QED
        BY <4>1, <4>2, Zenon DEF h
    <3>4. hops[i] = Present(raw[i])
      BY <2>3, <3>1
    <3>5. QED
      BY <1>2, <3>2, <3>3, <3>4, HopPresented
  <2>6. ASSUME ~cut
        PROVE  reached = (Answered(path[n]) # {} /\ FirstRouter(path[n]) = target)
    <3>1. n \in 1..whole /\ Last(raw) = raw[n]
      BY <2>3, <2>6 DEF Last
    <3>2. target # <<>>
      <4>1. (\A a \in [1..4 -> 0..255] : 1 \in DOMAIN a) /\ (\A a \in [1..16 -> 0..255] : 1 \in DOMAIN a)
        OBVIOUS
      <4>2. 1 \in DOMAIN target
        BY <2>1, <4>1 DEF Ips
      <4>3. QED
        BY <4>2
    <3>3. QED
      BY <1>2, <2>5, <3>1, <3>2
  <2> HIDE DEF hops, n, whole, reached
  <2>7. QED
    BY <2>3, <2>4, <2>5, <2>6
<1> HIDE DEF hops, reached, n
<1>3. PathShown'
  <2> SUFFICES ASSUME request'.kind = "traceroute"
               PROVE  LET m == Len(answer'.hops)
                      IN /\ m \in 1..Len(path') /\ (~cut' => m = Len(path'))
                         /\ \A i \in 1..(IF cut' THEN m - 1 ELSE m) : HopShown(answer'.hops[i], i, path'[i])
                         /\ ~cut' => answer'.reached =
                              (Answered(path'[m]) # {} /\ FirstRouter(path'[m]) = target')
    BY DEF PathShown
  <2>1. request.kind = "traceroute" /\ path' = path /\ cut' = cut /\ target' = target
        /\ answer'.hops = hops /\ answer'.reached = reached
    BY <1>1
  <2>2. QED
    BY <1>2, <2>1
<1>4. (\A i \in DOMAIN found : found[i] \in Ips)' /\ (request.text \in Texts)'
  BY <1>1 DEF TraceInv
<1>5. QED
  BY <1>1, <1>3, <1>4 DEF TraceInv

LEMMA TraceNextInv ==
  ASSUME PathsOfHops(Ips), TraceInv, PipelineInv, [Next]_vars
  PROVE  TraceInv'
<1>1. request'.text \in Texts
  BY TextKept DEF TraceInv
<1>2. CASE Resolve \/ HostResolved \/ Choose
  BY <1>2, ResolveTraced, HostTraced, ChooseTraced
<1>3. CASE TracerouteEnds \/ MtrEnds
  BY <1>3, HopsTraced
<1>4. CASE Finish
  BY <1>4, FinishTraced
<1>5. CASE Submit \/ SubmitDirectly \/ Validate \/ Lookup \/ LookupEnds
  <2>1. /\ stage \notin {"done", "resolved", "running", "naming"} /\ UNCHANGED <<found, target>>
        /\ stage' \notin {"resolved", "running", "naming"}
    BY <1>5 DEF Submit, SubmitDirectly, Validate, Lookup, LookupEnds, Told
  <2>2. answer.is # "hops"
    BY <2>1 DEF PipelineInv
  <2>3. answer' = answer \/ answer' \in {Refused, Invalid, Failed} \/ answer' = Parsed
          \/ answer'.is = "records"
    BY <1>5 DEF Submit, SubmitDirectly, Validate, Lookup, LookupEnds, Told
  <2>4. answer'.is # "hops"
    <3>1. answer' = Parsed => answer'.is # "hops"
      BY ParseLetsThrough DEF Parsed
    <3>2. QED
      BY <2>2, <2>3, <3>1 DEF Refused, Invalid, Failed
  <2>5. QED
    BY <1>1, <2>1, <2>4, TraceWaits
<1>6. CASE RunTool \/ ToolFails \/ PingEnds \/ Stop
  <2>1. /\ stage # "done" /\ UNCHANGED <<request, found, target>>
        /\ stage' \in {"running", "done"} /\ (stage' = "running" => stage = "resolved")
        /\ answer' = answer \/ answer' \in {Blocked, Failed} \/ answer'.is \in {"ping", "cancelled"}
    BY <1>6 DEF RunTool, ToolFails, PingEnds, Stop, Told
  <2>2. answer'.is # "hops"
    BY <2>1 DEF PipelineInv, Blocked, Failed
  <2>3. QED
    BY <1>1, <2>1, <2>2, TraceWaits
<1>7. CASE (\E a \in DOMAIN lookups : ReverseAnswer(a) \/ LookupGivesUp(a)) \/ BudgetOver
  <2>1. stage = "naming" /\ UNCHANGED <<request, stage, found, target, path, cut, raw, answer>>
    BY <1>7 DEF ReverseAnswer, LookupGivesUp, BudgetOver
  <2>2. answer'.is # "hops"
    BY <2>1 DEF PipelineInv
  <2>3. QED
    BY <1>1, <2>1, <2>2, TraceWaits
<1>8. CASE CancelToken
  <2>1. stage # "done" /\ UNCHANGED <<request, stage, found, target, path, cut, raw, answer>>
    BY <1>8 DEF CancelToken
  <2>2. answer'.is # "hops"
    BY <2>1 DEF PipelineInv
  <2>3. QED
    BY <1>1, <2>1, <2>2, TraceWaits
<1>9. CASE UNCHANGED vars
  BY <1>9 DEF vars, TraceInv, PathShown, Shows, HopOf
<1>10. QED
  BY <1>2, <1>3, <1>4, <1>5, <1>6, <1>7, <1>8, <1>9 DEF Next

\* DiagnosticsPipeline!PathShown, for all paths of hops: what the visitor is shown of a
\* path is what the tool found on it, however the tool prints it and wherever its
\* output was cut.
THEOREM PathsAreShown == ASSUME PathsOfHops(Ips) PROVE Spec => []PathShown
<1>1. Init => TraceInv /\ PipelineInv
  BY TraceInitInv, PipelineInitInv
<1>2. (TraceInv /\ PipelineInv) /\ [Next]_vars => (TraceInv /\ PipelineInv)'
  BY TraceNextInv, PipelineNextInv
<1>3. TraceInv => PathShown
  BY DEF TraceInv
<1>4. QED
  BY <1>1, <1>2, <1>3, PTL DEF Spec
==============================================================================
