------------------------------ MODULE QueryHook ------------------------------
(***************************************************************************)
(* The data of a page that refreshes itself:                               *)
(* src/Web/src/hooks/useApiQuery.ts.  A poll, a manual refresh and the     *)
(* effect of a changed option may start a fetch while another is on its    *)
(* way, which is then aborted; React may clean the effect up and run it    *)
(* again at any time.                                                      *)
(***************************************************************************)
EXTENDS Naturals

CONSTANT MaxFetches  \* bound of the model: the fetches started

ASSUME QueryAssumption == MaxFetches \in Nat

VARIABLES
  initial,     \* what the server has rendered: "ok", "failed", or "none" if it did not ask
  fetches,     \* the number of fetches started; fetch k is the k-th
  controller,  \* controllerRef.current: the fetch whose controller it is, 0 for null
  aborted,         \* the fetches whose signal is aborted
  fetch,       \* fetch[k]: what became of the promise of fetch k
  data,        \* the fetch whose data is shown, 0 for the server's or none
  error,       \* the fetch whose error is shown, 0 for the server's or none
  refreshing,
  polling      \* the effect is set up

queryVars == <<initial, fetches, controller, aborted, fetch, data, error, refreshing, polling>>

QueryInit ==
  /\ initial \in {"ok", "failed", "none"}
  /\ fetches = 0
  /\ controller = 0
  /\ aborted = {}
  /\ fetch = [k \in 1..MaxFetches |-> "none"]
  /\ data = 0
  /\ error = 0
  /\ refreshing = FALSE
  /\ polling = FALSE

HasData == initial = "ok" \/ data # 0
HasError == error # 0 \/ (initial = "failed" /\ data = 0)
Loading == ~HasData /\ ~HasError

\* run, up to its await
Fetch ==
  /\ fetches < MaxFetches
  /\ fetches' = fetches + 1
  /\ aborted' = aborted \cup ({controller} \ {0})
  /\ controller' = fetches'
  /\ fetch' = [fetch EXCEPT ![fetches'] = "pending"]
  /\ refreshing' = TRUE
  /\ UNCHANGED <<initial, data, error>>

\* Slip: the first fetch is made once, although the cleanup has aborted it.
SetUpOnce ==
  /\ ~polling
  /\ polling' = TRUE
  /\ IF initial # "ok" /\ controller = 0 THEN Fetch
     ELSE UNCHANGED <<initial, fetches, controller, aborted, fetch, data, error, refreshing>>

\* The effect: a first fetch unless the server has rendered the data, and the timer.
SetUp ==
  /\ ~polling
  /\ polling' = TRUE
  /\ IF initial # "ok" THEN Fetch
     ELSE UNCHANGED <<initial, fetches, controller, aborted, fetch, data, error, refreshing>>

\* Its cleanup.
CleanUp ==
  /\ polling
  /\ polling' = FALSE
  /\ aborted' = aborted \cup ({controller} \ {0})
  /\ UNCHANGED <<initial, fetches, controller, fetch, data, error, refreshing>>

\* The timer on a visible page, or refresh(), which does not ask whether polling is on.
Refresh == Fetch /\ UNCHANGED polling

\* The promise settles; an answer that is there already wins over the signal.
FetchSettles(k) ==
  /\ fetch[k] = "pending"
  /\ \E how \in {"answer", "failure"} \cup (IF k \in aborted THEN {"abort"} ELSE {}) :
       fetch' = [fetch EXCEPT ![k] = how]
  /\ UNCHANGED <<initial, fetches, controller, aborted, data, error, refreshing, polling>>

Ended(k) ==
  /\ fetch[k] \in {"answer", "failure", "abort"}
  /\ fetch' = [fetch EXCEPT ![k] = "over"]

\* Slip: an aborted fetch is known only by the error it throws.
FetchEndsUnlessThrown(k) ==
  /\ Ended(k)
  /\ data' = IF fetch[k] = "answer" THEN k ELSE data
  /\ error' = IF fetch[k] = "abort" THEN error ELSE IF fetch[k] = "answer" THEN 0 ELSE k
  /\ refreshing' = (refreshing /\ controller # k)
  /\ UNCHANGED <<initial, fetches, controller, aborted, polling>>

\* Slip: finally does not look at the controller.
FetchEndsForAll(k) ==
  /\ Ended(k)
  /\ data' = IF k \notin aborted /\ fetch[k] = "answer" THEN k ELSE data
  /\ error' = IF k \in aborted \/ fetch[k] = "abort" THEN error
              ELSE IF fetch[k] = "answer" THEN 0 ELSE k
  /\ refreshing' = FALSE
  /\ UNCHANGED <<initial, fetches, controller, aborted, polling>>

\* run, after its await: an aborted fetch leaves data and error alone, and only the
\* fetch that is still the current one ends the refresh.
FetchEnds(k) ==
  /\ Ended(k)
  /\ data' = IF k \notin aborted /\ fetch[k] = "answer" THEN k ELSE data
  /\ error' = IF k \in aborted \/ fetch[k] = "abort" THEN error
              ELSE IF fetch[k] = "answer" THEN 0 ELSE k
  /\ refreshing' = (refreshing /\ controller # k)
  /\ UNCHANGED <<initial, fetches, controller, aborted, polling>>

QueryNext ==
  \/ SetUp \/ CleanUp \/ Refresh
  \/ \E k \in 1..MaxFetches : FetchSettles(k) \/ FetchEnds(k)

QuerySpec == QueryInit /\ [][QueryNext]_queryVars

------------------------------------------------------------------------------
(* Properties                                                               *)

QueryTypeOK ==
  /\ initial \in {"ok", "failed", "none"}
  /\ fetches \in 0..MaxFetches
  /\ controller \in 0..fetches
  /\ aborted \subseteq 1..fetches
  /\ fetch \in [1..MaxFetches -> {"none", "pending", "answer", "failure", "abort", "over"}]
  /\ data \in 0..fetches
  /\ error \in 0..fetches
  /\ refreshing \in BOOLEAN
  /\ polling \in BOOLEAN

\* The page never goes back: no answer replaces the data of a fetch that was
\* started later, however late it arrives.
NeverGoesBack == [][data' \notin {0, data} => data' > data]_queryVars

\* What the page says of a refresh is so: the button spins and is disabled exactly
\* while the newest fetch is out, and "Couldn't refresh, showing the last data" is
\* about an attempt after that data, never about one that was aborted.
RefreshTold ==
  /\ refreshing <=> controller # 0 /\ fetch[controller] # "over"
  /\ error # 0 => error > data
==============================================================================
