------------------------------ MODULE BgpLookup ------------------------------
(***************************************************************************)
(* The prefix lookup: BgpLookup in src/Web/src/components/pages/           *)
(* BgpViews.tsx.  It keeps its own state instead of a hook's, and has no   *)
(* controller: what keeps an old answer from a new lookup is only that no  *)
(* second one can be started.                                              *)
(***************************************************************************)
EXTENDS Naturals

CONSTANTS
  Entries,    \* what may be entered
  Accepted,   \* what parseBgpQuery takes for a prefix or an AS number
  MaxLookups  \* bound of the model: the lookups started

ASSUME EntriesAssumption == "" \in Entries \ Accepted /\ Accepted \subseteq Entries
ASSUME LookupsAssumption == MaxLookups \in Nat

VARIABLES
  entry,        \* value
  refused,      \* validation is not null
  started,      \* the number of lookups started
  queryOf,      \* queryOf[k]: the query of lookup k
  bgpPromise,   \* bgpPromise[k]: what became of its promise
  shownLookup   \* state: its status, its query, and the lookup that is in data or error

lookupVars == <<entry, refused, started, queryOf, bgpPromise, shownLookup>>

Nowhere == [status |-> "idle", query |-> "none", lookup |-> 0, failed |-> FALSE]

LookupInit ==
  /\ entry = ""
  /\ refused = FALSE
  /\ started = 0
  /\ queryOf = [k \in 1..MaxLookups |-> "none"]
  /\ bgpPromise = [k \in 1..MaxLookups |-> "none"]
  /\ shownLookup = Nowhere

EnterQuery(e) ==
  /\ entry' = e
  /\ refused' = FALSE
  /\ UNCHANGED <<started, queryOf, bgpPromise, shownLookup>>

\* run, up to its await
LookUp(query) ==
  /\ started < MaxLookups
  /\ started' = started + 1
  /\ queryOf' = [queryOf EXCEPT ![started'] = query]
  /\ bgpPromise' = [bgpPromise EXCEPT ![started'] = "pending"]
  /\ shownLookup' = [status |-> "loading", query |-> query, lookup |-> 0, failed |-> FALSE]

\* Slip: the button is not disabled while a lookup is out.
SubmitAnyTime ==
  /\ IF entry \in Accepted
     THEN refused' = FALSE /\ LookUp(entry)
     ELSE refused' = TRUE /\ UNCHANGED <<started, queryOf, bgpPromise, shownLookup>>
  /\ UNCHANGED entry

\* The button is disabled while a lookup is out, and with it the Enter key.
SubmitQuery ==
  /\ shownLookup.status # "loading"
  /\ IF entry \in Accepted
     THEN refused' = FALSE /\ LookUp(entry)
     ELSE refused' = TRUE /\ UNCHANGED <<started, queryOf, bgpPromise, shownLookup>>
  /\ UNCHANGED entry

\* BgpOutcome offers it for an error, unless the service is not there at all, and it
\* looks up what failed, whatever has been entered since.
RetryLookup ==
  /\ shownLookup.status = "done" /\ shownLookup.failed
  /\ LookUp(shownLookup.query)
  /\ UNCHANGED <<entry, refused>>

\* The promise settles and run goes on; there is no signal, so it is not an abort.
BgpEnds(k) ==
  /\ bgpPromise[k] = "pending"
  /\ bgpPromise' = [bgpPromise EXCEPT ![k] = "over"]
  /\ \E failed \in BOOLEAN :
       shownLookup' = [status |-> "done", query |-> queryOf[k], lookup |-> k, failed |-> failed]
  /\ UNCHANGED <<entry, refused, started, queryOf>>

LookupNext ==
  \/ \E e \in Entries : EnterQuery(e)
  \/ SubmitQuery \/ RetryLookup
  \/ \E k \in 1..MaxLookups : BgpEnds(k)

LookupSpec == LookupInit /\ [][LookupNext]_lookupVars

------------------------------------------------------------------------------
\* One lookup at a time, although nothing aborts one: "Looking up" stands for exactly
\* one request, the newest, and what is shown after it is the newest one's answer.
LookupShown ==
  /\ \A k \in 1..MaxLookups :
       bgpPromise[k] = "pending" <=> shownLookup.status = "loading" /\ k = started
  /\ shownLookup.status = "done" => shownLookup.lookup = started
  /\ shownLookup.status = "idle" => started = 0
==============================================================================
