------------------------------ MODULE PageViews ------------------------------
(***************************************************************************)
(* What the pages make of a query, and the bandwidth page's choice of a    *)
(* range: src/Web/src/components/pages/ and components/dashboard/.         *)
(*                                                                         *)
(* A view is what its body shows, whether a note says that the data are    *)
(* old, and whether a button for another attempt can be pressed.  The      *)
(* bandwidth page has a panel for the selected range, which React replaces *)
(* by a new one, with a query of its own, when the range changes.          *)
(***************************************************************************)
EXTENDS QueryHook

CONSTANT Ranges  \* TRAFFIC_RANGES

ASSUME RangesAssumption == Ranges # {}

VARIABLES
  initialRange,  \* the range of what the server has rendered
  range,
  askedFor       \* askedFor[k]: the range fetch k asked for

viewVars == <<queryVars, initialRange, range, askedFor>>

------------------------------------------------------------------------------
(* What is shown                                                            *)

Body == IF HasData THEN "data" ELSE IF Loading THEN "skeleton" ELSE "failure"

\* The Refresh button in the header of a page.
RefreshButton == ~refreshing

StatusView ==
  [shows |-> Body, note |-> HasData /\ HasError,
   button |-> RefreshButton \/ Body = "failure" \/ (HasData /\ HasError)]

ConnectivityView ==
  [shows |-> Body, note |-> FALSE, button |-> RefreshButton \/ Body = "failure"]

NetworkView ==
  [shows |-> Body, note |-> FALSE, button |-> RefreshButton \/ Body = "failure"]

\* Its "Try again" waits for an attempt that is out, as the Refresh button does.
TrafficPanel ==
  [shows |-> Body, note |-> HasData /\ HasError, button |-> RefreshButton]

\* The parts of the dashboard, and the pill in the bar of every page, say nothing of an
\* error that came after data and have no button.  The hero, the figures and the pill
\* look whether the query is loading before they look at the data.
Card(shows) == [shows |-> shows, note |-> FALSE, button |-> FALSE]

LoadingFirst == IF Loading THEN "skeleton" ELSE IF HasData THEN "data" ELSE "failure"

StatusHero == Card(LoadingFirst)
MetricGrid == Card(LoadingFirst)
StatusPill == Card(LoadingFirst)
NetworkCard == Card(Body)
LatencyCard == Card(Body)
ActivityCard == Card(Body)

Cards == {StatusHero, MetricGrid, StatusPill, NetworkCard, LatencyCard, ActivityCard}

\* Without the optional service (off) there is nothing to try again; an error hides the
\* data it came after.
BgpView(off) ==
  [shows |-> IF ~HasError THEN Body ELSE IF off THEN "not offered" ELSE "failure",
   note |-> FALSE, button |-> HasError /\ ~off]

Pages == {StatusView, ConnectivityView, NetworkView, TrafficPanel, BgpView(TRUE), BgpView(FALSE)}

------------------------------------------------------------------------------
(* The bandwidth page                                                       *)

ViewInit ==
  /\ QueryInit
  /\ initialRange \in Ranges
  /\ range = initialRange
  /\ askedFor = [k \in 1..MaxFetches |-> initialRange]

\* Slip: the panel is not keyed by the range.
SelectInPlace(next) ==
  /\ next # range
  /\ range' = next
  /\ UNCHANGED <<queryVars, initialRange, askedFor>>

\* The old panel's effect is cleaned up and its state is gone; the new panel starts
\* without anything the server has rendered, and its effect is still to come.
Select(next) ==
  /\ next # range
  /\ range' = next
  /\ aborted' = aborted \cup ({controller} \ {0})
  /\ initial' = "none"
  /\ controller' = 0 /\ data' = 0 /\ error' = 0 /\ refreshing' = FALSE /\ polling' = FALSE
  /\ UNCHANGED <<fetches, fetch, initialRange, askedFor>>

\* The panel's query; a fetch asks for the range of its panel.
PanelStep ==
  /\ QueryNext
  /\ askedFor' = [k \in 1..MaxFetches |-> IF k \in (fetches + 1)..fetches' THEN range ELSE askedFor[k]]
  /\ UNCHANGED <<initialRange, range>>

ViewNext ==
  \/ \E next \in Ranges : Select(next)
  \/ PanelStep

ViewSpec == ViewInit /\ [][ViewNext]_viewVars

------------------------------------------------------------------------------
(* Properties                                                               *)

\* The figures and the charts are those of the selected range, whichever of the
\* panels' answers come late.
RangeShown == HasData => range = IF data = 0 THEN initialRange ELSE askedFor[data]

\* The fetch whose answer the page waits for.
Out == controller # 0 /\ controller \notin aborted /\ fetch[controller] # "over"

\* No page is stuck: a skeleton is shown only while a fetch is out that will replace
\* it, and a page that has failed can be tried again or is being tried again.
NeverStuck == polling =>
  /\ \A view \in Pages \cup Cards : view.shows = "skeleton" => Out
  /\ \A page \in Pages : page.shows = "failure" => Out \/ page.button

\* The page always says whether it is waiting, and never waits for nothing.
WaitShown == RefreshTold /\ NeverStuck
==============================================================================
