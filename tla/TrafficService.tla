---------------------------- MODULE TrafficService ----------------------------
(***************************************************************************)
(* The bandwidth page's data: src/Api/Services/TrafficService.cs over      *)
(* PrometheusClient.cs.  Nine queries run side by side; those about the    *)
(* internet link and the ingress are optional.                             *)
(*                                                                         *)
(* A series is the node (or none) and the query it comes from; the numbers *)
(* are left out.  Prometheus answers each query on its own: with the nodes *)
(* it has just then, in any order.                                         *)
(***************************************************************************)
EXTENDS Naturals, Sequences, SequencesExt

CONSTANTS
  Nodes,   \* the instances, in the order of their sort keys
  HasWan   \* Traffic:WanDevice is set

ASSUME NodesAssumption == Nodes \subseteq Nat /\ IsFiniteSet(Nodes)

NodeQueries == {"nodeRx", "nodeTx", "capacity"}
ClusterQueries == {"clusterRx", "clusterTx"}
OptionalQueries == {"webIn", "webOut", "wanRx", "wanTx"}
Required == NodeQueries \cup ClusterQueries

VARIABLES
  result,  \* result[q]: the series of query q, or that it failed
  told     \* the response, by tag

trafficVars == <<result, told>>

NoResult == <<>>

TrafficInit ==
  /\ result = NoResult
  /\ told = [is |-> "nothing"]

\* QueryRangeAsync: what is wrong with Prometheus or its answer is "unavailable".
Ok(series) == [is |-> "series", series |-> series]
Unavailable == [is |-> "unavailable"]

PerNode(q) ==
  {Unavailable} \cup
  UNION {{Ok([i \in DOMAIN order |-> [node |-> order[i], query |-> q]]) : order \in SetToSeqs(some)} :
           some \in SUBSET Nodes}

Whole(q) == {Unavailable, Ok(<<>>), Ok(<<[node |-> 0, query |-> q]>>)}

\* OptionalAsync: a query that is unavailable has no series; without a WAN device there
\* is none about the link.
Optional(q) ==
  IF q \in {"wanRx", "wanTx"} /\ ~HasWan THEN {Ok(<<>>)}
  ELSE {IF r = Unavailable THEN Ok(<<>>) ELSE r : r \in Whole(q)}

\* The queries share nothing, and WhenAll waits for all of them.
QueriesEnd ==
  /\ result = NoResult
  /\ \E rx \in PerNode("nodeRx"), tx \in PerNode("nodeTx"), speed \in PerNode("capacity"),
        inbound \in Whole("clusterRx"), outbound \in Whole("clusterTx"),
        asked \in Optional("webIn"), served \in Optional("webOut"),
        down \in Optional("wanRx"), up \in Optional("wanTx") :
       result' = [nodeRx |-> rx, nodeTx |-> tx, capacity |-> speed,
                  clusterRx |-> inbound, clusterTx |-> outbound,
                  webIn |-> asked, webOut |-> served, wanRx |-> down, wanTx |-> up]
  /\ UNCHANGED told

Series(q) == result[q].series
Instances(q) == {Series(q)[i].node : i \in DOMAIN Series(q)}
\* The series of node n in the dictionary made of the answer to q.
Of(q, n) == CHOOSE s \in ToSet(Series(q)) : s.node = n
Speed(n) == IF n \in Instances("capacity") THEN <<Of("capacity", n)>> ELSE <<>>

\* Slip: the series are paired by position.
NodesByPosition ==
  [i \in 1..(IF Len(Series("nodeRx")) < Len(Series("nodeTx"))
             THEN Len(Series("nodeRx")) ELSE Len(Series("nodeTx"))) |->
     [label |-> i, rx |-> Series("nodeRx")[i], tx |-> Series("nodeTx")[i],
      capacity |-> Speed(Series("nodeRx")[i].node)]]

\* The node that comes i-th in the order of their keys.
Ranked(nodes, i) == CHOOSE n \in nodes : Cardinality({m \in nodes : m < n}) = i - 1

\* The nodes with both directions, in the order of their keys and named by position.
BuildNodes ==
  LET both == Instances("nodeRx") \cap Instances("nodeTx")
  IN [i \in 1..Cardinality(both) |->
        LET n == Ranked(both, i)
        IN [label |-> i, rx |-> Of("nodeRx", n), tx |-> Of("nodeTx", n), capacity |-> Speed(n)]]

First(q) == IF Series(q) = <<>> THEN <<>> ELSE <<Series(q)[1]>>

\* A pair of sources: with both of them its current values are those of the series.
Source(a, b) ==
  LET available == Series(a) # <<>> /\ Series(b) # <<>>
  IN [available |-> available, rx |-> First(a), tx |-> First(b),
      current |-> IF available THEN <<First(a), First(b)>> ELSE <<>>]

BuildTraffic ==
  /\ result # NoResult /\ told.is = "nothing"
  /\ told' = IF \E q \in DOMAIN result : result[q] = Unavailable THEN [is |-> "unavailable"]
             ELSE [is |-> "traffic", nodes |-> BuildNodes,
                   cluster |-> [rx |-> First("clusterRx"), tx |-> First("clusterTx")],
                   internet |-> Source("wanRx", "wanTx"), web |-> Source("webIn", "webOut")]
  /\ UNCHANGED result

TrafficNext == QueriesEnd \/ BuildTraffic

TrafficSpec == TrafficInit /\ [][TrafficNext]_trafficVars

------------------------------------------------------------------------------
\* A node's chart shows one node: its two directions and its capacity are never those
\* of different ones, whatever nodes each of the three answers has and in whatever
\* order, and no node that has reported both directions is left out or shown twice.
OneNodePerChart == told.is = "traffic" =>
  LET nodes == told.nodes
      reported(q) == {result[q].series[i].node : i \in DOMAIN result[q].series}
  IN /\ \A i \in DOMAIN nodes :
          /\ nodes[i].rx.query = "nodeRx" /\ nodes[i].tx.query = "nodeTx"
          /\ nodes[i].rx.node = nodes[i].tx.node
          /\ \A k \in DOMAIN nodes[i].capacity : nodes[i].capacity[k].node = nodes[i].rx.node
          /\ \A j \in DOMAIN nodes : i < j => nodes[i].rx.node < nodes[j].rx.node
     /\ {nodes[i].rx.node : i \in DOMAIN nodes} = reported("nodeRx") \cap reported("nodeTx")
==============================================================================
