------------------------------ MODULE MCNetwork ------------------------------
(***************************************************************************)
(* Instances of Network for TLC.                                           *)
(***************************************************************************)
EXTENDS Network

MCWeights == {-1, 1}

MCNodes == {"source", "a", "b", "sink"}

N(id, data) == [tag |-> "node", id |-> id, data |-> {data}]
E(s, t)     == [tag |-> "edge", source |-> s, target |-> t]

FourNodes == <<N(1, "source"), N(2, "a"), N(3, "b"), N(4, "sink")>>

(* test_graph_shortest_path_1.xml: two disjoint paths. *)
Diamond == FourNodes \o <<E(1, 2), E(1, 3), E(2, 4), E(3, 4)>>

(* Three paths with common arcs, edges not in topological order. *)
Crossing == FourNodes \o <<E(3, 4), E(2, 4), E(2, 3), E(1, 2), E(1, 3)>>

(* A vertex that leads nowhere, one that is not reached. *)
DeadEnds == FourNodes \o <<E(1, 2), E(3, 4), E(1, 4)>>

(* Files that are not Simple: parallel edges, equal nodes, one id twice,   *)
(* a node without all its data.                                            *)
Parallel  == FourNodes \o <<E(1, 2), E(1, 2), E(2, 4)>>
EqualData == <<N(1, "source"), N(2, "a"), N(3, "a"), N(4, "sink"), E(1, 2), E(2, 4), E(1, 3), E(3, 4)>>
EqualIds  == <<N(1, "source"), N(2, "a"), N(2, "b"), N(4, "sink"), E(1, 2), E(2, 4)>>
NoData    == <<N(1, "source"), [tag |-> "node", id |-> 2, data |-> MCNodes], N(4, "sink"), E(1, 2), E(2, 4)>>

(* Files that the constructor refuses or trips over. *)
TwoSources  == <<N(1, "source"), N(2, "source"), N(4, "sink"), E(1, 4)>>
NoSink      == <<N(1, "source"), N(2, "a"), E(1, 2)>>
UnknownKey  == <<N(1, "source"), [tag |-> "malformed"], N(4, "sink"), E(1, 4)>>
IdZero      == <<N(0, "source"), N(1, "sink"), E(0, 1)>>
MissingId   == <<N(1, "source"), N(2, "sink"), E(1, 3)>>
EdgeFirst   == <<E(1, 2), N(1, "source"), N(2, "sink")>>
Unconnected == FourNodes \o <<E(1, 2), E(3, 4)>>

MCFiles == {"diamond", "crossing", "dead ends", "parallel", "equal data", "equal ids", "no data",
  "two sources", "no sink", "unknown key", "id zero", "missing id", "edge first", "unconnected"}

MCContent == [f \in MCFiles |->
  CASE f = "diamond"     -> Diamond
    [] f = "crossing"    -> Crossing
    [] f = "dead ends"   -> DeadEnds
    [] f = "parallel"    -> Parallel
    [] f = "equal data"  -> EqualData
    [] f = "equal ids"   -> EqualIds
    [] f = "no data"     -> NoData
    [] f = "two sources" -> TwoSources
    [] f = "no sink"     -> NoSink
    [] f = "unknown key" -> UnknownKey
    [] f = "id zero"     -> IdZero
    [] f = "missing id"  -> MissingId
    [] f = "edge first"  -> EdgeFirst
    [] f = "unconnected" -> Unconnected]

MCSimpleFiles == {"diamond", "crossing", "dead ends"}

MCFileArcs == [f \in MCSimpleFiles |->
  CASE f = "diamond"   -> <<<<"source", "a">>, <<"source", "b">>, <<"a", "sink">>, <<"b", "sink">>>>
    [] f = "crossing"  -> <<<<"b", "sink">>, <<"a", "sink">>, <<"a", "b">>, <<"source", "a">>, <<"source", "b">>>>
    [] f = "dead ends" -> <<<<"source", "a">>, <<"b", "sink">>, <<"source", "sink">>>>]

ViaA  == <<<<"a", "sink">>, <<"source", "a">>>>
ViaB  == <<<<"b", "sink">>, <<"source", "b">>>>
ViaAB == <<<<"b", "sink">>, <<"a", "b">>, <<"source", "a">>>>

MCFilePaths == [f \in MCSimpleFiles |->
  CASE f = "diamond"   -> {ViaA, ViaB}
    [] f = "crossing"  -> {ViaA, ViaB, ViaAB}
    [] f = "dead ends" -> {<<<<"source", "sink">>>>}]

=============================================================================
