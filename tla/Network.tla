------------------------------- MODULE Network -------------------------------
(***************************************************************************)
(* Class Network: the constructor that reads a graph file, then calls of   *)
(* its methods in any order (one thread: what threads do to it is in       *)
(* ObjPricerGFCG).                                                         *)
(*                                                                         *)
(*   "reading"   in the constructor                                        *)
(*   "usable"    it has returned                                           *)
(*   "aborted"   ABORT_F                                                   *)
(*   "undefined" end() of a map or an invalid edge was dereferenced        *)
(*                                                                         *)
(* A file is a sequence of elements.  The seven data of a node are one     *)
(* value of Nodes; where some are missing the constructor leaves the       *)
(* variables uninitialized, and the element carries the set of the values  *)
(* that can come of it.  Vertices are numbered from 0, as boost does.      *)
(***************************************************************************)
EXTENDS Integers, Sequences, FiniteSets, Functions

CONSTANTS
  Nodes,
  SourceNodes,   \* k0 = 0, k1 = 0, k2 = -2, k3 = -1, k4 = 0, not k5
  SinkNodes,     \* the same with k2 = 35
  Files,         \* names of graph files
  Content,       \* file -> its elements
  SimpleFiles,   \* files in which each node has an id and data of its own, each edge a pair of nodes
  FileArcs,      \* simple file -> the arcs of its edges, in their order
  FilePaths,     \* simple file -> its paths, each a sequence of arcs from the sink back to the source
  Weights,       \* the arguments of set_edge_weight and add_to_edge_weight
  MaxWeight      \* bound: no weight of an edge exceeds it

NodeElement == [tag : {"node"}, id : Nat, data : (SUBSET Nodes) \ {{}}]
EdgeElement == [tag : {"edge"}, source : Nat, target : Nat]
Malformed   == [tag : {"malformed"}]   \* a key that is not key0 .. key6

ASSUME FileAssumption ==
  /\ SourceNodes \cup SinkNodes \subseteq Nodes
  /\ SourceNodes \cap SinkNodes = {}
  /\ Content \in [Files -> Seq(NodeElement \cup EdgeElement \cup Malformed)]
  /\ SimpleFiles \subseteq Files
  /\ FileArcs \in [SimpleFiles -> Seq(Nodes \X Nodes)]
  /\ FilePaths \in [SimpleFiles -> SUBSET Seq(Nodes \X Nodes)]

NodeCount(f) == Len(Content[f]) - Len(FileArcs[f])

IsNode(f, k, node) == Content[f][k].data = {node}

(* Nodes and then edges, no id or data twice, one source and one sink, and *)
(* a topological order, without which dag_shortest_paths is undefined.     *)
SimpleFile(f) ==
  LET c    == Content[f]
      ns   == 1 .. NodeCount(f)
      arcs == FileArcs[f]
  IN  /\ NodeCount(f) \in Nat
      /\ \A k \in ns : c[k] \in NodeElement /\ c[k].id # 0 /\ \E node \in Nodes : IsNode(f, k, node)
      /\ \A j, k \in ns : j # k => c[j].id # c[k].id /\ c[j].data # c[k].data
      /\ \E s, t \in ns : \A k \in ns : /\ c[k].data \subseteq SourceNodes <=> k = s
                                        /\ c[k].data \subseteq SinkNodes <=> k = t
      /\ \A k \in DOMAIN arcs : \E s, t \in ns :
           /\ IsNode(f, s, arcs[k][1]) /\ IsNode(f, t, arcs[k][2])
           /\ c[NodeCount(f) + k] = [tag |-> "edge", source |-> c[s].id, target |-> c[t].id]
      /\ \A j, k \in DOMAIN arcs : j # k => arcs[j] # arcs[k]
      /\ \E rank \in [ns -> ns] : \A k \in DOMAIN arcs, s, t \in ns :
           IsNode(f, s, arcs[k][1]) /\ IsNode(f, t, arcs[k][2]) => rank[s] < rank[t]

PathsOfArcs(f) ==
  {p \in UNION {[1 .. n -> Range(FileArcs[f])] : n \in 1 .. NodeCount(f)} :
     /\ p[1][2] \in SinkNodes
     /\ p[Len(p)][1] \in SourceNodes
     /\ \A k \in 1 .. Len(p) - 1 : p[k + 1][2] = p[k][1]}

ASSUME SimpleFileAssumption ==
  \A f \in SimpleFiles : SimpleFile(f) /\ FilePaths[f] = PathsOfArcs(f)

ASSUME WeightAssumption == Weights \subseteq Int /\ MaxWeight \in Nat

VARIABLES
  file,          \* constant
  next,          \* the element that is read next
  stage,
  num_vertices,
  id_map,        \* id -> [vertex, node]
  source,        \* a vertex, or NoVertex while has_source is false
  sink,
  edges,         \* boost's edges, in the order of add_edge
  arc_to_edge,
  edge_to_arc,
  weight,        \* boost::edge_weight of edges[k]
  fresh,         \* shortest_path_is_fresh_
  cached,        \* shortest_path_
  call,          \* the last call of a method and its arguments, as its caller sees it
  answer         \* what it returned

readVars  == <<file, next, num_vertices, id_map, source, sink>>
graphVars == <<edges, arc_to_edge, edge_to_arc>>
pathVars  == <<fresh, cached, call, answer>>
vars      == <<readVars, stage, graphVars, weight, pathVars>>

NoVertex == -1
NoAnswer == [length |-> 0, arcs |-> << >>]
NoCall   == [op |-> "none"]

Arc  == Nodes \X Nodes
Path == [length : Int, arcs : Seq(Arc)]
Call == [op : {"none", "reset", "shortest path"}] \cup [op : {"set", "add"}, arc : Arc, value : Int]

TypeOK ==
  /\ file \in Files
  /\ next \in 1 .. Len(Content[file]) + 1
  /\ stage \in {"reading", "usable", "aborted", "undefined"}
  /\ num_vertices \in Nat
  /\ \A id \in DOMAIN id_map : id_map[id] \in [vertex : 0 .. num_vertices - 1, node : Nodes]
  /\ {source, sink} \subseteq {NoVertex} \cup 0 .. num_vertices - 1
  /\ edges \in Seq((0 .. num_vertices - 1) \X (0 .. num_vertices - 1))
  /\ DOMAIN arc_to_edge \subseteq Arc
  /\ DOMAIN edge_to_arc = Range(edges)
  /\ Range(arc_to_edge) \subseteq Range(edges)
  /\ Range(edge_to_arc) \subseteq Arc
  /\ weight \in [DOMAIN edges -> -MaxWeight .. MaxWeight]
  /\ fresh \in BOOLEAN
  /\ cached \in Path
  /\ call \in Call
  /\ answer \in Path

Init ==
  /\ file \in Files
  /\ next = 1
  /\ stage = "reading"
  /\ num_vertices = 0
  /\ id_map = << >>
  /\ source = NoVertex
  /\ sink = NoVertex
  /\ edges = << >>
  /\ arc_to_edge = << >>
  /\ edge_to_arc = << >>
  /\ weight = << >>
  /\ fresh = FALSE
  /\ cached = NoAnswer
  /\ call = NoCall
  /\ answer = NoAnswer

-----------------------------------------------------------------------------
(* The constructor *)

Element == Content[file][next]

Reading(tag) ==
  /\ stage = "reading"
  /\ next <= Len(Content[file])
  /\ Element.tag = tag

(* std::map::insert and unordered_map::insert: the first value stays. *)
Insert(map, key, value) ==
  [k \in DOMAIN map \cup {key} |-> IF k \in DOMAIN map THEN map[k] ELSE value]

(* Mutant: of two source vertices the last is taken. *)
IsSecondSink(node) == node \in SinkNodes /\ sink # NoVertex

IsSecondEnd(node) ==
  \/ node \in SourceNodes /\ source # NoVertex
  \/ node \in SinkNodes /\ sink # NoVertex

(* Mutant: vertices are counted from 1. *)
ReadNodeCountedFromOne ==
  /\ Reading("node")
  /\ \E node \in Element.data :
       /\ id_map' = Insert(id_map, Element.id, [vertex |-> num_vertices + 1, node |-> node])
       /\ IF IsSecondEnd(node)
          THEN stage' = "aborted" /\ UNCHANGED <<source, sink>>
          ELSE /\ source' = IF node \in SourceNodes THEN num_vertices ELSE source
               /\ sink' = IF node \in SinkNodes THEN num_vertices ELSE sink
               /\ UNCHANGED stage
  /\ num_vertices' = num_vertices + 1
  /\ next' = next + 1
  /\ UNCHANGED <<file, graphVars, weight, pathVars>>

ReadNode ==
  /\ Reading("node")
  /\ \E node \in Element.data :
       /\ id_map' = Insert(id_map, Element.id, [vertex |-> num_vertices, node |-> node])
       /\ IF IsSecondEnd(node)
          THEN stage' = "aborted" /\ UNCHANGED <<source, sink>>
          ELSE /\ source' = IF node \in SourceNodes THEN num_vertices ELSE source
               /\ sink' = IF node \in SinkNodes THEN num_vertices ELSE sink
               /\ UNCHANGED stage
  /\ num_vertices' = num_vertices + 1
  /\ next' = next + 1
  /\ UNCHANGED <<file, graphVars, weight, pathVars>>

(* "if (!source_res->first)": what is tested is the id, not the iterator.  *)
Found(id) == id \in DOMAIN id_map \ {0}

AddEdge(s, t) ==
  LET e == <<s.vertex, t.vertex>>
      arc == <<s.node, t.node>>
  IN  /\ edges' = Append(edges, e)
      /\ weight' = Append(weight, 0)
      /\ arc_to_edge' = Insert(arc_to_edge, arc, e)
      /\ edge_to_arc' = Insert(edge_to_arc, e, arc)

ReadEdge ==
  /\ Reading("edge")
  /\ Found(Element.source)
  /\ Found(Element.target)
  /\ AddEdge(id_map[Element.source], id_map[Element.target])
  /\ next' = next + 1
  /\ UNCHANGED <<file, num_vertices, id_map, source, sink, stage, pathVars>>

(* An id 0 that is there aborts, one that is not there is end().           *)
EdgeWithoutNode ==
  /\ Reading("edge")
  /\ LET s == Element.source
         id == IF Found(s) THEN Element.target ELSE s
     IN  /\ ~Found(id)
         /\ stage' = IF id \in DOMAIN id_map THEN "aborted" ELSE "undefined"
  /\ UNCHANGED <<readVars, graphVars, weight, pathVars>>

ReadMalformed ==
  /\ Reading("malformed")
  /\ stage' = "aborted"
  /\ UNCHANGED <<readVars, graphVars, weight, pathVars>>

FileRead ==
  /\ stage = "reading"
  /\ next = Len(Content[file]) + 1
  /\ stage' = IF NoVertex \in {source, sink} THEN "aborted" ELSE "usable"
  /\ UNCHANGED <<readVars, graphVars, weight, pathVars>>

-----------------------------------------------------------------------------
(* The weights *)

(* boost::edge gives the first of parallel edges. *)
EdgeOf(arc) ==
  CHOOSE k \in DOMAIN edges :
    /\ edges[k] = arc_to_edge[arc]
    /\ \A j \in DOMAIN edges : edges[j] = arc_to_edge[arc] => k <= j

ResetEdgeWeights ==
  /\ stage = "usable"
  /\ call' = [op |-> "reset"]
  /\ fresh' = FALSE
  /\ weight' = [k \in DOMAIN edges |-> 0]
  /\ answer' = NoAnswer
  /\ UNCHANGED <<readVars, stage, graphVars, cached>>

(* Mutant: shortest_path_is_fresh_ is not cleared. *)
PutWeightSilently(arc, w) ==
  /\ stage = "usable"
  /\ w \in -MaxWeight .. MaxWeight
  /\ weight' = [weight EXCEPT ![EdgeOf(arc)] = w]
  /\ answer' = NoAnswer
  /\ UNCHANGED <<readVars, stage, graphVars, fresh, cached>>

PutWeight(arc, w) ==
  /\ stage = "usable"
  /\ w \in -MaxWeight .. MaxWeight
  /\ fresh' = FALSE
  /\ weight' = [weight EXCEPT ![EdgeOf(arc)] = w]
  /\ answer' = NoAnswer
  /\ UNCHANGED <<readVars, stage, graphVars, cached>>

SetEdgeWeight(arc, w) ==
  /\ call' = [op |-> "set", arc |-> arc, value |-> w]
  /\ PutWeight(arc, w)

AddToEdgeWeight(arc, w) ==
  /\ call' = [op |-> "add", arc |-> arc, value |-> w]
  /\ PutWeight(arc, weight[EdgeOf(arc)] + w)

(* Both, and get_edge_weight, abort if the network does not have the arc.  *)
ForeignArc ==
  /\ stage = "usable"
  /\ stage' = "aborted"
  /\ UNCHANGED <<readVars, graphVars, weight, pathVars>>

-----------------------------------------------------------------------------
(* shortest_path *)

(* Sequences of edges that lead from the source to the sink, listed from   *)
(* the sink back as the loop over the predecessors does.                   *)
SinkWalks ==
  {w \in UNION {[1 .. n -> DOMAIN edges] : n \in 1 .. num_vertices} :
     /\ edges[w[1]][2] = sink
     /\ edges[w[Len(w)]][1] = source
     /\ \A k \in 1 .. Len(w) - 1 : edges[w[k + 1]][2] = edges[w[k]][1]}

WalkLength(w) == SumFunction([k \in DOMAIN w |-> weight[w[k]]])

(* What dag_shortest_paths puts into d_map and pred. *)
ShortestWalks ==
  LET walks == SinkWalks
      length == [w \in walks |-> WalkLength(w)]
  IN  {w \in walks : \A v \in walks : length[w] <= length[v]}

PathOf(w) == [length |-> WalkLength(w), arcs |-> [k \in DOMAIN w |-> edge_to_arc[edges[w[k]]]]]

ShortestPath ==
  /\ stage = "usable"
  /\ call' = [op |-> "shortest path"]
  /\ IF fresh
     THEN answer' = cached /\ UNCHANGED <<fresh, cached>>
     ELSE /\ \E w \in ShortestWalks : answer' = PathOf(w)
          /\ cached' = answer'
          /\ fresh' = TRUE
  /\ UNCHANGED <<readVars, stage, graphVars, weight>>

(* The sink is its own predecessor: "assert(result.second)", or the use of *)
(* an edge that is none.                                                   *)
SinkNotReached ==
  /\ stage = "usable"
  /\ ~fresh
  /\ SinkWalks = {}
  /\ stage' \in {"aborted", "undefined"}
  /\ UNCHANGED <<readVars, graphVars, weight, pathVars>>

-----------------------------------------------------------------------------

Constructor == ReadNode \/ ReadEdge \/ EdgeWithoutNode \/ ReadMalformed \/ FileRead

Method ==
  \/ ResetEdgeWeights
  \/ \E arc \in DOMAIN arc_to_edge, w \in Weights : SetEdgeWeight(arc, w) \/ AddToEdgeWeight(arc, w)
  \/ ForeignArc
  \/ ShortestPath
  \/ SinkNotReached

Stopped == stage \in {"aborted", "undefined"} /\ UNCHANGED vars

Next == Constructor \/ Method \/ Stopped

Spec == Init /\ [][Next]_vars

-----------------------------------------------------------------------------
(* Properties *)

IndexOfArc(a) == CHOOSE k \in DOMAIN FileArcs[file] : FileArcs[file][k] = a

Answered == stage # "reading" /\ file \in SimpleFiles /\ next = Len(Content[file]) + 1

(* The reader, the maps between arcs and edges, the graph and the cache    *)
(* implement a set of weighted paths: shortest_path always gives a         *)
(* shortest path under the weights that were set for the arcs, and         *)
(* "shortest path arc list begins at the target node" (test_network.cpp).  *)
Abstract == INSTANCE WeightedPaths WITH
  paths <- IF Answered THEN FilePaths[file] ELSE {},
  weight <- IF Answered THEN [a \in Range(FileArcs[file]) |-> weight[IndexOfArc(a)]] ELSE << >>,
  call <- IF Answered THEN call ELSE NoCall,
  answer <- IF Answered THEN answer ELSE NoAnswer

ImplementsWeightedPaths == Abstract!Spec

NodeElements == {k \in DOMAIN Content[file] : Content[file][k].tag = "node"}

NodesWith(nodes) == {k \in NodeElements : Content[file][k].data \subseteq nodes}

(* "Graph contains more than one source vertex", "... sink vertex": in a   *)
(* file with complete data, a usable network starts and ends at the only   *)
(* nodes that are recognised as source and sink.                           *)
EndsAreUnique ==
  stage = "usable" /\ (\A k \in NodeElements : \E node \in Nodes : IsNode(file, k, node)) =>
    /\ Cardinality(NodesWith(SourceNodes)) = 1
    /\ Cardinality(NodesWith(SinkNodes)) = 1
    /\ source # sink

=============================================================================
