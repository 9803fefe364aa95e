----------------------------- MODULE Network_proofs -----------------------------
(***************************************************************************)
(* Theorems about class Network, for every graph file and any sequence of  *)
(* calls.                                                                  *)
(***************************************************************************)
EXTENDS Network, Sums_proofs

-----------------------------------------------------------------------------
(* Types *)

LEMMA InsertFacts ==
  ASSUME NEW map, NEW key, NEW value
  PROVE  /\ DOMAIN Insert(map, key, value) = DOMAIN map \cup {key}
         /\ \A k \in DOMAIN map : Insert(map, key, value)[k] = map[k]
         /\ key \notin DOMAIN map => Insert(map, key, value)[key] = value
         /\ \A k \in DOMAIN map \cup {key} :
              k \in DOMAIN map \/ (k = key /\ Insert(map, key, value)[k] = value)
BY DEF Insert

LEMMA InsertRange ==
  ASSUME NEW map, NEW key, NEW value, NEW S, Range(map) \subseteq S, value \in S
  PROVE  Range(Insert(map, key, value)) \subseteq S
BY DEF Insert, Range

LEMMA ElementType ==
  ASSUME file \in Files, next \in 1 .. Len(Content[file])
  PROVE  Element \in NodeElement \cup EdgeElement \cup Malformed
<1>1. Content[file] \in Seq(NodeElement \cup EdgeElement \cup Malformed)
  BY FileAssumption
<1> HIDE DEF NodeElement, EdgeElement, Malformed
<1> QED
  BY <1>1 DEF Element

LEMMA ReadingNode ==
  ASSUME TypeOK, Reading("node")
  PROVE  /\ next \in 1 .. Len(Content[file])
         /\ Element.id \in Nat
         /\ Element.data \subseteq Nodes
         /\ Element.data # {}
<1>1. next \in 1 .. Len(Content[file])
  BY DEF TypeOK, Reading
<1>2. Element \in NodeElement \cup EdgeElement \cup Malformed
  BY <1>1, ElementType DEF TypeOK
<1> QED
  BY <1>1, <1>2 DEF Reading, NodeElement, EdgeElement, Malformed

LEMMA ReadNodeType == ASSUME TypeOK, ReadNode PROVE TypeOK'
<1>1. PICK node \in Element.data :
        /\ id_map' = Insert(id_map, Element.id, [vertex |-> num_vertices, node |-> node])
        /\ IF IsSecondEnd(node)
           THEN stage' = "aborted" /\ UNCHANGED <<source, sink>>
           ELSE /\ source' = IF node \in SourceNodes THEN num_vertices ELSE source
                /\ sink' = IF node \in SinkNodes THEN num_vertices ELSE sink
                /\ UNCHANGED stage
  BY DEF ReadNode
<1>2. /\ node \in Nodes /\ next \in 1 .. Len(Content[file])
      /\ stage = "reading"
  BY <1>1, ReadingNode DEF ReadNode, Reading
<1>3. /\ num_vertices' = num_vertices + 1 /\ next' = next + 1 /\ file' = file
      /\ UNCHANGED <<edges, arc_to_edge, edge_to_arc, weight, fresh, cached, call, answer>>
  BY DEF ReadNode, graphVars, pathVars
<1>4. /\ num_vertices \in Nat /\ {source, sink} \subseteq {NoVertex} \cup 0 .. num_vertices - 1
      /\ edges \in Seq((0 .. num_vertices - 1) \X (0 .. num_vertices - 1))
      /\ \A id \in DOMAIN id_map : id_map[id] \in [vertex : 0 .. num_vertices - 1, node : Nodes]
  BY DEF TypeOK
<1>5. 0 .. num_vertices - 1 \subseteq 0 .. num_vertices' - 1 /\ num_vertices \in 0 .. num_vertices' - 1
  BY <1>3, <1>4
<1>6. \A id \in DOMAIN id_map' : id_map'[id] \in [vertex : 0 .. num_vertices' - 1, node : Nodes]
  <2>1. ASSUME NEW id \in DOMAIN id_map'
        PROVE  id_map'[id] \in [vertex : 0 .. num_vertices' - 1, node : Nodes]
    <3>1. \/ id \in DOMAIN id_map /\ id_map'[id] = id_map[id]
          \/ id_map'[id] = [vertex |-> num_vertices, node |-> node]
      BY <1>1, <2>1 DEF Insert
    <3> QED
      BY <1>2, <1>4, <1>5, <3>1
  <2> QED
    BY <2>1
<1>7. edges' \in Seq((0 .. num_vertices' - 1) \X (0 .. num_vertices' - 1))
  BY <1>3, <1>4, <1>5
<1>8. {source', sink'} \subseteq {NoVertex} \cup 0 .. num_vertices' - 1
  BY <1>1, <1>4, <1>5
<1>9. next' \in 1 .. Len(Content[file']) + 1 /\ num_vertices' \in Nat
  BY <1>2, <1>3, <1>4
<1>10. stage' \in {"reading", "usable", "aborted", "undefined"}
  BY <1>1, <1>2
<1> QED
  BY <1>3, <1>6, <1>7, <1>8, <1>9, <1>10 DEF TypeOK

LEMMA ReadEdgeType == ASSUME TypeOK, ReadEdge PROVE TypeOK'
<1> DEFINE s == id_map[Element.source]
           t == id_map[Element.target]
           e == <<s.vertex, t.vertex>>
           arc == <<s.node, t.node>>
           V == 0 .. num_vertices - 1
<1>1. /\ next \in 1 .. Len(Content[file]) /\ stage = "reading"
      /\ edges' = Append(edges, e)
      /\ weight' = Append(weight, 0)
      /\ arc_to_edge' = Insert(arc_to_edge, arc, e)
      /\ edge_to_arc' = Insert(edge_to_arc, e, arc)
      /\ next' = next + 1
      /\ UNCHANGED <<file, num_vertices, id_map, source, sink, stage, fresh, cached, call, answer>>
  BY DEF ReadEdge, Reading, AddEdge, TypeOK, pathVars
<1>2. s \in [vertex : V, node : Nodes] /\ t \in [vertex : V, node : Nodes]
  BY DEF TypeOK, ReadEdge, Found
<1>3. e \in V \X V /\ arc \in Arc
  BY <1>2 DEF Arc
<1> HIDE DEF e, arc, s, t
<1>4. edges \in Seq(V \X V) /\ weight \in [DOMAIN edges -> -MaxWeight .. MaxWeight]
  BY DEF TypeOK
<1> HIDE DEF V
<1>5. /\ edges' \in Seq(V \X V)
      /\ Len(edges') = Len(edges) + 1 /\ Len(edges) \in Nat
      /\ DOMAIN edges = 1 .. Len(edges) /\ DOMAIN edges' = 1 .. Len(edges')
      /\ \A k \in DOMAIN edges : edges'[k] = edges[k]
      /\ edges'[Len(edges')] = e
  BY <1>1, <1>3, <1>4
<1>6. Range(edges') = Range(edges) \cup {e}
  BY <1>5, SMTT(30) DEF Range
<1>7. weight' \in [DOMAIN edges' -> -MaxWeight .. MaxWeight]
  <2>1. MaxWeight \in Nat
    BY WeightAssumption
  <2> DEFINE W == -MaxWeight .. MaxWeight
             n == Len(edges)
  <2>2. 0 \in W
    BY <2>1
  <2>3. weight \in [1 .. n -> W] /\ n \in Nat
    BY <1>4, <1>5
  <2> HIDE DEF W, n
  <2>4. weight \in Seq(W) /\ Len(weight) = n
    BY <2>3
  <2>5. weight' \in Seq(W) /\ Len(weight') = n + 1
    BY <1>1, <2>2, <2>3, <2>4
  <2>6. weight' \in [1 .. Len(edges') -> W]
    BY <1>5, <2>5 DEF n
  <2> QED
    BY <1>5, <2>6 DEF W
<1>8. DOMAIN arc_to_edge' \subseteq Arc /\ DOMAIN edge_to_arc' = Range(edges')
  <2>1. DOMAIN arc_to_edge' = DOMAIN arc_to_edge \cup {arc}
    BY <1>1 DEF Insert
  <2>2. DOMAIN edge_to_arc' = DOMAIN edge_to_arc \cup {e}
    BY <1>1 DEF Insert
  <2> QED
    BY <1>3, <1>6, <2>1, <2>2 DEF TypeOK
<1>9. Range(arc_to_edge') \subseteq Range(edges')
  BY <1>1, <1>6, InsertRange DEF TypeOK
<1>10. Range(edge_to_arc') \subseteq Arc
  BY <1>1, <1>3, InsertRange DEF TypeOK
<1>11. next' \in 1 .. Len(Content[file']) + 1
  BY <1>1
<1> QED
  BY <1>1, <1>5, <1>7, <1>8, <1>9, <1>10, <1>11 DEF TypeOK, V

LEMMA WalkType ==
  ASSUME TypeOK, NEW w \in SinkWalks
  PROVE  /\ PathOf(w) \in Path
         /\ \E n \in 1 .. num_vertices : w \in [1 .. n -> DOMAIN edges]
<1>1. PICK n \in 1 .. num_vertices : w \in [1 .. n -> DOMAIN edges]
  BY DEF SinkWalks
<1>2. n \in Nat
  BY <1>1 DEF TypeOK
<1>3. WalkLength(w) \in Int
  <2> DEFINE f == [k \in DOMAIN w |-> weight[w[k]]]
  <2>1. weight \in [DOMAIN edges -> Int]
    BY WeightAssumption DEF TypeOK
  <2>2. f \in [1 .. n -> Int]
    BY <1>1, <2>1
  <2>3. IsFiniteSet(1 .. n)
    BY <1>2, FS_Interval
  <2> HIDE DEF f
  <2>4. SumFunction(f) \in Int
    BY <2>2, <2>3, SumInt
  <2> QED
    BY <2>4 DEF WalkLength, f
<1>4. [k \in DOMAIN w |-> edge_to_arc[edges[w[k]]]] \in Seq(Arc)
  <2>1. \A k \in 1 .. n : edge_to_arc[edges[w[k]]] \in Arc
    BY <1>1, ZenonT(40) DEF TypeOK, Range
  <2>2. DOMAIN w = 1 .. n
    BY <1>1
  <2> QED
    BY <1>2, <2>1, <2>2
<1> QED
  BY <1>1, <1>3, <1>4 DEF PathOf, Path

LEMMA StepType == ASSUME TypeOK, [Next]_vars PROVE TypeOK'
<1>1. CASE ReadNode
  BY <1>1, ReadNodeType
<1>2. CASE ReadEdge
  BY <1>2, ReadEdgeType
<1>3. ASSUME UNCHANGED <<readVars, graphVars, weight, pathVars>>,
             stage' \in {"reading", "usable", "aborted", "undefined"}
      PROVE  TypeOK'
  BY <1>3 DEF TypeOK, readVars, graphVars, pathVars
<1>4. CASE EdgeWithoutNode \/ ReadMalformed \/ FileRead \/ ForeignArc \/ SinkNotReached
  BY <1>3, <1>4 DEF EdgeWithoutNode, ReadMalformed, FileRead, ForeignArc, SinkNotReached
<1>5. CASE Stopped \/ UNCHANGED vars
  BY <1>3, <1>5 DEF Stopped, vars, TypeOK
<1>6. CASE ResetEdgeWeights
  <2>1. weight' \in [DOMAIN edges -> -MaxWeight .. MaxWeight]
    BY <1>6, WeightAssumption DEF ResetEdgeWeights
  <2>2. answer' \in Path
    BY <1>6 DEF ResetEdgeWeights, NoAnswer, Path
  <2>3. call' \in Call
    BY <1>6 DEF ResetEdgeWeights, Call
  <2> QED
    BY <1>6, <2>1, <2>2, <2>3 DEF ResetEdgeWeights, TypeOK, readVars, graphVars
<1>7. ASSUME NEW arc \in DOMAIN arc_to_edge, NEW w \in Weights,
             SetEdgeWeight(arc, w) \/ AddToEdgeWeight(arc, w)
      PROVE  TypeOK'
  <2>1. PICK v : PutWeight(arc, v)
    BY <1>7 DEF SetEdgeWeight, AddToEdgeWeight
  <2>2. weight' \in [DOMAIN edges -> -MaxWeight .. MaxWeight]
    BY <2>1 DEF PutWeight, TypeOK
  <2>3. answer' \in Path
    BY <2>1 DEF PutWeight, NoAnswer, Path
  <2>4. call' \in Call
    <3>1. arc \in Arc /\ w \in Int
      BY WeightAssumption DEF TypeOK
    <3>2. PICK name \in {"set", "add"} : call' = [op |-> name, arc |-> arc, value |-> w]
      BY <1>7 DEF SetEdgeWeight, AddToEdgeWeight
    <3>3. call' \in [op : {"set", "add"}, arc : Arc, value : Int]
      BY <3>1, <3>2
    <3> QED
      BY <3>3 DEF Call
  <2> QED
    BY <2>1, <2>2, <2>3, <2>4 DEF PutWeight, TypeOK, readVars, graphVars
<1>8. CASE ShortestPath
  <2>1. answer' \in Path /\ cached' \in Path /\ fresh' \in BOOLEAN
    <3>1. CASE fresh
      BY <1>8, <3>1 DEF ShortestPath, TypeOK
    <3>2. CASE ~fresh
      BY <1>8, <3>2, WalkType DEF ShortestPath, ShortestWalks
    <3> QED
      BY <3>1, <3>2
  <2>2. call' \in Call
    BY <1>8 DEF ShortestPath, Call
  <2> QED
    BY <1>8, <2>1, <2>2 DEF ShortestPath, TypeOK, readVars, graphVars
<1> QED
  BY <1>1, <1>2, <1>4, <1>5, <1>6, <1>7, <1>8 DEF Next, Constructor, Method

LEMMA InitType == ASSUME Init PROVE TypeOK
<1>1. Content[file] \in Seq(NodeElement \cup EdgeElement \cup Malformed)
  BY FileAssumption DEF Init
<1>2. Len(Content[file]) \in Nat
  BY <1>1
<1>3. MaxWeight \in Nat
  BY WeightAssumption
<1>4. /\ 1 \in 1 .. Len(Content[file]) + 1
      /\ NoAnswer \in Path /\ NoCall \in Call
  BY <1>2 DEF NoAnswer, Path, NoCall, Call
<1>5. ASSUME NEW S
      PROVE  << >> \in Seq(S)
  OBVIOUS
<1>6. ASSUME NEW S
      PROVE  << >> \in [DOMAIN << >> -> S]
  OBVIOUS
<1>7. DOMAIN << >> = {} /\ Range(<< >>) = {}
  BY DEF Range
<1>8. num_vertices \in Nat
  BY DEF Init
<1> QED
  BY <1>4, <1>5, <1>6, <1>7, <1>8 DEF Init, TypeOK

(* The maps of a Network, its graph and its cache keep their types,        *)
(* whatever the file holds and whatever is called.                         *)
THEOREM TypeCorrect == Spec => []TypeOK
BY InitType, StepType, PTL DEF Spec

-----------------------------------------------------------------------------
(* The ends *)

CompleteData == \A k \in NodeElements : \E node \in Nodes : IsNode(file, k, node)

(* Of the nodes that are one of the two ends, the first n - 1 elements of  *)
(* the file have none, or one.                                             *)
SeenEnd(v, nodes, n) ==
  IF v = NoVertex
  THEN \A k \in nodes : k >= n
  ELSE \E first \in nodes :
         /\ first < n
         /\ \A k \in nodes : k < n => k = first

EndsInv ==
  /\ stage \in {"reading", "usable"} /\ CompleteData =>
       /\ SeenEnd(source, NodesWith(SourceNodes), next)
       /\ SeenEnd(sink, NodesWith(SinkNodes), next)
  /\ source # NoVertex => source # sink
  /\ stage = "usable" => next = Len(Content[file]) + 1 /\ NoVertex \notin {source, sink}

LEMMA NodeIndices ==
  ASSUME TypeOK, NEW k \in NodeElements
  PROVE  k \in 1 .. Len(Content[file])
<1>1. Content[file] \in Seq(NodeElement \cup EdgeElement \cup Malformed)
  BY FileAssumption DEF TypeOK
<1> QED
  BY <1>1 DEF NodeElements

(* One node later. *)
LEMMA SeenOneMore ==
  ASSUME TypeOK, Reading("node"), CompleteData, NEW nodes, NEW node \in Element.data,
         NEW v, SeenEnd(v, NodesWith(nodes), next),
         ~(node \in nodes /\ v # NoVertex)
  PROVE  SeenEnd(IF node \in nodes THEN num_vertices ELSE v, NodesWith(nodes), next + 1)
<1>1. /\ next \in 1 .. Len(Content[file])
      /\ num_vertices \in Nat /\ num_vertices # NoVertex
      /\ Element.tag = "node"
  BY ReadingNode DEF Reading, TypeOK, NoVertex
<1>2. Content[file] \in Seq(NodeElement \cup EdgeElement \cup Malformed)
  BY FileAssumption DEF TypeOK
<1>3. next \in NodeElements /\ Content[file][next].data = {node}
  BY <1>1, <1>2 DEF CompleteData, NodeElements, IsNode, Element
<1> DEFINE S == NodesWith(nodes)
<1>4. next \in S <=> node \in nodes
  BY <1>3 DEF NodesWith
<1>5. \A k \in S : k \in Int /\ (k < next + 1 <=> k < next \/ k = next) /\ (k >= next + 1 <=> k >= next /\ k # next)
  BY <1>1, NodeIndices DEF NodesWith
<1> HIDE DEF S
<1>6. CASE node \in nodes
  <2>1. v = NoVertex
    BY <1>6
  <2>2. \A k \in S : k < next + 1 => k = next
    BY <1>1, <1>5, <2>1 DEF SeenEnd, S
  <2>3. next \in S /\ next < next + 1
    BY <1>1, <1>4, <1>6
  <2>4. SeenEnd(num_vertices, S, next + 1)
    BY <1>1, <2>2, <2>3 DEF SeenEnd
  <2> QED
    BY <1>6, <2>4 DEF S
<1>7. CASE node \notin nodes
  <2>1. next \notin S /\ SeenEnd(v, S, next)
    BY <1>4, <1>7 DEF S
  <2>2. SeenEnd(v, S, next + 1)
    BY <1>5, <2>1 DEF SeenEnd
  <2> QED
    BY <1>7, <2>2 DEF S
<1> QED
  BY <1>6, <1>7

LEMMA ReadNodeEnds == ASSUME TypeOK, EndsInv, ReadNode PROVE EndsInv'
<1>1. PICK node \in Element.data :
        IF IsSecondEnd(node)
        THEN stage' = "aborted" /\ UNCHANGED <<source, sink>>
        ELSE /\ source' = IF node \in SourceNodes THEN num_vertices ELSE source
             /\ sink' = IF node \in SinkNodes THEN num_vertices ELSE sink
             /\ UNCHANGED stage
  BY DEF ReadNode
<1>2. stage = "reading" /\ num_vertices \in Nat
  BY DEF ReadNode, Reading, TypeOK
<1>3. {source, sink} \subseteq {NoVertex} \cup 0 .. num_vertices - 1
  BY DEF TypeOK
<1>4. CompleteData' = CompleteData
  BY DEF ReadNode, CompleteData, NodeElements
<1>5. CASE IsSecondEnd(node)
  BY <1>1, <1>5 DEF EndsInv
<1>6. CASE ~IsSecondEnd(node)
  <2>1. source' # NoVertex => source' # sink'
    BY <1>1, <1>2, <1>3, <1>6, FileAssumption DEF EndsInv, NoVertex
  <2>2. stage' = "reading"
    BY <1>1, <1>2, <1>6
  <2>3. ASSUME CompleteData
        PROVE  /\ SeenEnd(source', NodesWith(SourceNodes), next + 1)
               /\ SeenEnd(sink', NodesWith(SinkNodes), next + 1)
    <3>1. SeenEnd(source, NodesWith(SourceNodes), next) /\ SeenEnd(sink, NodesWith(SinkNodes), next)
      BY <1>2, <2>3 DEF EndsInv
    <3>2. /\ ~(node \in SourceNodes /\ source # NoVertex)
          /\ ~(node \in SinkNodes /\ sink # NoVertex)
      BY <1>6 DEF IsSecondEnd
    <3>3. Reading("node")
      BY DEF ReadNode
    <3>4. SeenEnd(IF node \in SourceNodes THEN num_vertices ELSE source, NodesWith(SourceNodes), next + 1)
      BY <2>3, <3>1, <3>2, <3>3, SeenOneMore
    <3>5. SeenEnd(IF node \in SinkNodes THEN num_vertices ELSE sink, NodesWith(SinkNodes), next + 1)
      BY <2>3, <3>1, <3>2, <3>3, SeenOneMore
    <3> QED
      BY <1>1, <1>6, <3>4, <3>5
  <2>4. /\ next' = next + 1
        /\ NodesWith(SourceNodes)' = NodesWith(SourceNodes)
        /\ NodesWith(SinkNodes)' = NodesWith(SinkNodes)
    BY DEF ReadNode, NodesWith, NodeElements
  <2> QED
    BY <1>4, <2>1, <2>2, <2>3, <2>4 DEF EndsInv
<1> QED
  BY <1>5, <1>6

(* Any other element of the file is no node. *)
LEMMA ReadEdgeEnds == ASSUME TypeOK, EndsInv, ReadEdge PROVE EndsInv'
<1>1. /\ next' = next + 1 /\ next \in 1 .. Len(Content[file]) /\ Element.tag = "edge"
      /\ stage = "reading"
      /\ UNCHANGED <<file, source, sink, stage>>
  BY DEF ReadEdge, Reading, TypeOK
<1>2. next \notin NodeElements
  BY <1>1 DEF NodeElements, Element
<1>3. \A nodes : NodesWith(nodes)' = NodesWith(nodes)
  BY <1>1 DEF NodesWith, NodeElements
<1>4. CompleteData' = CompleteData
  BY <1>1 DEF CompleteData, NodeElements
<1>5. ASSUME NEW nodes, NEW v, SeenEnd(v, NodesWith(nodes), next)
      PROVE  SeenEnd(v, NodesWith(nodes), next + 1)
  <2> DEFINE S == NodesWith(nodes)
  <2>1. next \notin S
    BY <1>2 DEF NodesWith
  <2>2. \A k \in S : k \in Int
    BY NodeIndices DEF NodesWith
  <2> HIDE DEF S
  <2>3. SeenEnd(v, S, next)
    BY <1>5 DEF S
  <2>4. next \in Int
    BY <1>1
  <2>5. \A k \in S : (k < next + 1 <=> k < next) /\ (k >= next + 1 <=> k >= next)
    BY <2>1, <2>2, <2>4
  <2>6. SeenEnd(v, S, next + 1)
    BY <2>3, <2>5 DEF SeenEnd
  <2> QED
    BY <2>6 DEF S
<1> QED
  BY <1>1, <1>3, <1>4, <1>5 DEF EndsInv

LEMMA StepEnds == ASSUME TypeOK, EndsInv, [Next]_vars PROVE EndsInv'
<1>1. CASE ReadNode
  BY <1>1, ReadNodeEnds
<1>2. CASE ReadEdge
  BY <1>2, ReadEdgeEnds
<1>3. ASSUME UNCHANGED readVars
      PROVE  /\ CompleteData' = CompleteData
             /\ NodesWith(SourceNodes)' = NodesWith(SourceNodes)
             /\ NodesWith(SinkNodes)' = NodesWith(SinkNodes)
             /\ next' = next /\ file' = file /\ source' = source /\ sink' = sink
  BY <1>3 DEF readVars, CompleteData, NodesWith, NodeElements
<1>4. CASE /\ UNCHANGED readVars
           /\ stage' = stage \/ stage' \in {"aborted", "undefined"}
  BY <1>3, <1>4 DEF EndsInv
<1>5. CASE FileRead
  BY <1>3, <1>5 DEF FileRead, EndsInv
<1>6. CASE EdgeWithoutNode \/ ReadMalformed \/ ForeignArc \/ SinkNotReached \/ Stopped \/ UNCHANGED vars
  BY <1>4, <1>6
     DEF EdgeWithoutNode, ReadMalformed, ForeignArc, SinkNotReached, Stopped, vars, readVars
<1>7. CASE ResetEdgeWeights \/ ShortestPath
  BY <1>4, <1>7 DEF ResetEdgeWeights, ShortestPath
<1>8. ASSUME NEW arc, NEW w, PutWeight(arc, w)
      PROVE  EndsInv'
  BY <1>4, <1>8 DEF PutWeight
<1> QED
  BY <1>1, <1>2, <1>5, <1>6, <1>7, <1>8
     DEF Next, Constructor, Method, SetEdgeWeight, AddToEdgeWeight

LEMMA InitEnds == ASSUME Init PROVE EndsInv
<1>1. TypeOK
  BY InitType
<1>2. \A nodes : \A k \in NodesWith(nodes) : k >= 1
  BY <1>1, NodeIndices DEF NodesWith
<1> QED
  BY <1>2 DEF Init, EndsInv, SeenEnd

LEMMA OneEnd ==
  ASSUME TypeOK, NEW nodes, NEW v, v # NoVertex,
         SeenEnd(v, NodesWith(nodes), Len(Content[file]) + 1)
  PROVE  Cardinality(NodesWith(nodes)) = 1
<1>1. PICK first \in NodesWith(nodes) :
        \A k \in NodesWith(nodes) : k < Len(Content[file]) + 1 => k = first
  BY DEF SeenEnd
<1>2. \A k \in NodesWith(nodes) : k < Len(Content[file]) + 1
  BY NodeIndices DEF NodesWith
<1>3. NodesWith(nodes) = {first}
  BY <1>1, <1>2
<1> QED
  BY <1>3, FS_Singleton

(* A usable network has one source and one sink, and in a file with        *)
(* complete data they are the only nodes with the data of an end: the two  *)
(* flags of the constructor catch every second one.                        *)
THEOREM EndsStayUnique == Spec => []EndsAreUnique
<1>1. Init => EndsInv
  BY InitEnds
<1>2. TypeOK /\ EndsInv /\ [Next]_vars => EndsInv'
  BY StepEnds
<1>3. TypeOK /\ EndsInv => EndsAreUnique
  <2> SUFFICES ASSUME TypeOK, EndsInv, stage = "usable"
               PROVE  /\ source # sink
                      /\ CompleteData => /\ Cardinality(NodesWith(SourceNodes)) = 1
                                         /\ Cardinality(NodesWith(SinkNodes)) = 1
    BY DEF EndsAreUnique, CompleteData
  <2> QED
    BY OneEnd DEF EndsInv
<1> QED
  BY <1>1, <1>2, <1>3, TypeCorrect, PTL DEF Spec

-----------------------------------------------------------------------------
(* Simple files *)

NodesOf(f) == 1 .. NodeCount(f)

LEMMA SimpleFacts ==
  ASSUME NEW f \in SimpleFiles
  PROVE  /\ NodeCount(f) \in Nat /\ Len(FileArcs[f]) \in Nat
         /\ Len(Content[f]) = NodeCount(f) + Len(FileArcs[f])
         /\ DOMAIN FileArcs[f] = 1 .. Len(FileArcs[f])
         /\ \A k \in NodesOf(f) :
              /\ Content[f][k].tag = "node" /\ Content[f][k].id \in Nat \ {0}
              /\ \E node \in Nodes : IsNode(f, k, node)
         /\ \A j, k \in NodesOf(f) : j # k => Content[f][j].id # Content[f][k].id
         /\ \A j, k \in NodesOf(f) : \A node : IsNode(f, j, node) /\ IsNode(f, k, node) => j = k
<1>1. SimpleFile(f)
  BY SimpleFileAssumption
<1>2. /\ Content[f] \in Seq(NodeElement \cup EdgeElement \cup Malformed)
      /\ FileArcs[f] \in Seq(Nodes \X Nodes)
  BY FileAssumption
<1>3. /\ Len(Content[f]) \in Nat /\ Len(FileArcs[f]) \in Nat
      /\ DOMAIN FileArcs[f] = 1 .. Len(FileArcs[f])
  BY <1>2
<1>4. \A k \in NodesOf(f) : /\ Content[f][k] \in NodeElement /\ Content[f][k].id # 0
                            /\ \E node \in Nodes : IsNode(f, k, node)
  BY <1>1 DEF SimpleFile, NodesOf
<1>5. \A j, k \in NodesOf(f) : j # k => Content[f][j].id # Content[f][k].id /\ Content[f][j].data # Content[f][k].data
  BY <1>1, Zenon DEF SimpleFile, NodesOf
<1>6. \A j, k \in NodesOf(f) : \A node : IsNode(f, j, node) /\ IsNode(f, k, node) => j = k
  BY <1>5, Zenon DEF IsNode
<1>7. \A k \in NodesOf(f) : Content[f][k].tag = "node" /\ Content[f][k].id \in Nat \ {0}
  BY <1>4 DEF NodeElement
<1>8. NodeCount(f) \in Nat
  BY <1>1 DEF SimpleFile
<1>9. Len(Content[f]) = NodeCount(f) + Len(FileArcs[f])
  BY <1>3 DEF NodeCount
<1> QED
  BY <1>3, <1>4, <1>5, <1>6, <1>7, <1>8, <1>9

LEMMA SimpleEnds ==
  ASSUME NEW f \in SimpleFiles
  PROVE  \E s, t \in NodesOf(f) : \A k \in NodesOf(f) :
           /\ Content[f][k].data \subseteq SourceNodes <=> k = s
           /\ Content[f][k].data \subseteq SinkNodes <=> k = t
<1>1. SimpleFile(f)
  BY SimpleFileAssumption
<1> QED
  BY <1>1, Zenon DEF SimpleFile, NodesOf

LEMMA SimpleEdges ==
  ASSUME NEW f \in SimpleFiles
  PROVE  /\ \A k \in DOMAIN FileArcs[f] : \E s, t \in NodesOf(f) :
              /\ IsNode(f, s, FileArcs[f][k][1]) /\ IsNode(f, t, FileArcs[f][k][2])
              /\ Content[f][NodeCount(f) + k]
                   = [tag |-> "edge", source |-> Content[f][s].id, target |-> Content[f][t].id]
         /\ \A j, k \in DOMAIN FileArcs[f] : j # k => FileArcs[f][j] # FileArcs[f][k]
         /\ \A k \in DOMAIN FileArcs[f] : FileArcs[f][k] \in Arc
<1>1. SimpleFile(f)
  BY SimpleFileAssumption
<1>2. FileArcs[f] \in Seq(Nodes \X Nodes)
  BY FileAssumption
<1>3. \A k \in DOMAIN FileArcs[f] : FileArcs[f][k] \in Arc
  BY <1>2 DEF Arc
<1>4. \A k \in DOMAIN FileArcs[f] : \E s, t \in NodesOf(f) :
              /\ IsNode(f, s, FileArcs[f][k][1]) /\ IsNode(f, t, FileArcs[f][k][2])
              /\ Content[f][NodeCount(f) + k]
                   = [tag |-> "edge", source |-> Content[f][s].id, target |-> Content[f][t].id]
  BY <1>1, Zenon DEF SimpleFile, NodesOf
<1>5. \A j, k \in DOMAIN FileArcs[f] : j # k => FileArcs[f][j] # FileArcs[f][k]
  BY <1>1, Zenon DEF SimpleFile
<1> QED
  BY <1>3, <1>4, <1>5

(* What the constructor has made of the elements before next.              *)
Progress ==
  /\ num_vertices = IF next <= NodeCount(file) THEN next - 1 ELSE NodeCount(file)
  /\ Len(edges) = IF next <= NodeCount(file) THEN 0 ELSE next - 1 - NodeCount(file)
  /\ stage # "reading" => next = Len(Content[file]) + 1

VerticesRead ==
  /\ DOMAIN id_map = {Content[file][k].id : k \in 1 .. num_vertices}
  /\ \A k \in 1 .. num_vertices :
       /\ id_map[Content[file][k].id].vertex = k - 1
       /\ IsNode(file, k, id_map[Content[file][k].id].node)

EndsRead ==
  \A k \in 1 .. num_vertices :
    /\ Content[file][k].data \subseteq SourceNodes <=> source = k - 1
    /\ Content[file][k].data \subseteq SinkNodes <=> sink = k - 1

EdgesRead ==
  /\ \A k \in DOMAIN edges : \E s, t \in NodesOf(file) :
       /\ edges[k] = <<s - 1, t - 1>>
       /\ IsNode(file, s, FileArcs[file][k][1]) /\ IsNode(file, t, FileArcs[file][k][2])
  /\ DOMAIN arc_to_edge = {FileArcs[file][k] : k \in DOMAIN edges}
  /\ \A k \in DOMAIN edges :
       /\ arc_to_edge[FileArcs[file][k]] = edges[k]
       /\ edge_to_arc[edges[k]] = FileArcs[file][k]

SimpleInv ==
  file \in SimpleFiles => Progress /\ VerticesRead /\ EndsRead /\ EdgesRead

(* The next element is a node or an edge. *)
LEMMA SimpleElement ==
  ASSUME TypeOK, file \in SimpleFiles, next <= Len(Content[file])
  PROVE  /\ next <= NodeCount(file) => next \in NodesOf(file) /\ Element.tag = "node"
         /\ next > NodeCount(file) => /\ next - NodeCount(file) \in DOMAIN FileArcs[file]
                                      /\ Element.tag = "edge"
<1>1. next \in Nat \ {0}
  BY DEF TypeOK
<1>2. CASE next <= NodeCount(file)
  BY <1>1, <1>2, SimpleFacts DEF NodesOf, Element
<1>3. CASE next > NodeCount(file)
  <2>1. next - NodeCount(file) \in DOMAIN FileArcs[file]
    BY <1>1, <1>3, SimpleFacts
  <2>2. next = NodeCount(file) + (next - NodeCount(file))
    BY <1>1, SimpleFacts
  <2> DEFINE k == next - NodeCount(file)
  <2> HIDE DEF k
  <2>3. \E s, t : Content[file][NodeCount(file) + k]
                    = [tag |-> "edge", source |-> Content[file][s].id, target |-> Content[file][t].id]
    BY <2>1, SimpleEdges DEF k
  <2>4. Content[file][next].tag = "edge"
    BY <2>2, <2>3 DEF k
  <2>5. ~(next <= NodeCount(file))
    BY <1>1, <1>3, SimpleFacts
  <2> QED
    BY <2>1, <2>4, <2>5 DEF Element
<1>4. NodeCount(file) \in Nat
  BY SimpleFacts
<1> QED
  BY <1>1, <1>2, <1>3, <1>4

LEMMA ReadNodeSimple ==
  ASSUME TypeOK, SimpleInv, ReadNode, file \in SimpleFiles
  PROVE  Progress' /\ VerticesRead' /\ EndsRead' /\ EdgesRead' /\ stage' = "reading"
<1> DEFINE n == NodeCount(file)
           c == Content[file]
<1>1. /\ next \in 1 .. Len(c) /\ Element.tag = "node" /\ Element = c[next] /\ stage = "reading"
      /\ next' = next + 1 /\ num_vertices' = num_vertices + 1 /\ file' = file
      /\ UNCHANGED <<edges, arc_to_edge, edge_to_arc>>
  BY ReadingNode DEF ReadNode, Reading, graphVars, Element
<1>2. PICK node \in Element.data :
        /\ id_map' = Insert(id_map, Element.id, [vertex |-> num_vertices, node |-> node])
        /\ IF IsSecondEnd(node)
           THEN stage' = "aborted" /\ UNCHANGED <<source, sink>>
           ELSE /\ source' = IF node \in SourceNodes THEN num_vertices ELSE source
                /\ sink' = IF node \in SinkNodes THEN num_vertices ELSE sink
                /\ UNCHANGED stage
  BY DEF ReadNode
<1>3. n \in Nat /\ NodesOf(file) = 1 .. n
  BY SimpleFacts DEF NodesOf
<1>4. next <= n /\ next \in NodesOf(file)
  BY <1>1, <1>3, SimpleElement
<1>5. num_vertices = next - 1 /\ Len(edges) = 0
  BY <1>4 DEF SimpleInv, Progress
<1>6. IsNode(file, next, node) /\ c[next].data = {node}
  <2>1. PICK v \in Nodes : c[next].data = {v}
    BY <1>4, SimpleFacts DEF IsNode
  <2> QED
    BY <1>1, <1>2, <2>1 DEF IsNode
<1>7. /\ {source, sink} \subseteq {NoVertex} \cup 0 .. num_vertices - 1
      /\ edges \in Seq((0 .. num_vertices - 1) \X (0 .. num_vertices - 1))
  BY DEF TypeOK
<1>8. ~IsSecondEnd(node)
  <2>1. PICK s, t \in NodesOf(file) : \A k \in NodesOf(file) :
           /\ c[k].data \subseteq SourceNodes <=> k = s
           /\ c[k].data \subseteq SinkNodes <=> k = t
    BY SimpleEnds
  <2>2. ASSUME node \in SourceNodes, source # NoVertex
        PROVE  FALSE
    <3>1. source + 1 \in 1 .. num_vertices /\ source = (source + 1) - 1
      BY <1>1, <1>5, <1>7, <2>2
    <3>2. c[source + 1].data \subseteq SourceNodes
      BY <3>1 DEF SimpleInv, EndsRead
    <3>3. source + 1 \in NodesOf(file) /\ source + 1 # next
      BY <1>1, <1>3, <1>4, <1>5, <3>1
    <3>4. c[next].data \subseteq SourceNodes
      BY <1>6, <2>2
    <3> HIDE DEF c
    <3> QED
      BY <1>4, <2>1, <3>2, <3>3, <3>4
  <2>3. ASSUME node \in SinkNodes, sink # NoVertex
        PROVE  FALSE
    <3>1. sink + 1 \in 1 .. num_vertices /\ sink = (sink + 1) - 1
      BY <1>1, <1>5, <1>7, <2>3
    <3>2. c[sink + 1].data \subseteq SinkNodes
      BY <3>1 DEF SimpleInv, EndsRead
    <3>3. sink + 1 \in NodesOf(file) /\ sink + 1 # next
      BY <1>1, <1>3, <1>4, <1>5, <3>1
    <3>4. c[next].data \subseteq SinkNodes
      BY <1>6, <2>3
    <3> HIDE DEF c
    <3> QED
      BY <1>4, <2>1, <3>2, <3>3, <3>4
  <2> QED
    BY <2>2, <2>3 DEF IsSecondEnd
<1>9. stage' = "reading"
  BY <1>1, <1>2, <1>8
<1>10. Progress'
  <2>1. NodeCount(file') = n
    BY <1>1
  <2>2. num_vertices' = IF next' <= n THEN next' - 1 ELSE n
    BY <1>1, <1>3, <1>4, <1>5
  <2>3. Len(edges') = IF next' <= n THEN 0 ELSE next' - 1 - n
    BY <1>1, <1>3, <1>4, <1>5
  <2> QED
    BY <1>9, <2>1, <2>2, <2>3 DEF Progress
<1>11. /\ num_vertices' = next
       /\ \A k \in 1 .. num_vertices' : k \in NodesOf(file) /\ (k \in 1 .. num_vertices \/ k = next)
       /\ 1 .. num_vertices' = 1 .. num_vertices \cup {next}
  BY <1>1, <1>3, <1>4, <1>5
<1>12. VerticesRead'
  <2>1. /\ DOMAIN id_map = {c[k].id : k \in 1 .. num_vertices}
        /\ \A k \in 1 .. num_vertices : /\ id_map[c[k].id].vertex = k - 1
                                        /\ IsNode(file, k, id_map[c[k].id].node)
    BY DEF SimpleInv, VerticesRead
  <2>2. \A k \in 1 .. num_vertices : c[k].id # c[next].id
    <3>1. ASSUME NEW k \in 1 .. num_vertices
          PROVE  k \in NodesOf(file) /\ k # next
      BY <1>1, <1>5, <1>11
    <3> HIDE DEF c
    <3>2. \A j, k \in NodesOf(file) : j # k => c[j].id # c[k].id
      BY SimpleFacts DEF c
    <3> QED
      BY <1>4, <3>1, <3>2
  <2>3. c[next].id \notin DOMAIN id_map
    BY <2>1, <2>2
  <2>4. /\ DOMAIN id_map' = DOMAIN id_map \cup {c[next].id}
        /\ id_map'[c[next].id] = [vertex |-> num_vertices, node |-> node]
        /\ \A id \in DOMAIN id_map : id_map'[id] = id_map[id]
    BY <1>1, <1>2, <2>3 DEF Insert
  <2>5. DOMAIN id_map' = {c[k].id : k \in 1 .. num_vertices'}
    BY <1>11, <2>1, <2>4
  <2>6. \A k \in 1 .. num_vertices' : /\ id_map'[c[k].id].vertex = k - 1
                                      /\ IsNode(file, k, id_map'[c[k].id].node)
    <3>1. ASSUME NEW k \in 1 .. num_vertices
          PROVE  /\ id_map'[c[k].id].vertex = k - 1
                 /\ IsNode(file, k, id_map'[c[k].id].node)
      BY <2>1, <2>4
    <3>2. id_map'[c[next].id].vertex = next - 1 /\ IsNode(file, next, id_map'[c[next].id].node)
      BY <1>5, <1>6, <2>4
    <3> QED
      BY <1>11, <3>1, <3>2
  <2> QED
    BY <1>1, <2>5, <2>6 DEF VerticesRead, IsNode
<1>13. EndsRead'
  <2>1. /\ source' = IF node \in SourceNodes THEN num_vertices ELSE source
        /\ sink' = IF node \in SinkNodes THEN num_vertices ELSE sink
    BY <1>2, <1>8
  <2>2. /\ node \in SourceNodes => source = NoVertex
        /\ node \in SinkNodes => sink = NoVertex
    BY <1>8 DEF IsSecondEnd
  <2>3. \A k \in 1 .. num_vertices :
          /\ c[k].data \subseteq SourceNodes <=> source = k - 1
          /\ c[k].data \subseteq SinkNodes <=> sink = k - 1
    BY DEF SimpleInv, EndsRead
  <2>4. \A k \in 1 .. num_vertices :
          /\ c[k].data \subseteq SourceNodes <=> source' = k - 1
          /\ c[k].data \subseteq SinkNodes <=> sink' = k - 1
    <3>1. num_vertices \in Nat
      BY <1>1, <1>5
    <3> HIDE DEF c
    <3>2. ASSUME NEW k \in 1 .. num_vertices
          PROVE  source' = k - 1 <=> source = k - 1
      <4>1. NoVertex # k - 1 /\ num_vertices # k - 1
        BY <3>1 DEF NoVertex
      <4> QED
        BY <2>1, <2>2, <4>1
    <3>3. ASSUME NEW k \in 1 .. num_vertices
          PROVE  sink' = k - 1 <=> sink = k - 1
      <4>1. NoVertex # k - 1 /\ num_vertices # k - 1
        BY <3>1 DEF NoVertex
      <4> QED
        BY <2>1, <2>2, <4>1
    <3> QED
      BY <2>3, <3>2, <3>3
  <2>5. /\ c[next].data \subseteq SourceNodes <=> source' = next - 1
        /\ c[next].data \subseteq SinkNodes <=> sink' = next - 1
    <3>1. source # next - 1 /\ sink # next - 1
      BY <1>1, <1>5, <1>7 DEF NoVertex
    <3>2. num_vertices = next - 1
      BY <1>5
    <3> HIDE DEF c
    <3>3. /\ c[next].data \subseteq SourceNodes <=> node \in SourceNodes
          /\ c[next].data \subseteq SinkNodes <=> node \in SinkNodes
      BY <1>6
    <3> QED
      BY <2>1, <3>1, <3>2, <3>3
  <2> QED
    BY <1>1, <1>11, <2>4, <2>5 DEF EndsRead
<1>14. EdgesRead'
  <2>1. EdgesRead
    BY DEF SimpleInv
  <2> QED
    BY <1>1, <2>1, Zenon DEF EdgesRead
<1> QED
  BY <1>9, <1>10, <1>12, <1>13, <1>14

(* The next edge of a simple file. *)
LEMMA NextEdge ==
  ASSUME TypeOK, SimpleInv, Reading("edge"), file \in SimpleFiles
  PROVE  LET k == next - NodeCount(file)
         IN  /\ k \in DOMAIN FileArcs[file] /\ Len(edges) = k - 1 /\ num_vertices = NodeCount(file)
             /\ Found(Element.source) /\ Found(Element.target)
             /\ \E s, t \in NodesOf(file) :
                  /\ IsNode(file, s, FileArcs[file][k][1]) /\ IsNode(file, t, FileArcs[file][k][2])
                  /\ id_map[Element.source].vertex = s - 1 /\ id_map[Element.target].vertex = t - 1
                  /\ id_map[Element.source].node = FileArcs[file][k][1]
                  /\ id_map[Element.target].node = FileArcs[file][k][2]
<1> DEFINE k == next - NodeCount(file)
           c == Content[file]
<1>1. next \in 1 .. Len(c) /\ Element.tag = "edge"
  BY DEF Reading, TypeOK
<1>2. NodeCount(file) \in Nat /\ NodesOf(file) = 1 .. NodeCount(file)
  BY SimpleFacts DEF NodesOf
<1>3. next > NodeCount(file) /\ k \in DOMAIN FileArcs[file]
  BY <1>1, <1>2, SimpleElement
<1>4. num_vertices = NodeCount(file) /\ Len(edges) = k - 1
  BY <1>1, <1>2, <1>3 DEF SimpleInv, Progress
<1>5. next = NodeCount(file) + k
  BY <1>1, <1>2
<1> HIDE DEF k
<1>6. PICK s, t \in NodesOf(file) :
        /\ IsNode(file, s, FileArcs[file][k][1]) /\ IsNode(file, t, FileArcs[file][k][2])
        /\ c[NodeCount(file) + k] = [tag |-> "edge", source |-> c[s].id, target |-> c[t].id]
  BY <1>3, SimpleEdges
<1>7. Element.source = c[s].id /\ Element.target = c[t].id
  BY <1>5, <1>6 DEF Element
<1>8. /\ DOMAIN id_map = {c[j].id : j \in NodesOf(file)}
      /\ \A j \in NodesOf(file) : id_map[c[j].id].vertex = j - 1 /\ IsNode(file, j, id_map[c[j].id].node)
  BY <1>2, <1>4 DEF SimpleInv, VerticesRead
<1>9. c[s].id # 0 /\ c[t].id # 0
  BY SimpleFacts
<1> HIDE DEF c
<1>10. Found(Element.source) /\ Found(Element.target)
  BY <1>7, <1>8, <1>9 DEF Found
<1>11. /\ id_map[c[s].id].node = FileArcs[file][k][1]
       /\ id_map[c[t].id].node = FileArcs[file][k][2]
  BY <1>6, <1>8 DEF IsNode
<1>12. id_map[c[s].id].vertex = s - 1 /\ id_map[c[t].id].vertex = t - 1
  BY <1>8
<1> QED
  BY <1>3, <1>4, <1>6, <1>7, <1>10, <1>11, <1>12 DEF k

(* An arc has one edge and an edge one arc. *)
LEMMA EdgeOfFile ==
  ASSUME EdgesRead, file \in SimpleFiles, NEW j \in DOMAIN edges,
         NEW k \in DOMAIN FileArcs[file], j \in DOMAIN FileArcs[file],
         NEW s \in NodesOf(file), NEW t \in NodesOf(file), edges[j] = <<s - 1, t - 1>>,
         IsNode(file, s, FileArcs[file][k][1]), IsNode(file, t, FileArcs[file][k][2])
  PROVE  j = k
<1>1. PICK s1, t1 \in NodesOf(file) :
        /\ edges[j] = <<s1 - 1, t1 - 1>>
        /\ IsNode(file, s1, FileArcs[file][j][1]) /\ IsNode(file, t1, FileArcs[file][j][2])
  BY DEF EdgesRead
<1>2. s1 = s /\ t1 = t
  BY <1>1, SimpleFacts DEF NodesOf
<1>3. FileArcs[file][j][1] = FileArcs[file][k][1] /\ FileArcs[file][j][2] = FileArcs[file][k][2]
  BY <1>1, <1>2 DEF IsNode
<1>4. FileArcs[file][j] \in Arc /\ FileArcs[file][k] \in Arc
  BY SimpleEdges
<1>5. FileArcs[file][j] = FileArcs[file][k]
  BY <1>3, <1>4 DEF Arc
<1> QED
  BY <1>5, SimpleEdges

LEMMA ReadEdgeSimple ==
  ASSUME TypeOK, SimpleInv, ReadEdge, file \in SimpleFiles
  PROVE  Progress' /\ VerticesRead' /\ EndsRead' /\ EdgesRead' /\ stage' = "reading"
<1> DEFINE n == NodeCount(file)
           k == next - n
           arcs == FileArcs[file]
           e == <<id_map[Element.source].vertex, id_map[Element.target].vertex>>
           arc == <<id_map[Element.source].node, id_map[Element.target].node>>
<1>1. /\ Reading("edge") /\ next \in 1 .. Len(Content[file]) /\ stage = "reading"
      /\ edges' = Append(edges, e)
      /\ arc_to_edge' = Insert(arc_to_edge, arc, e)
      /\ edge_to_arc' = Insert(edge_to_arc, e, arc)
      /\ next' = next + 1
      /\ UNCHANGED <<file, num_vertices, id_map, source, sink, stage>>
  BY DEF ReadEdge, Reading, AddEdge, TypeOK
<1>2. n \in Nat /\ NodesOf(file) = 1 .. n
  BY SimpleFacts DEF NodesOf
<1>3. k \in DOMAIN arcs /\ Len(edges) = k - 1 /\ num_vertices = n
  BY <1>1, NextEdge
<1>4. PICK s, t \in NodesOf(file) :
        /\ IsNode(file, s, arcs[k][1]) /\ IsNode(file, t, arcs[k][2])
        /\ e = <<s - 1, t - 1>> /\ arc = <<arcs[k][1], arcs[k][2]>>
  BY <1>1, NextEdge
<1>5. arc = arcs[k]
  BY <1>3, <1>4, SimpleEdges DEF Arc
<1> HIDE DEF e, arc
<1>6. EdgesRead /\ VerticesRead /\ EndsRead /\ Progress
  BY DEF SimpleInv
<1>7. k \in 1 .. Len(arcs) /\ DOMAIN arcs = 1 .. Len(arcs) /\ next = n + k
  <2>1. DOMAIN arcs = 1 .. Len(arcs)
    BY SimpleFacts
  <2>2. next \in Int
    BY <1>1
  <2> QED
    BY <1>2, <1>3, <2>1, <2>2
<1>8. /\ DOMAIN edges = 1 .. k - 1 /\ DOMAIN edges' = 1 .. k
      /\ \A j \in 1 .. k - 1 : edges'[j] = edges[j]
      /\ edges'[k] = e /\ Len(edges') = k
  <2>1. edges \in Seq((0 .. num_vertices - 1) \X (0 .. num_vertices - 1))
    BY DEF TypeOK
  <2> QED
    BY <1>1, <1>3, <1>7, <2>1
<1>9. Progress'
  <2>1. NodeCount(file') = n
    BY <1>1
  <2>2. ~(next' <= n) /\ next' - 1 - n = k
    BY <1>1, <1>2, <1>7
  <2> QED
    BY <1>1, <1>3, <1>8, <2>1, <2>2 DEF Progress
<1>10. VerticesRead' /\ EndsRead'
  <2>1. VerticesRead'
    BY <1>1, <1>6, Zenon DEF VerticesRead
  <2>2. EndsRead'
    BY <1>1, <1>6, Zenon DEF EndsRead
  <2> QED
    BY <2>1, <2>2
<1>11. \A j \in 1 .. k - 1 : j \in DOMAIN arcs /\ arcs[j] # arcs[k] /\ edges[j] # e
  <2> SUFFICES ASSUME NEW j \in 1 .. k - 1
               PROVE  j \in DOMAIN arcs /\ arcs[j] # arcs[k] /\ edges[j] # e
    OBVIOUS
  <2>1. j \in DOMAIN arcs /\ j \in DOMAIN edges /\ j # k
    BY <1>7, <1>8
  <2>2. arcs[j] # arcs[k]
    BY <1>3, <2>1, SimpleEdges
  <2> HIDE DEF k, arcs
  <2>3. edges[j] # e
    BY <1>3, <1>4, <1>6, <2>1, EdgeOfFile DEF arcs
  <2> QED
    BY <2>1, <2>2, <2>3
<1> HIDE DEF k, arcs
<1>12. arc \notin DOMAIN arc_to_edge
  BY <1>5, <1>6, <1>8, <1>11 DEF EdgesRead, arcs
<1>13. e \notin DOMAIN edge_to_arc
  BY <1>8, <1>11 DEF TypeOK, Range
<1>14. /\ DOMAIN arc_to_edge' = DOMAIN arc_to_edge \cup {arc} /\ arc_to_edge'[arc] = e
       /\ \A a \in DOMAIN arc_to_edge : arc_to_edge'[a] = arc_to_edge[a]
       /\ edge_to_arc'[e] = arc
       /\ \A x \in DOMAIN edge_to_arc : edge_to_arc'[x] = edge_to_arc[x]
  BY <1>1, <1>12, <1>13 DEF Insert
<1>15. k \in Nat /\ 1 .. k = 1 .. k - 1 \cup {k}
  BY <1>7
<1>16. /\ DOMAIN arc_to_edge = {arcs[j] : j \in 1 .. k - 1}
       /\ \A j \in 1 .. k - 1 : arc_to_edge[arcs[j]] = edges[j] /\ edge_to_arc[edges[j]] = arcs[j]
  BY <1>6, <1>8 DEF EdgesRead, arcs
<1>17. DOMAIN arc_to_edge' = {arcs[j] : j \in 1 .. k}
  BY <1>5, <1>14, <1>15, <1>16
<1>18. \A j \in 1 .. k : arc_to_edge'[arcs[j]] = edges'[j] /\ edge_to_arc'[edges'[j]] = arcs[j]
  <2>1. ASSUME NEW j \in 1 .. k - 1
        PROVE  arc_to_edge'[arcs[j]] = edges'[j] /\ edge_to_arc'[edges'[j]] = arcs[j]
    <3>1. edges[j] \in DOMAIN edge_to_arc
      BY <1>8 DEF TypeOK, Range
    <3>2. arcs[j] \in DOMAIN arc_to_edge /\ arc_to_edge[arcs[j]] = edges[j] /\ edge_to_arc[edges[j]] = arcs[j]
      BY <1>16
    <3>3. edges'[j] = edges[j]
      BY <1>8
    <3> QED
      BY <1>14, <3>1, <3>2, <3>3, Zenon
  <2>2. arc_to_edge'[arcs[k]] = edges'[k] /\ edge_to_arc'[edges'[k]] = arcs[k]
    BY <1>5, <1>8, <1>14
  <2> QED
    BY <1>15, <2>1, <2>2
<1>19. \A j \in 1 .. k : \E s1, t1 \in NodesOf(file) :
         /\ edges'[j] = <<s1 - 1, t1 - 1>>
         /\ IsNode(file, s1, arcs[j][1]) /\ IsNode(file, t1, arcs[j][2])
  <2>1. ASSUME NEW j \in 1 .. k - 1
        PROVE  \E s1, t1 \in NodesOf(file) :
                 /\ edges'[j] = <<s1 - 1, t1 - 1>>
                 /\ IsNode(file, s1, arcs[j][1]) /\ IsNode(file, t1, arcs[j][2])
    BY <1>6, <1>8 DEF EdgesRead, arcs
  <2>2. /\ edges'[k] = <<s - 1, t - 1>>
        /\ IsNode(file, s, arcs[k][1]) /\ IsNode(file, t, arcs[k][2])
    BY <1>4, <1>8
  <2> QED
    BY <1>15, <2>1, <2>2
<1>20. EdgesRead'
  BY <1>1, <1>8, <1>17, <1>18, <1>19, Zenon DEF EdgesRead, arcs
<1> QED
  BY <1>1, <1>9, <1>10, <1>20

LEMMA InitSimple == ASSUME Init PROVE SimpleInv
<1> SUFFICES ASSUME file \in SimpleFiles
             PROVE  Progress /\ VerticesRead /\ EndsRead /\ EdgesRead
  BY DEF SimpleInv
<1>1. NodeCount(file) \in Nat
  BY SimpleFacts
<1>2. /\ next = 1 /\ num_vertices = 0 /\ edges = << >> /\ id_map = << >> /\ arc_to_edge = << >>
      /\ stage = "reading"
  BY DEF Init
<1>3. Len(edges) = 0 /\ DOMAIN edges = {} /\ DOMAIN id_map = {} /\ DOMAIN arc_to_edge = {}
      /\ 1 .. num_vertices = {}
  BY <1>2
<1>4. Progress
  BY <1>1, <1>2, <1>3 DEF Progress
<1> QED
  BY <1>3, <1>4 DEF VerticesRead, EndsRead, EdgesRead

LEMMA StepSimple == ASSUME TypeOK, SimpleInv, [Next]_vars PROVE SimpleInv'
<1> SUFFICES ASSUME file \in SimpleFiles, file' = file
             PROVE  Progress' /\ VerticesRead' /\ EndsRead' /\ EdgesRead'
  BY DEF SimpleInv, Next, Constructor, Method, ReadNode, ReadEdge, EdgeWithoutNode, ReadMalformed,
         FileRead, ResetEdgeWeights, SetEdgeWeight, AddToEdgeWeight, PutWeight, ForeignArc,
         ShortestPath, SinkNotReached, Stopped, vars, readVars
<1>1. CASE ReadNode
  BY <1>1, ReadNodeSimple
<1>2. CASE ReadEdge
  BY <1>2, ReadEdgeSimple
<1>3. CASE /\ UNCHANGED <<readVars, graphVars>>
           /\ stage = "reading" => stage' = stage
  <2>1. Progress /\ VerticesRead /\ EndsRead /\ EdgesRead
    BY DEF SimpleInv
  <2>2. /\ UNCHANGED <<next, num_vertices, id_map, source, sink, edges, arc_to_edge, edge_to_arc>>
        /\ stage' # "reading" => stage # "reading"
    BY <1>3 DEF readVars, graphVars
  <2>3. Progress'
    BY <2>1, <2>2, Zenon DEF Progress
  <2>4. VerticesRead' /\ EndsRead'
    BY <2>1, <2>2, Zenon DEF VerticesRead, EndsRead
  <2>5. EdgesRead'
    BY <2>1, <2>2, Zenon DEF EdgesRead
  <2> QED
    BY <2>3, <2>4, <2>5
<1>4. CASE EdgeWithoutNode
  BY <1>4, NextEdge DEF EdgeWithoutNode
<1>5. CASE ReadMalformed
  <2>1. next <= Len(Content[file]) /\ Element.tag = "malformed"
    BY <1>5 DEF ReadMalformed, Reading
  <2>2. next \in Nat /\ NodeCount(file) \in Nat
    BY SimpleFacts DEF TypeOK
  <2> QED
    BY <2>1, <2>2, SimpleElement
<1>6. CASE FileRead
  <2>1. Progress /\ VerticesRead /\ EndsRead /\ EdgesRead
    BY DEF SimpleInv
  <2>2. /\ UNCHANGED <<next, num_vertices, id_map, source, sink, edges, arc_to_edge, edge_to_arc>>
        /\ next = Len(Content[file]) + 1
    BY <1>6 DEF FileRead, readVars, graphVars
  <2>3. Progress'
    BY <2>1, <2>2 DEF Progress
  <2>4. VerticesRead' /\ EndsRead'
    BY <2>1, <2>2, Zenon DEF VerticesRead, EndsRead
  <2>5. EdgesRead'
    BY <2>1, <2>2, Zenon DEF EdgesRead
  <2> QED
    BY <2>3, <2>4, <2>5
<1>7. CASE ResetEdgeWeights \/ ShortestPath \/ ForeignArc \/ SinkNotReached \/ Stopped \/ UNCHANGED vars
  BY <1>3, <1>7 DEF ResetEdgeWeights, ShortestPath, ForeignArc, SinkNotReached, Stopped, vars
<1>8. ASSUME NEW arc, NEW w, PutWeight(arc, w)
      PROVE  Progress' /\ VerticesRead' /\ EndsRead' /\ EdgesRead'
  BY <1>3, <1>8 DEF PutWeight
<1> QED
  BY <1>1, <1>2, <1>4, <1>5, <1>6, <1>7, <1>8
     DEF Next, Constructor, Method, SetEdgeWeight, AddToEdgeWeight

-----------------------------------------------------------------------------
(* Walks of edges and paths of arcs *)

AllRead == file \in SimpleFiles /\ next = Len(Content[file]) + 1

LEMMA ReadFacts ==
  ASSUME TypeOK, SimpleInv, AllRead
  PROVE  /\ EdgesRead /\ EndsRead /\ VerticesRead
         /\ num_vertices = NodeCount(file) /\ num_vertices \in Nat /\ NodesOf(file) = 1 .. num_vertices
         /\ DOMAIN edges = DOMAIN FileArcs[file]
<1>1. /\ NodeCount(file) \in Nat /\ Len(FileArcs[file]) \in Nat
      /\ Len(Content[file]) = NodeCount(file) + Len(FileArcs[file])
      /\ DOMAIN FileArcs[file] = 1 .. Len(FileArcs[file])
  BY SimpleFacts DEF AllRead
<1>2. EdgesRead /\ EndsRead /\ VerticesRead /\ Progress
  BY DEF SimpleInv, AllRead
<1>3. num_vertices = NodeCount(file) /\ Len(edges) = Len(FileArcs[file])
  BY <1>1, <1>2 DEF Progress, AllRead
<1>4. DOMAIN edges = 1 .. Len(edges)
  <2>1. edges \in Seq((0 .. num_vertices - 1) \X (0 .. num_vertices - 1))
    BY DEF TypeOK
  <2> QED
    BY <2>1
<1> QED
  BY <1>1, <1>2, <1>3, <1>4 DEF NodesOf

(* The graph joins edges where the file joins arcs. *)
LEMMA EdgeMeaning ==
  ASSUME TypeOK, SimpleInv, AllRead, NEW j \in DOMAIN edges, NEW k \in DOMAIN edges
  PROVE  /\ edges[j][2] = sink <=> FileArcs[file][j][2] \in SinkNodes
         /\ edges[j][1] = source <=> FileArcs[file][j][1] \in SourceNodes
         /\ edges[j][2] = edges[k][1] <=> FileArcs[file][j][2] = FileArcs[file][k][1]
<1> DEFINE arcs == FileArcs[file]
           c == Content[file]
<1>1. /\ EdgesRead /\ EndsRead /\ NodesOf(file) = 1 .. num_vertices /\ file \in SimpleFiles
      /\ num_vertices \in Nat
  BY ReadFacts DEF AllRead
<1>2. PICK a, b \in NodesOf(file) :
        /\ edges[j] = <<a - 1, b - 1>> /\ IsNode(file, a, arcs[j][1]) /\ IsNode(file, b, arcs[j][2])
  BY <1>1 DEF EdgesRead
<1>3. PICK x, y \in NodesOf(file) :
        /\ edges[k] = <<x - 1, y - 1>> /\ IsNode(file, x, arcs[k][1]) /\ IsNode(file, y, arcs[k][2])
  BY <1>1 DEF EdgesRead
<1>4. PICK s, t \in NodesOf(file) : \A i \in NodesOf(file) :
           /\ c[i].data \subseteq SourceNodes <=> i = s
           /\ c[i].data \subseteq SinkNodes <=> i = t
  BY <1>1, SimpleEnds
<1>5. source = s - 1 /\ sink = t - 1
  <2>1. c[s].data \subseteq SourceNodes /\ c[t].data \subseteq SinkNodes
    BY <1>4
  <2> QED
    BY <1>1, <2>1 DEF EndsRead
<1>6. a \in Int /\ b \in Int /\ x \in Int /\ y \in Int /\ s \in Int /\ t \in Int
  BY <1>1
<1>7. /\ edges[j][2] = sink <=> b = t
      /\ edges[j][1] = source <=> a = s
      /\ edges[j][2] = edges[k][1] <=> b = x
  BY <1>2, <1>3, <1>5, <1>6
<1>8. /\ b = t <=> arcs[j][2] \in SinkNodes
      /\ a = s <=> arcs[j][1] \in SourceNodes
  <2>1. c[b].data = {arcs[j][2]} /\ c[a].data = {arcs[j][1]}
    BY <1>2 DEF IsNode
  <2> HIDE DEF c, arcs
  <2> QED
    BY <1>4, <2>1
<1>9. b = x <=> arcs[j][2] = arcs[k][1]
  <2>1. b = x => arcs[j][2] = arcs[k][1]
    BY <1>2, <1>3 DEF IsNode
  <2>2. arcs[j][2] = arcs[k][1] => b = x
    BY <1>1, <1>2, <1>3, SimpleFacts
  <2> QED
    BY <2>1, <2>2
<1> QED
  BY <1>7, <1>8, <1>9

ArcsOfWalk(w) == [k \in DOMAIN w |-> FileArcs[file][w[k]]]

LEMMA WalkIsPath ==
  ASSUME TypeOK, SimpleInv, AllRead, NEW n \in 1 .. num_vertices, NEW w \in [1 .. n -> DOMAIN edges]
  PROVE  w \in SinkWalks <=> ArcsOfWalk(w) \in FilePaths[file]
<1> DEFINE p == ArcsOfWalk(w)
<1>1. /\ n \in Nat \ {0} /\ DOMAIN w = 1 .. n /\ Len(w) = n
      /\ DOMAIN edges = DOMAIN FileArcs[file] /\ num_vertices = NodeCount(file)
  BY ReadFacts
<1>2. p \in [1 .. n -> Range(FileArcs[file])] /\ Len(p) = n
  BY <1>1 DEF ArcsOfWalk, Range
<1>3. \A k \in 1 .. n : w[k] \in DOMAIN edges /\ p[k] = FileArcs[file][w[k]]
  BY <1>1 DEF ArcsOfWalk
<1> HIDE DEF p
<1>4. FilePaths[file] = PathsOfArcs(file)
  BY SimpleFileAssumption DEF AllRead
<1>5. /\ edges[w[1]][2] = sink <=> p[1][2] \in SinkNodes
      /\ edges[w[n]][1] = source <=> p[n][1] \in SourceNodes
      /\ \A k \in 1 .. n - 1 : edges[w[k + 1]][2] = edges[w[k]][1] <=> p[k + 1][2] = p[k][1]
  <2>1. 1 \in 1 .. n /\ n \in 1 .. n /\ \A k \in 1 .. n - 1 : k \in 1 .. n /\ k + 1 \in 1 .. n
    BY <1>1
  <2>2. edges[w[1]][2] = sink <=> p[1][2] \in SinkNodes
    BY <1>3, <2>1, EdgeMeaning
  <2>3. edges[w[n]][1] = source <=> p[n][1] \in SourceNodes
    BY <1>3, <2>1, EdgeMeaning
  <2>4. ASSUME NEW k \in 1 .. n - 1
        PROVE  edges[w[k + 1]][2] = edges[w[k]][1] <=> p[k + 1][2] = p[k][1]
    BY <1>3, <2>1, EdgeMeaning
  <2> QED
    BY <2>2, <2>3, <2>4
<1>6. w \in SinkWalks <=> /\ edges[w[1]][2] = sink /\ edges[w[n]][1] = source
                          /\ \A k \in 1 .. n - 1 : edges[w[k + 1]][2] = edges[w[k]][1]
  BY <1>1 DEF SinkWalks
<1>7. p \in PathsOfArcs(file) <=> /\ p[1][2] \in SinkNodes /\ p[n][1] \in SourceNodes
                                  /\ \A k \in 1 .. n - 1 : p[k + 1][2] = p[k][1]
  BY <1>1, <1>2 DEF PathsOfArcs
<1>8. w \in SinkWalks <=> p \in PathsOfArcs(file)
  BY <1>5, <1>6, <1>7, Zenon
<1> QED
  BY <1>4, <1>8 DEF p

LEMMA PathHasWalk ==
  ASSUME TypeOK, SimpleInv, AllRead, NEW p \in FilePaths[file]
  PROVE  \E w \in SinkWalks : ArcsOfWalk(w) = p
<1>1. p \in PathsOfArcs(file)
  BY SimpleFileAssumption DEF AllRead
<1>2. num_vertices = NodeCount(file) /\ DOMAIN edges = DOMAIN FileArcs[file]
  BY ReadFacts
<1>3. PICK n \in 1 .. num_vertices : p \in [1 .. n -> Range(FileArcs[file])]
  BY <1>1, <1>2 DEF PathsOfArcs
<1> DEFINE w == [k \in 1 .. n |-> CHOOSE j \in DOMAIN edges : FileArcs[file][j] = p[k]]
<1>4. \A k \in 1 .. n : \E j \in DOMAIN edges : FileArcs[file][j] = p[k]
  BY <1>2, <1>3 DEF Range
<1>5. w \in [1 .. n -> DOMAIN edges] /\ \A k \in 1 .. n : FileArcs[file][w[k]] = p[k]
  BY <1>4
<1> HIDE DEF w
<1>6. ArcsOfWalk(w) = p
  BY <1>3, <1>5 DEF ArcsOfWalk
<1>7. w \in SinkWalks
  BY <1>5, <1>6, WalkIsPath
<1> QED
  BY <1>6, <1>7

(* The weights and lengths that the callers see. *)
WeightOfArcs == [a \in Range(FileArcs[file]) |-> weight[IndexOfArc(a)]]

LEMMA IndexFacts ==
  ASSUME file \in SimpleFiles, NEW k \in DOMAIN FileArcs[file]
  PROVE  IndexOfArc(FileArcs[file][k]) = k
<1>1. \A j \in DOMAIN FileArcs[file] : FileArcs[file][j] = FileArcs[file][k] => j = k
  BY SimpleEdges
<1> QED
  BY <1>1 DEF IndexOfArc

LEMMA WalkFacts ==
  ASSUME TypeOK, SimpleInv, AllRead, NEW w \in SinkWalks
  PROVE  /\ ArcsOfWalk(w) \in FilePaths[file]
         /\ PathOf(w) = [length |-> WalkLength(w), arcs |-> ArcsOfWalk(w)]
         /\ WalkLength(w)
              = SumFunction([k \in DOMAIN ArcsOfWalk(w) |-> WeightOfArcs[ArcsOfWalk(w)[k]]])
<1>1. PICK n \in 1 .. num_vertices : w \in [1 .. n -> DOMAIN edges]
  BY DEF SinkWalks
<1>2. EdgesRead /\ DOMAIN edges = DOMAIN FileArcs[file] /\ file \in SimpleFiles
  BY ReadFacts DEF AllRead
<1>3. \A k \in DOMAIN w : w[k] \in DOMAIN edges
  BY <1>1
<1>4. [k \in DOMAIN w |-> edge_to_arc[edges[w[k]]]] = ArcsOfWalk(w)
  BY <1>2, <1>3 DEF EdgesRead, ArcsOfWalk
<1>5. DOMAIN ArcsOfWalk(w) = DOMAIN w
  BY DEF ArcsOfWalk
<1>6. \A k \in DOMAIN w : WeightOfArcs[ArcsOfWalk(w)[k]] = weight[w[k]]
  <2> SUFFICES ASSUME NEW k \in DOMAIN w
               PROVE  WeightOfArcs[ArcsOfWalk(w)[k]] = weight[w[k]]
    OBVIOUS
  <2>1. w[k] \in DOMAIN FileArcs[file] /\ ArcsOfWalk(w)[k] = FileArcs[file][w[k]]
    BY <1>2, <1>3 DEF ArcsOfWalk
  <2>2. FileArcs[file][w[k]] \in Range(FileArcs[file])
    BY <2>1 DEF Range
  <2>3. IndexOfArc(FileArcs[file][w[k]]) = w[k]
    BY <1>2, <2>1, IndexFacts
  <2> QED
    BY <2>1, <2>2, <2>3 DEF WeightOfArcs
<1>7. [k \in DOMAIN w |-> weight[w[k]]]
        = [k \in DOMAIN ArcsOfWalk(w) |-> WeightOfArcs[ArcsOfWalk(w)[k]]]
  BY <1>5, <1>6
<1>8. WalkLength(w) = SumFunction([k \in DOMAIN ArcsOfWalk(w) |-> WeightOfArcs[ArcsOfWalk(w)[k]]])
  BY <1>7, Zenon DEF WalkLength
<1>9. ArcsOfWalk(w) \in FilePaths[file]
  BY <1>1, WalkIsPath
<1> QED
  BY <1>4, <1>8, <1>9, Zenon DEF PathOf

-----------------------------------------------------------------------------
(* The weights and the cache *)

CacheInv ==
  /\ stage = "reading" => /\ \A k \in DOMAIN edges : weight[k] = 0
                          /\ call = NoCall
                          /\ answer = NoAnswer
                          /\ fresh = FALSE
  /\ fresh => \E w \in ShortestWalks : cached = PathOf(w)

LEMMA StepCache == ASSUME TypeOK, CacheInv, [Next]_vars PROVE CacheInv'
<1>1. CASE ReadNode
  <2>1. stage = "reading" /\ UNCHANGED <<edges, weight, call, answer, fresh>>
    BY <1>1 DEF ReadNode, Reading, graphVars, pathVars
  <2> QED
    BY <2>1 DEF CacheInv
<1>2. CASE ReadEdge
  <2>1. /\ stage = "reading" /\ UNCHANGED <<call, answer, fresh>>
        /\ weight' = Append(weight, 0) /\ \E e : edges' = Append(edges, e)
    BY <1>2 DEF ReadEdge, Reading, AddEdge, pathVars
  <2>2. edges \in Seq((0 .. num_vertices - 1) \X (0 .. num_vertices - 1))
    BY DEF TypeOK
  <2>3. /\ DOMAIN edges = 1 .. Len(edges) /\ Len(edges) \in Nat
        /\ DOMAIN edges' = 1 .. Len(edges) + 1
    BY <2>1, <2>2
  <2>4. weight \in [1 .. Len(edges) -> Int]
    BY <2>3, WeightAssumption DEF TypeOK
  <2>5. \A k \in 1 .. Len(edges) : weight[k] = 0
    BY <2>1, <2>3 DEF CacheInv
  <2> DEFINE n == Len(edges)
  <2> HIDE DEF n
  <2>6. weight \in [1 .. n -> Int] /\ n \in Nat /\ DOMAIN edges' = 1 .. n + 1
    BY <2>3, <2>4 DEF n
  <2>7. weight \in Seq(Int) /\ Len(weight) = n
    BY <2>6
  <2>8. \A k \in 1 .. n + 1 : weight'[k] = IF k = n + 1 THEN 0 ELSE weight[k]
    BY <2>1, <2>6, <2>7
  <2>9. \A k \in DOMAIN edges' : weight'[k] = 0
    BY <2>5, <2>6, <2>8 DEF n
  <2> QED
    BY <2>1, <2>9 DEF CacheInv
<1>3. CASE UNCHANGED <<readVars, graphVars, weight, pathVars>> /\ stage' # "reading"
  <2>1. UNCHANGED <<num_vertices, source, sink, edges, edge_to_arc, weight, fresh, cached>>
    BY <1>3 DEF readVars, graphVars, pathVars
  <2>2. SinkWalks' = SinkWalks
    BY <2>1, Zenon DEF SinkWalks
  <2>3. ShortestWalks' = ShortestWalks
    BY <2>1, <2>2, Zenon DEF ShortestWalks, WalkLength
  <2>4. \A w : PathOf(w)' = PathOf(w)
    BY <2>1, Zenon DEF PathOf, WalkLength
  <2> QED
    BY <1>3, <2>1, <2>3, <2>4 DEF CacheInv
<1>4. CASE EdgeWithoutNode \/ ReadMalformed \/ FileRead \/ ForeignArc \/ SinkNotReached
  BY <1>3, <1>4 DEF EdgeWithoutNode, ReadMalformed, FileRead, ForeignArc, SinkNotReached
<1>5. CASE Stopped
  BY <1>3, <1>5 DEF Stopped, vars
<1>6. CASE UNCHANGED vars
  <2>1. CASE stage = "reading"
    BY <1>6, <2>1 DEF CacheInv, vars, graphVars, pathVars
  <2>2. CASE stage # "reading"
    BY <1>3, <1>6, <2>2 DEF vars
  <2> QED
    BY <2>1, <2>2
<1>7. CASE ResetEdgeWeights
  BY <1>7 DEF ResetEdgeWeights, CacheInv
<1>8. ASSUME NEW arc, NEW w, PutWeight(arc, w)
      PROVE  CacheInv'
  BY <1>8 DEF PutWeight, CacheInv
<1>9. CASE ShortestPath
  <2>1. /\ UNCHANGED <<num_vertices, source, sink, edges, edge_to_arc, weight>>
        /\ stage' = "usable"
    BY <1>9 DEF ShortestPath, readVars, graphVars
  <2>2. SinkWalks' = SinkWalks
    BY <2>1, Zenon DEF SinkWalks
  <2>3. ShortestWalks' = ShortestWalks
    BY <2>1, <2>2, Zenon DEF ShortestWalks, WalkLength
  <2>4. \A w : PathOf(w)' = PathOf(w)
    BY <2>1, Zenon DEF PathOf, WalkLength
  <2>5. \E w \in ShortestWalks : cached' = PathOf(w)
    BY <1>9 DEF ShortestPath, CacheInv
  <2> QED
    BY <2>1, <2>3, <2>4, <2>5 DEF CacheInv
<1> QED
  BY <1>1, <1>2, <1>4, <1>5, <1>6, <1>7, <1>8, <1>9
     DEF Next, Constructor, Method, SetEdgeWeight, AddToEdgeWeight

IndInv == TypeOK /\ SimpleInv /\ CacheInv

LEMMA InitInv == ASSUME Init PROVE IndInv
<1>1. CacheInv
  <2>1. DOMAIN edges = {}
    BY DEF Init
  <2> QED
    BY <2>1 DEF Init, CacheInv
<1> QED
  BY <1>1, InitType, InitSimple DEF IndInv

LEMMA StepInv == ASSUME IndInv, [Next]_vars PROVE IndInv'
BY StepType, StepSimple, StepCache DEF IndInv

-----------------------------------------------------------------------------
(* The refinement *)

paths_A  == IF Answered THEN FilePaths[file] ELSE {}
weight_A == IF Answered THEN WeightOfArcs ELSE << >>
call_A   == IF Answered THEN call ELSE NoCall
answer_A == IF Answered THEN answer ELSE NoAnswer

LEMMA Mapped ==
  /\ Abstract!absVars = <<paths_A, weight_A, call_A, answer_A>>
  /\ Abstract!NoAnswer = NoAnswer
  /\ Abstract!NoCall = NoCall
BY DEF Abstract!absVars, Abstract!NoAnswer, Abstract!NoCall, NoAnswer, NoCall,
   paths_A, weight_A, call_A, answer_A, WeightOfArcs

LEMMA SameSum == ASSUME NEW f PROVE Abstract!SumFunction(f) = SumFunction(f)
BY Zenon DEF Abstract!SumFunction, SumFunction, Abstract!SumFunctionOnSet, SumFunctionOnSet,
   Abstract!FoldFunctionOnSet, FoldFunctionOnSet, Abstract!MapThenFoldSet, MapThenFoldSet

LEMMA LengthOfPath ==
  ASSUME IndInv, Answered, NEW w \in SinkWalks
  PROVE  Abstract!Length(ArcsOfWalk(w)) = WalkLength(w)
<1>1. AllRead
  BY DEF Answered, AllRead
<1>2. WalkLength(w) = SumFunction([k \in DOMAIN ArcsOfWalk(w) |-> WeightOfArcs[ArcsOfWalk(w)[k]]])
  BY <1>1, WalkFacts DEF IndInv
<1>3. Abstract!Length(ArcsOfWalk(w))
        = Abstract!SumFunction([k \in DOMAIN ArcsOfWalk(w) |-> weight_A[ArcsOfWalk(w)[k]]])
  BY Zenon DEF Abstract!Length, weight_A, WeightOfArcs
<1>4. weight_A = WeightOfArcs
  BY DEF weight_A
<1>5. Abstract!Length(ArcsOfWalk(w))
        = SumFunction([k \in DOMAIN ArcsOfWalk(w) |-> weight_A[ArcsOfWalk(w)[k]]])
  BY <1>3, SameSum, Zenon
<1> QED
  BY <1>2, <1>4, <1>5, Zenon

LEMMA InitRefines == ASSUME Init PROVE Abstract!Init
<1>1. ~Answered
  BY DEF Init, Answered
<1> QED
  BY <1>1, Mapped DEF Abstract!Init

(* The weights of the arcs, given those of the edges. *)
Weighting(wt) == [a \in Range(FileArcs[file]) |-> wt[IndexOfArc(a)]]

LEMMA WeightingFacts ==
  ASSUME IndInv, AllRead, NEW wt
  PROVE  /\ DOMAIN Weighting(wt) = {FileArcs[file][k] : k \in DOMAIN edges}
         /\ \A k \in DOMAIN edges : Weighting(wt)[FileArcs[file][k]] = wt[k]
<1>1. DOMAIN edges = DOMAIN FileArcs[file] /\ file \in SimpleFiles
  BY ReadFacts DEF IndInv, AllRead
<1>2. Range(FileArcs[file]) = {FileArcs[file][k] : k \in DOMAIN edges}
  BY <1>1 DEF Range
<1> QED
  BY <1>1, <1>2, IndexFacts DEF Weighting

LEMMA NextWeighting ==
  ASSUME file' = file
  PROVE  WeightOfArcs' = Weighting(weight')
<1>1. \A a : IndexOfArc(a)' = IndexOfArc(a)
  BY DEF IndexOfArc
<1>2. WeightOfArcs' = [a \in Range(FileArcs[file]) |-> weight'[IndexOfArc(a)']]
  BY Zenon DEF WeightOfArcs
<1> QED
  BY <1>1, <1>2 DEF Weighting

(* The end of the constructor. *)
LEMMA FileReadRefines ==
  ASSUME IndInv, IndInv', FileRead, file \in SimpleFiles
  PROVE  Abstract!Construct
<1>1. /\ ~Answered /\ Answered' /\ AllRead /\ AllRead'
      /\ stage = "reading" /\ UNCHANGED <<file, weight, edges, call, answer>>
  <2>1. stage = "reading" /\ stage' # "reading" /\ next = Len(Content[file]) + 1
        /\ UNCHANGED <<file, next, edges, weight, call, answer>>
    BY DEF FileRead, readVars, graphVars, pathVars
  <2> QED
    BY <2>1 DEF Answered, AllRead
<1>2. weight_A = << >> /\ UNCHANGED <<call_A, answer_A>>
  BY <1>1 DEF weight_A, call_A, answer_A, IndInv, CacheInv
<1>3. weight_A' = WeightOfArcs' /\ paths_A' = FilePaths[file]
  BY <1>1 DEF weight_A, paths_A
<1>4. /\ DOMAIN WeightOfArcs = {FileArcs[file][k] : k \in DOMAIN edges}
      /\ \A k \in DOMAIN edges : WeightOfArcs[FileArcs[file][k]] = weight[k]
  BY <1>1, WeightingFacts DEF WeightOfArcs, Weighting
<1>5. WeightOfArcs' = WeightOfArcs
  BY <1>1, NextWeighting DEF WeightOfArcs, Weighting
<1>6. \A k \in DOMAIN edges : weight[k] = 0
  BY <1>1 DEF IndInv, CacheInv
<1>7. WeightOfArcs = [a \in DOMAIN WeightOfArcs |-> 0]
  <2>1. WeightOfArcs = [a \in DOMAIN WeightOfArcs |-> WeightOfArcs[a]]
    BY DEF WeightOfArcs
  <2>2. \A a \in DOMAIN WeightOfArcs : WeightOfArcs[a] = 0
    BY <1>4, <1>6
  <2> QED
    BY <2>1, <2>2
<1>8. \A p \in FilePaths[file] : Range(p) \subseteq DOMAIN WeightOfArcs
  <2> SUFFICES ASSUME NEW p \in FilePaths[file]
               PROVE  Range(p) \subseteq Range(FileArcs[file])
    BY DEF WeightOfArcs
  <2>1. p \in PathsOfArcs(file)
    BY <1>1, SimpleFileAssumption
  <2>2. PICK n \in 1 .. NodeCount(file) : p \in [1 .. n -> Range(FileArcs[file])]
    BY <2>1 DEF PathsOfArcs
  <2> QED
    BY <2>2 DEF Range
<1>9. /\ weight_A' = [a \in DOMAIN weight_A' |-> 0]
      /\ \A p \in paths_A' : Range(p) \subseteq DOMAIN weight_A'
  BY <1>3, <1>5, <1>7, <1>8
<1>10. \A p : Abstract!Range(p) = Range(p)
  BY DEF Abstract!Range, Range
<1> QED
  BY <1>2, <1>9, <1>10
     DEF Abstract!Construct, paths_A, weight_A, call_A, answer_A, WeightOfArcs

LEMMA ResetRefines ==
  ASSUME IndInv, IndInv', Answered, ResetEdgeWeights
  PROVE  Abstract!ResetEdgeWeights
<1>1. /\ Answered' /\ AllRead /\ AllRead' /\ UNCHANGED <<file, edges>>
      /\ weight' = [k \in DOMAIN edges |-> 0] /\ answer' = NoAnswer /\ call' = [op |-> "reset"]
  BY DEF ResetEdgeWeights, Answered, AllRead, readVars, graphVars
<1>2. WeightOfArcs' = Weighting(weight') /\ WeightOfArcs = Weighting(weight)
  BY <1>1, NextWeighting DEF WeightOfArcs, Weighting
<1>3. WeightOfArcs' = [a \in DOMAIN WeightOfArcs |-> 0]
  <2>1. Weighting(weight') = [a \in DOMAIN Weighting(weight) |-> Weighting(weight')[a]]
    BY DEF Weighting
  <2>2. /\ DOMAIN Weighting(weight) = {FileArcs[file][k] : k \in DOMAIN edges}
        /\ DOMAIN Weighting(weight') = {FileArcs[file][k] : k \in DOMAIN edges}
        /\ \A k \in DOMAIN edges : Weighting(weight')[FileArcs[file][k]] = weight'[k]
    BY <1>1, WeightingFacts
  <2>3. DOMAIN Weighting(weight') = DOMAIN Weighting(weight)
    BY <2>2
  <2>4. \A a \in DOMAIN Weighting(weight) : Weighting(weight')[a] = 0
    BY <1>1, <2>2
  <2> QED
    BY <1>2, <2>1, <2>3, <2>4
<1>4. /\ weight_A' = [a \in DOMAIN weight_A |-> 0] /\ paths_A' = paths_A
      /\ call_A' = [op |-> "reset"] /\ answer_A' = NoAnswer
  BY <1>1, <1>3 DEF weight_A, call_A, answer_A, paths_A
<1> QED
  BY <1>4, Mapped DEF Abstract!ResetEdgeWeights, paths_A, weight_A, call_A, answer_A, WeightOfArcs

(* The only edge of an arc. *)
LEMMA EdgeOfArc ==
  ASSUME IndInv, AllRead, NEW k \in DOMAIN edges
  PROVE  EdgeOf(FileArcs[file][k]) = k
<1>1. EdgesRead /\ DOMAIN edges = DOMAIN FileArcs[file] /\ file \in SimpleFiles
  BY ReadFacts DEF IndInv, AllRead
<1>2. arc_to_edge[FileArcs[file][k]] = edges[k]
  BY <1>1 DEF EdgesRead
<1>3. \A j \in DOMAIN edges : edges[j] = edges[k] => j = k
  <2> SUFFICES ASSUME NEW j \in DOMAIN edges, edges[j] = edges[k]
               PROVE  j = k
    OBVIOUS
  <2>1. PICK s, t \in NodesOf(file) :
          /\ edges[k] = <<s - 1, t - 1>>
          /\ IsNode(file, s, FileArcs[file][k][1]) /\ IsNode(file, t, FileArcs[file][k][2])
    BY <1>1 DEF EdgesRead
  <2> QED
    BY <1>1, <2>1, EdgeOfFile
<1>4. k \in Nat
  <2>1. edges \in Seq((0 .. num_vertices - 1) \X (0 .. num_vertices - 1))
    BY DEF IndInv, TypeOK
  <2> QED
    BY <2>1
<1>5. /\ \E i \in DOMAIN edges :
           /\ edges[i] = arc_to_edge[FileArcs[file][k]]
           /\ \A j \in DOMAIN edges : edges[j] = arc_to_edge[FileArcs[file][k]] => i <= j
      /\ \A i \in DOMAIN edges : edges[i] = arc_to_edge[FileArcs[file][k]] => i = k
  BY <1>2, <1>3, <1>4
<1> QED
  BY <1>5 DEF EdgeOf

LEMMA PutRefines ==
  ASSUME IndInv, Answered, NEW arc \in DOMAIN arc_to_edge, NEW w,
         SetEdgeWeight(arc, w) \/ AddToEdgeWeight(arc, w)
  PROVE  Abstract!ChangeWeight
<1> DEFINE Put(old) == IF call'.op = "set" THEN w ELSE old + w
<1>1. /\ call'.op \in {"set", "add"} /\ call'.arc = arc /\ call'.value = w
      /\ PutWeight(arc, Put(weight[EdgeOf(arc)]))
  BY DEF SetEdgeWeight, AddToEdgeWeight
<1>2. /\ Answered' /\ AllRead /\ UNCHANGED <<file, edges>>
      /\ weight' = [weight EXCEPT ![EdgeOf(arc)] = Put(weight[EdgeOf(arc)])] /\ answer' = NoAnswer
  BY <1>1 DEF PutWeight, Answered, AllRead, readVars, graphVars
<1>3. PICK k \in DOMAIN edges : arc = FileArcs[file][k]
  BY <1>2, ReadFacts DEF IndInv, EdgesRead
<1>4. EdgeOf(arc) = k
  BY <1>2, <1>3, EdgeOfArc
<1> HIDE DEF Put
<1>5. /\ weight'[k] = Put(weight[k])
      /\ \A j \in DOMAIN edges : j # k => weight'[j] = weight[j]
  BY <1>2, <1>4 DEF IndInv, TypeOK
<1>6. WeightOfArcs' = Weighting(weight') /\ WeightOfArcs = Weighting(weight)
  BY <1>2, NextWeighting DEF WeightOfArcs, Weighting
<1>7. /\ DOMAIN Weighting(weight') = {FileArcs[file][j] : j \in DOMAIN edges}
      /\ DOMAIN Weighting(weight) = {FileArcs[file][j] : j \in DOMAIN edges}
      /\ \A j \in DOMAIN edges : /\ Weighting(weight')[FileArcs[file][j]] = weight'[j]
                                 /\ Weighting(weight)[FileArcs[file][j]] = weight[j]
  BY <1>2, WeightingFacts
<1>8. arc \in DOMAIN Weighting(weight) /\ Weighting(weight')[arc] = Put(Weighting(weight)[arc])
  BY <1>3, <1>5, <1>7
<1>9. ASSUME NEW b \in DOMAIN Weighting(weight) \ {arc}
      PROVE  Weighting(weight')[b] = Weighting(weight)[b]
  <2>1. PICK j \in DOMAIN edges : b = FileArcs[file][j]
    BY <1>7
  <2>2. j # k
    BY <1>3, <2>1
  <2> QED
    BY <1>5, <1>7, <2>1, <2>2
<1>10. Weighting(weight') = [Weighting(weight) EXCEPT ![arc] = Put(@)]
  <2>1. Weighting(weight') = [a \in DOMAIN Weighting(weight') |-> Weighting(weight')[a]]
    BY DEF Weighting
  <2>2. Weighting(weight) = [a \in DOMAIN Weighting(weight) |-> Weighting(weight)[a]]
    BY DEF Weighting
  <2>3. DOMAIN Weighting(weight') = DOMAIN Weighting(weight)
    BY <1>7
  <2> QED
    BY <1>8, <1>9, <2>1, <2>2, <2>3
<1>11. weight_A = Weighting(weight) /\ weight_A' = Weighting(weight')
  BY <1>2, <1>6 DEF weight_A
<1>12. paths_A' = paths_A /\ answer_A' = NoAnswer /\ call_A' = call'
  BY <1>2 DEF paths_A, call_A, answer_A
<1>13. /\ call_A'.op \in {"set", "add"} /\ call_A'.arc \in DOMAIN weight_A
       /\ weight_A' = [weight_A EXCEPT ![call_A'.arc] =
                         IF call_A'.op = "set" THEN call_A'.value ELSE @ + call_A'.value]
  BY <1>1, <1>8, <1>10, <1>11, <1>12 DEF Put
<1> QED
  BY <1>12, <1>13, Mapped, Zenon DEF Abstract!ChangeWeight, paths_A, weight_A, call_A, answer_A, WeightOfArcs

LEMMA ShortestPathRefines ==
  ASSUME IndInv, Answered, ShortestPath
  PROVE  Abstract!ShortestPath
<1>1. /\ Answered' /\ AllRead /\ UNCHANGED <<file, weight>>
  BY DEF ShortestPath, Answered, AllRead, readVars
<1>2. PICK w \in ShortestWalks : answer' = PathOf(w)
  <2>1. CASE fresh
    BY <2>1 DEF ShortestPath, IndInv, CacheInv
  <2>2. CASE ~fresh
    BY <2>2 DEF ShortestPath
  <2> QED
    BY <2>1, <2>2
<1>3. w \in SinkWalks /\ \A v \in SinkWalks : WalkLength(w) <= WalkLength(v)
  BY <1>2 DEF ShortestWalks
<1> DEFINE p == ArcsOfWalk(w)
<1>4. /\ p \in FilePaths[file]
      /\ answer' = [length |-> WalkLength(w), arcs |-> p]
  BY <1>1, <1>2, <1>3, WalkFacts DEF IndInv
<1>5. Abstract!Length(p) = WalkLength(w)
  BY <1>3, LengthOfPath
<1>6. ASSUME NEW q \in FilePaths[file]
      PROVE  Abstract!Length(p) <= Abstract!Length(q)
  <2>1. PICK v \in SinkWalks : ArcsOfWalk(v) = q
    BY <1>1, PathHasWalk DEF IndInv
  <2>2. Abstract!Length(ArcsOfWalk(v)) = WalkLength(v)
    BY LengthOfPath
  <2>3. Abstract!Length(q) = WalkLength(v)
    BY <2>1, <2>2
  <2>4. WalkLength(w) <= WalkLength(v)
    BY <1>3
  <2> QED
    BY <1>5, <2>3, <2>4
<1> HIDE DEF p
<1>7. \E r \in FilePaths[file] :
        /\ \A q \in FilePaths[file] : Abstract!Length(r) <= Abstract!Length(q)
        /\ answer' = [length |-> Abstract!Length(r), arcs |-> r]
  BY <1>4, <1>5, <1>6
<1>8. /\ paths_A = FilePaths[file] /\ paths_A' = paths_A /\ answer_A' = answer'
      /\ call_A' = [op |-> "shortest path"]
  BY <1>1 DEF paths_A, call_A, answer_A, ShortestPath
<1>9. weight_A' = weight_A
  <2>1. WeightOfArcs' = WeightOfArcs
    BY <1>1, NextWeighting DEF WeightOfArcs, Weighting
  <2> QED
    BY <1>1, <2>1 DEF weight_A
<1> QED
  BY <1>7, <1>8, <1>9 DEF Abstract!ShortestPath, paths_A, weight_A, call_A, answer_A, WeightOfArcs

(* What the callers see is unchanged. *)
LEMMA Unchanged ==
  ASSUME UNCHANGED <<readVars, weight, call, answer>>, Answered' = Answered
  PROVE  UNCHANGED Abstract!absVars
<1>1. file' = file /\ call' = call /\ answer' = answer /\ weight' = weight
  BY DEF readVars
<1>2. WeightOfArcs' = WeightOfArcs
  BY <1>1, NextWeighting DEF WeightOfArcs, Weighting
<1>3. UNCHANGED <<paths_A, weight_A, call_A, answer_A>>
  BY <1>1, <1>2 DEF paths_A, weight_A, call_A, answer_A
<1> QED
  BY <1>3 DEF Abstract!absVars, paths_A, weight_A, call_A, answer_A, WeightOfArcs

LEMMA NothingAnswered ==
  ASSUME ~Answered, ~Answered'
  PROVE  UNCHANGED Abstract!absVars
BY DEF Abstract!absVars

LEMMA StepRefines ==
  ASSUME IndInv, IndInv', [Next]_vars
  PROVE  [Abstract!Next]_(Abstract!absVars)
<1>1. CASE ReadNode \/ ReadEdge
  <2>1. stage = "reading" /\ file' = file
    BY <1>1 DEF ReadNode, ReadEdge, Reading
  <2>2. file \in SimpleFiles => stage' = "reading"
    BY <1>1, ReadNodeSimple, ReadEdgeSimple DEF IndInv
  <2> QED
    BY <2>1, <2>2, NothingAnswered DEF Answered
<1>2. CASE EdgeWithoutNode \/ ReadMalformed
  <2>1. file \notin SimpleFiles
    <3> SUFFICES ASSUME file \in SimpleFiles
                 PROVE  FALSE
      OBVIOUS
    <3>1. CASE EdgeWithoutNode
      BY <3>1, NextEdge DEF EdgeWithoutNode, IndInv
    <3>2. CASE ReadMalformed
      <4>1. next <= Len(Content[file]) /\ Element.tag = "malformed"
        BY <3>2 DEF ReadMalformed, Reading
      <4>2. next \in Nat /\ NodeCount(file) \in Nat
        BY SimpleFacts DEF IndInv, TypeOK
      <4> QED
        BY <4>1, <4>2, SimpleElement DEF IndInv
    <3> QED
      BY <1>2, <3>1, <3>2
  <2>2. file' = file
    BY <1>2 DEF EdgeWithoutNode, ReadMalformed, readVars
  <2> QED
    BY <2>1, <2>2, NothingAnswered DEF Answered
<1>3. CASE FileRead
  <2>1. CASE file \in SimpleFiles
    BY <1>3, <2>1, FileReadRefines DEF Abstract!Next
  <2>2. CASE file \notin SimpleFiles
    <3>1. file' = file
      BY <1>3 DEF FileRead, readVars
    <3> QED
      BY <2>2, <3>1, NothingAnswered DEF Answered
  <2> QED
    BY <2>1, <2>2
<1>4. CASE ForeignArc \/ SinkNotReached \/ Stopped \/ UNCHANGED vars
  <2>1. /\ UNCHANGED <<readVars, weight, call, answer>>
        /\ stage' = "reading" <=> stage = "reading"
    BY <1>4 DEF ForeignArc, SinkNotReached, Stopped, vars, pathVars
  <2>2. Answered' = Answered
    BY <2>1 DEF Answered, readVars
  <2> QED
    BY <2>1, <2>2, Unchanged
<1>5. ASSUME stage = "usable", stage' = "usable", UNCHANGED readVars, ~Answered
      PROVE  [Abstract!Next]_(Abstract!absVars)
  BY <1>5, NothingAnswered DEF Answered, readVars
<1>6. CASE ResetEdgeWeights
  BY <1>5, <1>6, ResetRefines DEF ResetEdgeWeights, Abstract!Next
<1>7. ASSUME NEW arc \in DOMAIN arc_to_edge, NEW w, SetEdgeWeight(arc, w) \/ AddToEdgeWeight(arc, w)
      PROVE  [Abstract!Next]_(Abstract!absVars)
  <2>1. \E v : PutWeight(arc, v)
    BY <1>7 DEF SetEdgeWeight, AddToEdgeWeight
  <2> QED
    BY <1>5, <1>7, <2>1, PutRefines DEF PutWeight, Abstract!Next
<1>8. CASE ShortestPath
  BY <1>5, <1>8, ShortestPathRefines DEF ShortestPath, Abstract!Next
<1> QED
  BY <1>1, <1>2, <1>3, <1>4, <1>6, <1>7, <1>8 DEF Next, Constructor, Method

(* For every simple graph file and any calls, the reader, the maps between *)
(* arcs and edges, the graph and the cached path implement a set of        *)
(* weighted paths: an answer is always a shortest path under the weights   *)
(* that the callers have set for the arcs.                                 *)
THEOREM NetworkImplements == Spec => ImplementsWeightedPaths
<1>1. Init => IndInv /\ Abstract!Init
  BY InitInv, InitRefines
<1>2. IndInv /\ [Next]_vars => IndInv'
  BY StepInv
<1>3. IndInv /\ IndInv' /\ [Next]_vars => [Abstract!Next]_(Abstract!absVars)
  BY StepRefines
<1> QED
  BY <1>1, <1>2, <1>3, PTL DEF Spec, ImplementsWeightedPaths, Abstract!Spec

=============================================================================
