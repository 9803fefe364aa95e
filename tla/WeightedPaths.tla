---------------------------- MODULE WeightedPaths ----------------------------
(***************************************************************************)
(* What a Network promises to the pricers, with no file, graph, map or     *)
(* cache in it: a fixed set of paths, a weight for each arc, and a         *)
(* shortest_path that always gives a path no other undercuts.  A path      *)
(* lists its arcs from the sink back to the source.                        *)
(***************************************************************************)
EXTENDS Integers, Sequences, Functions

VARIABLES
  paths,    \* the source-to-sink paths, none before the file is read
  weight,   \* arc -> Int
  call,     \* the last call and its arguments
  answer    \* what it returned, or NoAnswer

absVars == <<paths, weight, call, answer>>

NoCall   == [op |-> "none"]
NoAnswer == [length |-> 0, arcs |-> << >>]

Length(p) == SumFunction([k \in DOMAIN p |-> weight[p[k]]])

Init ==
  /\ paths = {}
  /\ weight = << >>
  /\ call = NoCall
  /\ answer = NoAnswer

Construct ==
  /\ weight = << >>
  /\ weight' = [a \in DOMAIN weight' |-> 0]
  /\ \A p \in paths' : Range(p) \subseteq DOMAIN weight'
  /\ UNCHANGED <<call, answer>>

ResetEdgeWeights ==
  /\ call' = [op |-> "reset"]
  /\ weight' = [a \in DOMAIN weight |-> 0]
  /\ answer' = NoAnswer
  /\ UNCHANGED paths

(* The arc of the call gets the weight, and no other arc does. *)
ChangeWeight ==
  /\ call'.op \in {"set", "add"}
  /\ call'.arc \in DOMAIN weight
  /\ weight' = [weight EXCEPT ![call'.arc] = IF call'.op = "set" THEN call'.value ELSE @ + call'.value]
  /\ answer' = NoAnswer
  /\ UNCHANGED paths

ShortestPath ==
  /\ call' = [op |-> "shortest path"]
  /\ \E p \in paths :
       /\ \A q \in paths : Length(p) <= Length(q)
       /\ answer' = [length |-> Length(p), arcs |-> p]
  /\ UNCHANGED <<paths, weight>>

Next == Construct \/ ResetEdgeWeights \/ ChangeWeight \/ ShortestPath

Spec == Init /\ [][Next]_absVars

=============================================================================
