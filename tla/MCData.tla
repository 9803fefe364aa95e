-------------------------------- MODULE MCData --------------------------------
(***************************************************************************)
(* Small instances of PricingData for TLC: three networks, five paths.     *)
(*                                                                         *)
(*   north:  source --n1--> . --n2--> sink, and . --n3--> sink             *)
(*   south:  source --s1--> sink, and source --s2--> . --s3--> sink        *)
(*   east:   source --e1--> sink                                           *)
(***************************************************************************)
EXTENDS Integers, Sequences

MCGroups == {"north", "south", "east"}
MCArcs == {"n1", "n2", "n3", "s1", "s2", "s3", "e1"}
MCPaths == {"n1n2", "n1n3", "s1", "s2s3", "e1"}

MCGroupOf == [a \in MCArcs |->
  CASE a \in {"n1", "n2", "n3"} -> "north"
    [] a \in {"s1", "s2", "s3"} -> "south"
    [] a = "e1" -> "east"]

MCPathGroup == [p \in MCPaths |->
  CASE p \in {"n1n2", "n1n3"} -> "north"
    [] p \in {"s1", "s2s3"} -> "south"
    [] p = "e1" -> "east"]

MCArcsOf == [p \in MCPaths |->
  CASE p = "n1n2" -> <<"n1", "n2">>
    [] p = "n1n3" -> <<"n1", "n3">>
    [] p = "s1"   -> <<"s1">>
    [] p = "s2s3" -> <<"s2", "s3">>
    [] p = "e1"   -> <<"e1">>]

MCConstraints == {"c", "d"}

Y(a, k) == [arc |-> a, coeff |-> k]

(* Arc n2 is in both constraints: two tasks write the weight of its edge.  *)
SharedEntries == [c \in MCConstraints |->
  CASE c = "c" -> <<Y("n2", 2), Y("s1", -1)>>
    [] c = "d" -> <<Y("n2", 1), Y("n3", 1), Y("e1", 1)>>]

(* Each arc is in one constraint. *)
PrivateEntries == [c \in MCConstraints |->
  CASE c = "c" -> <<Y("n2", 1), Y("s1", 1), Y("s3", 2)>>
    [] c = "d" -> <<Y("n3", 1), Y("e1", -1)>>]

MCDualVectors == [MCConstraints -> {-1, 0, 1}]

(* The signs of both duals, none, and one alone. *)
MCFewDualVectors == {v \in MCDualVectors : v["c"] = 1 \/ (v["c"] = 0 <=> v["d"] = 0)}

(* With Epsilon = 1: values below, at and above it. *)
MCWideDualVectors == [MCConstraints -> -3 .. 3]

=============================================================================
