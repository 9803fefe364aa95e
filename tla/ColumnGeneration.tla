--------------------------- MODULE ColumnGeneration ---------------------------
(***************************************************************************)
(* What column generation promises, with no thread, network or task in it. *)
(* SCIP solves the restricted master problem over the generated paths and  *)
(* asks the pricer for new ones; the pricer adds paths that price out, or  *)
(* none when there is none: "we can guarantee either a new variable or     *)
(* optimality" (ObjPricerGFCG::scip_redcost).  "Prices out" allows for the *)
(* tolerance: what the duals hide from a path (PricingData).               *)
(***************************************************************************)
EXTENDS PricingData

VARIABLES
  status,     \* "lp" while SCIP solves, "pricing", or how the solve ended
  dual,       \* the duals of the last restricted master problem
  base,       \* the paths that restricted master problem had
  added       \* the paths added since

absVars == <<status, dual, base, added>>

Final == {"optimal", "infeasible"}

Init ==
  /\ status = "lp"
  /\ dual \in DualVectors
  /\ base = {}
  /\ added = {}

(* Duals of a solved LP price every column of it at zero or above. *)
SolveMaster ==
  /\ status = "lp"
  /\ \E d \in DualVectors :
       /\ \A p \in base \cup added : ReducedCost(PathTerms(p), d) >= 0
       /\ dual' = d
  /\ status' = "pricing"
  /\ base' = base \cup added
  /\ added' = {}

(* No path twice in a round; with Epsilon = 0 no path of base either. *)
AddColumn ==
  /\ status = "pricing"
  /\ \E p \in Paths \ added :
       /\ IsNegative(ReducedCost(PathTerms(p), dual) - Hidden(p, dual))
       /\ added' = added \cup {p}
  /\ UNCHANGED <<status, dual, base>>

NewColumns ==
  /\ status = "pricing"
  /\ added # {}
  /\ status' = "lp"
  /\ UNCHANGED <<dual, base, added>>

NoColumn ==
  /\ status = "pricing"
  /\ added = {}
  /\ \A p \in Paths : ~IsNegative(ReducedCost(PathTerms(p), dual) + Hidden(p, dual))
  /\ status' \in Final
  /\ UNCHANGED <<dual, base, added>>

Next == SolveMaster \/ AddColumn \/ NewColumns \/ NoColumn

Spec == Init /\ [][Next]_absVars

=============================================================================
