----------------------------- MODULE PricingData -----------------------------
(***************************************************************************)
(* The data a pricing round reads and never changes: what DataManager      *)
(* holds when initialize_container has returned, and what SCIP computes    *)
(* from it.                                                                *)
(*                                                                         *)
(* A network is abstracted to the set of its source-to-sink paths.  A      *)
(* double that is a sum of products "coefficient * dual" is abstracted to  *)
(* the set of the summands: an entry <<c, i>> is the i-th element of       *)
(* Constraint::arcs of constraint c, a summand <<x, v>> is the coefficient *)
(* of entry x times -v, where v was the dual of x's constraint.  Cost adds *)
(* them up (integers instead of doubles: rounding is not modelled).        *)
(***************************************************************************)
EXTENDS Integers, Sequences, FiniteSets, Functions

CONSTANTS
  Groups,       \* keys of DataManager::networks_
  Arcs,         \* the arcs of the networks
  Paths,        \* the source-to-sink paths of the networks
  Constraints,  \* DataManager::constraints_, the constraints that contained a y-variable
  GroupOf,      \* arc -> group, DataManager::get_network(arc)
  PathGroup,    \* path -> group, Path::network_group
  ArcsOf,       \* path -> its arcs, Path::arcs
  Entries,      \* constraint -> its y-variables, Constraint::arcs
  DualVectors,  \* the dual solutions or Farkas rays SCIP can come up with
  Epsilon       \* numerics/epsilon of SCIP: what SCIPisZero and SCIPisNegative ignore

(* Each network has a path: shortest_path asserts that the sink is reached. *)
(* Each constraint has an entry: generate_maps stores no other.  Both come *)
(* from files, so there are finitely many.                                 *)
ASSUME DataAssumption ==
  /\ IsFiniteSet(Groups)
  /\ IsFiniteSet(Constraints)
  /\ GroupOf \in [Arcs -> Groups]
  /\ PathGroup \in [Paths -> Groups]
  /\ ArcsOf \in [Paths -> Seq(Arcs)]
  /\ \A p \in Paths : \A i \in DOMAIN ArcsOf[p] : GroupOf[ArcsOf[p][i]] = PathGroup[p]
  /\ \A g \in Groups : \E p \in Paths : PathGroup[p] = g
  /\ Entries \in [Constraints -> Seq([arc : Arcs, coeff : Int])]
  /\ \A c \in Constraints : Entries[c] # << >>
  /\ DualVectors \subseteq [Constraints -> Int]
  /\ [c \in Constraints |-> 0] \in DualVectors
  /\ Epsilon \in Nat

-----------------------------------------------------------------------------

Terms == UNION {{c} \X (1 .. Len(Entries[c])) : c \in Constraints}

ArcOf(x) == Entries[x[1]][x[2]].arc

Coefficient(x) == Entries[x[1]][x[2]].coeff

(* DataManager::get_constraints_of_arc: every entry that mentions the arc. *)
TermsOf(a) == {x \in Terms : ArcOf(x) = a}

PathTerms(p) == UNION {TermsOf(a) : a \in Range(ArcsOf[p])}

DualValues == {d[c] : d \in DualVectors, c \in Constraints}

Summands == Terms \X DualValues

(* The summands that the entries in S contribute under the duals d. *)
Priced(S, d) == {<<x, d[x[1]]>> : x \in S}

Cost(summands) == SumFunction([s \in summands |-> Coefficient(s[1]) * (-s[2])])

(* Reduced cost of a column with the coefficients S; its objective is 0. *)
ReducedCost(S, d) == Cost(Priced(S, d))

IsNegative(v) == v < -Epsilon

IsZero(v) == -Epsilon <= v /\ v <= Epsilon

(* What the length of path p may lack because a dual of d is taken for 0.  *)
Hidden(p, d) ==
  Epsilon * SumFunction([x \in {y \in PathTerms(p) : d[y[1]] # 0 /\ IsZero(d[y[1]])} |->
               IF Coefficient(x) < 0 THEN -Coefficient(x) ELSE Coefficient(x)])

PathsOf(g) == {p \in Paths : PathGroup[p] = g}

=============================================================================
