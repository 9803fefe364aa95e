------------------------- MODULE ObjPricerGFCG_proofs -------------------------
(***************************************************************************)
(* Lemmas about the pricing round, for the theorems of FullPricer_proofs   *)
(* and Pricers_proofs: the costs of PricingData as sums, the types         *)
(* and the cache, the weights, and what the threads of a round do to the   *)
(* columns.  The last is proved for both pricers at once: each of their    *)
(* steps is of one of a few kinds, see AnyStep, and every invariant of the *)
(* columns is kept by every kind.                                          *)
(***************************************************************************)
EXTENDS ObjPricerGFCG, Sums_proofs

-----------------------------------------------------------------------------
(* Costs *)

LEMMA SeqElement ==
  ASSUME NEW S, NEW s \in Seq(S), NEW i \in 1 .. Len(s)
  PROVE  s[i] \in S /\ Len(s) \in Nat
OBVIOUS

(* An entry of Constraint::arcs. *)
LEMMA EntryType ==
  ASSUME NEW c \in Constraints, NEW i \in 1 .. Len(Entries[c])
  PROVE  /\ <<c, i>> \in Terms
         /\ Entries[c][i] \in [arc : Arcs, coeff : Int]
         /\ Len(Entries[c]) \in Nat
<1>1. Entries[c] \in Seq([arc : Arcs, coeff : Int])
  BY DataAssumption
<1>2. Entries[c][i] \in [arc : Arcs, coeff : Int] /\ Len(Entries[c]) \in Nat
  BY <1>1, SeqElement
<1>3. <<c, i>> \in Terms
  BY DEF Terms
<1> QED
  BY <1>2, <1>3

LEMMA TermType ==
  ASSUME NEW x \in Terms
  PROVE  /\ x = <<x[1], x[2]>>
         /\ x[1] \in Constraints
         /\ x[2] \in 1 .. Len(Entries[x[1]])
         /\ Len(Entries[x[1]]) \in Nat
         /\ x[2] \in Nat
         /\ ArcOf(x) \in Arcs
         /\ Coefficient(x) \in Int
<1>1. PICK c \in Constraints : x \in {c} \X (1 .. Len(Entries[c]))
  BY DEF Terms
<1>2. x[1] = c /\ x[2] \in 1 .. Len(Entries[c]) /\ x = <<x[1], x[2]>>
  BY <1>1
<1>3. /\ Entries[c][x[2]] \in [arc : Arcs, coeff : Int]
      /\ Len(Entries[c]) \in Nat
  BY <1>2, EntryType
<1> QED
  BY <1>2, <1>3 DEF ArcOf, Coefficient

LEMMA TermsFinite == IsFiniteSet(Terms)
<1> DEFINE Row == [c \in Constraints |-> {c} \X (1 .. Len(Entries[c]))]
           Rows == {{c} \X (1 .. Len(Entries[c])) : c \in Constraints}
<1>1. IsFiniteSet(Rows)
  <2>1. Row \in Surjection(Constraints, Rows)
    BY DEF Surjection
  <2> HIDE DEF Row, Rows
  <2> QED
    BY <2>1, FS_Surjection, DataAssumption
<1>2. ASSUME NEW R \in Rows
      PROVE  IsFiniteSet(R)
  <2>1. PICK c \in Constraints : R = {c} \X (1 .. Len(Entries[c]))
    OBVIOUS
  <2>2. Len(Entries[c]) \in Nat
    <3>1. Entries[c] \in Seq([arc : Arcs, coeff : Int])
      BY DataAssumption
    <3> QED
      BY <3>1
  <2>3. IsFiniteSet(1 .. Len(Entries[c]))
    BY <2>2, FS_Interval
  <2>4. IsFiniteSet({c})
    BY FS_Singleton
  <2> QED
    BY <2>1, <2>3, <2>4, FS_Product
<1> HIDE DEF Rows
<1>3. IsFiniteSet(UNION Rows)
  BY <1>1, <1>2, FS_UNION
<1> QED
  BY <1>3 DEF Terms, Rows

LEMMA DualType ==
  ASSUME NEW d \in DualVectors, NEW x \in Terms
  PROVE  d[x[1]] \in Int
BY TermType, DataAssumption

(* Priced is one to one. *)
LEMMA PricedRemove ==
  ASSUME NEW S \in SUBSET Terms, NEW d, NEW x \in S
  PROVE  /\ <<x, d[x[1]]>> \in Priced(S, d)
         /\ Priced(S \ {x}, d) = Priced(S, d) \ {<<x, d[x[1]]>>}
BY DEF Priced

LEMMA PricedFinite ==
  ASSUME NEW S \in SUBSET Terms, NEW d
  PROVE  IsFiniteSet(Priced(S, d))
<1> DEFINE f == [x \in S |-> <<x, d[x[1]]>>]
<1>1. f \in Surjection(S, Priced(S, d))
  BY DEF Surjection, Priced
<1>2. IsFiniteSet(S)
  BY TermsFinite, FS_Subset
<1> HIDE DEF f
<1> QED
  BY <1>1, <1>2, FS_Surjection

LEMMA NoReducedCost ==
  ASSUME NEW d, NEW S, S = {}
  PROVE  ReducedCost(S, d) = 0
<1> DEFINE P == Priced(S, d)
           f == [s \in P |-> Coefficient(s[1]) * (-s[2])]
<1>1. P = {}
  BY DEF Priced
<1>2. Cost(P) = SumFunction(f)
  BY DEF Cost
<1>3. f = [s \in P |-> f[s]]
  OBVIOUS
<1> HIDE DEF P, f
<1>4. SumFunction([s \in P |-> f[s]]) = 0
  BY <1>1, SumEmpty
<1> QED
  BY <1>2, <1>3, <1>4, Zenon DEF ReducedCost, P

LEMMA ReducedCostRemove ==
  ASSUME NEW S \in SUBSET Terms, NEW d \in DualVectors, NEW x \in S
  PROVE  /\ ReducedCost(S, d) \in Int
         /\ ReducedCost(S \ {x}, d) \in Int
         /\ ReducedCost(S, d) = Coefficient(x) * (-d[x[1]]) + ReducedCost(S \ {x}, d)
<1> DEFINE P == Priced(S, d)
           f == [s \in P |-> Coefficient(s[1]) * (-s[2])]
           x0 == <<x, d[x[1]]>>
<1>1. f \in [P -> Int]
  <2> SUFFICES ASSUME NEW s \in P
               PROVE  Coefficient(s[1]) * (-s[2]) \in Int
    OBVIOUS
  <2>1. PICK y \in S : s = <<y, d[y[1]]>>
    BY DEF Priced
  <2>2. Coefficient(y) \in Int /\ d[y[1]] \in Int
    BY TermType, DualType
  <2> QED
    BY <2>1, <2>2
<1>2. x0 \in P /\ Priced(S \ {x}, d) = P \ {x0}
  BY PricedRemove
<1>3. IsFiniteSet(P)
  BY PricedFinite
<1>4. f[x0] = Coefficient(x) * (-d[x[1]])
  BY <1>2
<1>5. [s \in P \ {x0} |-> f[s]] = [s \in P \ {x0} |-> Coefficient(s[1]) * (-s[2])]
  OBVIOUS
<1>6. Cost(P) = SumFunction(f) /\ Cost(P \ {x0}) = SumFunction([s \in P \ {x0} |-> f[s]])
  BY <1>5 DEF Cost
<1> HIDE DEF f, P
<1>7. /\ SumFunction(f) \in Int
      /\ SumFunction([s \in P \ {x0} |-> f[s]]) \in Int
      /\ SumFunction(f) = f[x0] + SumFunction([s \in P \ {x0} |-> f[s]])
  BY <1>1, <1>2, <1>3, SumRemove, ZenonT(40)
<1> QED
  BY <1>2, <1>4, <1>6, <1>7 DEF ReducedCost, P

LEMMA ReducedCostInt ==
  ASSUME NEW S \in SUBSET Terms, NEW d \in DualVectors
  PROVE  ReducedCost(S, d) \in Int
<1>1. CASE S = {}
  BY <1>1, NoReducedCost
<1>2. CASE S # {}
  BY <1>2, ReducedCostRemove
<1> QED
  BY <1>1, <1>2

-----------------------------------------------------------------------------
(* What the tolerance hides: the pricer skips a dual that SCIPisZero takes *)
(* for zero, so the length of a path is the cost of its visible terms.     *)

Visible(S, d) == {x \in S : ~IsZero(d[x[1]])}

HiddenIn(S, d) == {x \in S : d[x[1]] # 0 /\ IsZero(d[x[1]])}

Absolute(x) == IF Coefficient(x) < 0 THEN -Coefficient(x) ELSE Coefficient(x)

Slack(S, d) == SumFunction([x \in HiddenIn(S, d) |-> Absolute(x)])

LEMMA SlackRemove ==
  ASSUME NEW S \in SUBSET Terms, NEW d, NEW x \in HiddenIn(S, d)
  PROVE  /\ Slack(S, d) \in Int
         /\ Slack(S \ {x}, d) \in Int
         /\ Slack(S, d) = Absolute(x) + Slack(S \ {x}, d)
<1> DEFINE H == HiddenIn(S, d)
           f == [y \in H |-> Absolute(y)]
<1>1. H \subseteq Terms /\ HiddenIn(S \ {x}, d) = H \ {x}
  BY DEF HiddenIn
<1>2. f \in [H -> Int]
  BY <1>1, TermType DEF Absolute
<1>3. IsFiniteSet(H)
  BY <1>1, TermsFinite, FS_Subset
<1>4. [y \in H \ {x} |-> f[y]] = [y \in H \ {x} |-> Absolute(y)]
  OBVIOUS
<1>5. f[x] = Absolute(x)
  OBVIOUS
<1>6. Slack(S, d) = SumFunction(f) /\ Slack(S \ {x}, d) = SumFunction([y \in H \ {x} |-> f[y]])
  BY <1>1, <1>4 DEF Slack
<1> HIDE DEF f, H
<1>7. x \in H
  BY DEF H
<1> QED
  BY <1>2, <1>3, <1>5, <1>6, <1>7, SumRemove

LEMMA SlackEmpty ==
  ASSUME NEW S, NEW d, HiddenIn(S, d) = {}
  PROVE  Slack(S, d) = 0
<1> DEFINE H == HiddenIn(S, d)
           f == [y \in H |-> Absolute(y)]
<1>1. f = [y \in H |-> f[y]] /\ Slack(S, d) = SumFunction(f)
  BY DEF Slack
<1>2. H = {}
  OBVIOUS
<1> HIDE DEF H, f
<1>3. SumFunction([y \in H |-> f[y]]) = 0
  BY <1>2, SumEmpty
<1> QED
  BY <1>1, <1>3, Zenon

LEMMA SlackInt ==
  ASSUME NEW S \in SUBSET Terms, NEW d
  PROVE  Slack(S, d) \in Int
<1>1. CASE HiddenIn(S, d) = {}
  BY <1>1, SlackEmpty
<1>2. CASE HiddenIn(S, d) # {}
  BY <1>2, SlackRemove
<1> QED
  BY <1>1, <1>2

(* A hidden term contributes at most Epsilon times its coefficient. *)
LEMMA HiddenTerm ==
  ASSUME NEW k \in Int, NEW v \in Int, NEW e \in Nat, -e <= v, v <= e,
         NEW a \in Int, a = IF k < 0 THEN -k ELSE k
  PROVE  -(e * a) <= k * (-v) /\ k * (-v) <= e * a
<1>1. a >= 0 /\ (k = a \/ k = -a)
  OBVIOUS
<1>2. a * v <= a * e /\ -(a * e) <= a * v
  BY <1>1
<1>3. k * (-v) = -(a * v) \/ k * (-v) = a * v
  BY <1>1
<1> QED
  BY <1>2, <1>3

LEMMA VisibleCost ==
  ASSUME NEW d \in DualVectors, NEW S \in SUBSET Terms
  PROVE  /\ ReducedCost(Visible(S, d), d) <= ReducedCost(S, d) + Epsilon * Slack(S, d)
         /\ ReducedCost(S, d) - Epsilon * Slack(S, d) <= ReducedCost(Visible(S, d), d)
<1> DEFINE Near(s) == /\ ReducedCost(Visible(s, d), d) <= ReducedCost(s, d) + Epsilon * Slack(s, d)
                      /\ ReducedCost(s, d) - Epsilon * Slack(s, d) <= ReducedCost(Visible(s, d), d)
           Bad == {s \in SUBSET Terms : ~Near(s)}
<1> SUFFICES ASSUME Bad # {}
             PROVE  FALSE
  OBVIOUS
<1>1. PICK m \in Bad : \A s \in Bad : ~(s \subseteq m /\ s # m)
  <2>1. Bad \in SUBSET SUBSET Terms
    OBVIOUS
  <2> HIDE DEF Bad
  <2> QED
    BY <2>1, MinimalSubset, TermsFinite
<1>2. m \in SUBSET Terms /\ ~Near(m)
  OBVIOUS
<1>3. \A s \in SUBSET m : s # m => Near(s)
  BY <1>1, <1>2
<1> HIDE DEF Bad
<1>4. Epsilon \in Nat
  BY DataAssumption
<1>5. CASE m = {}
  <2>1. Visible(m, d) = {} /\ HiddenIn(m, d) = {}
    BY <1>5 DEF Visible, HiddenIn
  <2>2. ReducedCost(m, d) = 0 /\ ReducedCost(Visible(m, d), d) = 0 /\ Slack(m, d) = 0
    BY <1>5, <2>1, NoReducedCost, SlackEmpty
  <2> QED
    BY <1>2, <1>4, <2>2
<1>6. ASSUME NEW x \in m
      PROVE  FALSE
  <2> DEFINE u == m \ {x}
             k == Coefficient(x)
             v == d[x[1]]
  <2>1. u \in SUBSET Terms /\ Near(u)
    BY <1>2, <1>3
  <2>2. k \in Int /\ v \in Int
    BY <1>2, TermType, DualType
  <2>3. /\ ReducedCost(m, d) = k * (-v) + ReducedCost(u, d)
        /\ ReducedCost(m, d) \in Int /\ ReducedCost(u, d) \in Int
    BY <1>2, ReducedCostRemove
  <2>4. Visible(u, d) \in SUBSET Terms /\ Visible(m, d) \in SUBSET Terms
    BY <1>2 DEF Visible
  <2>5. ReducedCost(Visible(u, d), d) \in Int /\ Slack(u, d) \in Int
    BY <2>1, <2>4, ReducedCostInt, SlackInt
  <2>6. CASE ~IsZero(v)
    <3>1. x \in Visible(m, d) /\ Visible(u, d) = Visible(m, d) \ {x} /\ HiddenIn(u, d) = HiddenIn(m, d)
      BY <2>6 DEF Visible, HiddenIn
    <3>2. ReducedCost(Visible(m, d), d) = k * (-v) + ReducedCost(Visible(u, d), d)
      <4>1. ReducedCost(Visible(m, d), d) = Coefficient(x) * (-d[x[1]]) + ReducedCost(Visible(m, d) \ {x}, d)
        BY <2>4, <3>1, ReducedCostRemove
      <4> QED
        BY <3>1, <4>1, Zenon
    <3>3. Slack(m, d) = Slack(u, d)
      BY <3>1 DEF Slack
    <3>4. k * (-v) \in Int /\ Epsilon * Slack(u, d) \in Int
      BY <1>4, <2>2, <2>5
    <3> HIDE DEF u, k, v
    <3> QED
      BY <1>2, <2>1, <2>3, <2>5, <3>2, <3>3, <3>4
  <2>7. CASE IsZero(v) /\ v = 0
    <3>1. Visible(u, d) = Visible(m, d) /\ HiddenIn(u, d) = HiddenIn(m, d)
      BY <2>7 DEF Visible, HiddenIn
    <3>2. Slack(m, d) = Slack(u, d)
      BY <3>1 DEF Slack
    <3>3. k * (-v) = 0
      BY <2>2, <2>7
    <3>4. Epsilon * Slack(u, d) \in Int
      BY <1>4, <2>5
    <3> HIDE DEF u, k, v
    <3> QED
      BY <1>2, <2>1, <2>3, <2>5, <3>1, <3>2, <3>3, <3>4
  <2>8. CASE IsZero(v) /\ v # 0
    <3>1. x \in HiddenIn(m, d) /\ Visible(u, d) = Visible(m, d)
      BY <2>8 DEF Visible, HiddenIn
    <3>2. Slack(m, d) = Absolute(x) + Slack(u, d)
      BY <1>2, <3>1, SlackRemove
    <3>3. Absolute(x) \in Int
      BY <2>2 DEF Absolute
    <3>4. -(Epsilon * Absolute(x)) <= k * (-v) /\ k * (-v) <= Epsilon * Absolute(x)
      BY <1>4, <2>2, <2>8, <3>3, HiddenTerm DEF IsZero, Absolute
    <3>5. Epsilon * Slack(m, d) = Epsilon * Absolute(x) + Epsilon * Slack(u, d)
      BY <1>4, <2>5, <3>2, <3>3
    <3>6. k * (-v) \in Int /\ Epsilon * Slack(u, d) \in Int /\ Epsilon * Absolute(x) \in Int
      BY <1>4, <2>2, <2>5, <3>3
    <3> HIDE DEF u, k, v
    <3> QED
      BY <1>2, <2>1, <2>3, <2>5, <3>1, <3>4, <3>5, <3>6
  <2> QED
    BY <2>6, <2>7, <2>8
<1> QED
  BY <1>5, <1>6

-----------------------------------------------------------------------------
(* Types and the cache *)

InSet == {"load", "store"}

InColumn == {"name", "create", "coeff", "register"}

(* A barrier separates the phases: a worker is in a task of the current    *)
(* phase or in none, and the locals of the task have their values.         *)
TaskOK(t) ==
  /\ pc[t] \in InSet =>
       /\ phase = "set"
       /\ job[t] \in Constraints
       /\ pos[t] \in 1 .. Len(Entries[job[t]])
  /\ pc[t] \in InColumn => phase = "cg" /\ path[t] \in Paths
  /\ pc[t] = "count" => phase = "cg"

QueueOK ==
  /\ phase \in {"zero", "paths", "cg"} => pending \subseteq Groups
  /\ phase = "set" => pending \subseteq Constraints
  /\ phase \in {"lp"} \cup Final => pending = {}

(* A fresh cache holds a path of its network. *)
CacheOK ==
  \A g \in Groups : fresh[g] =>
    /\ cached[g] \in PathRecord
    /\ PathGroup[cached[g].path] = g

TypeInv == TypeOK /\ QueueOK /\ CacheOK /\ \A t \in Workers : TaskOK(t)

-----------------------------------------------------------------------------

LEMMA PathTermsType ==
  ASSUME NEW p
  PROVE  PathTerms(p) \in SUBSET Terms
BY DEF PathTerms, TermsOf

(* A constraint that was stored has a first entry. *)
LEMMA FirstEntry ==
  ASSUME NEW c \in Constraints
  PROVE  1 \in 1 .. Len(Entries[c])
<1>1. Entries[c] \in Seq([arc : Arcs, coeff : Int]) /\ Entries[c] # << >>
  BY DataAssumption
<1> QED
  BY <1>1

LEMMA PricedType ==
  ASSUME NEW S \in SUBSET Terms, NEW d \in DualVectors
  PROVE  Priced(S, d) \in SUBSET Summands
<1> SUFFICES ASSUME NEW x \in S
             PROVE  <<x, d[x[1]]>> \in Summands
  BY DEF Priced
<1>1. x[1] \in Constraints
  BY DEF Terms
<1>2. d[x[1]] \in DualValues
  BY <1>1 DEF DualValues
<1> QED
  BY <1>2 DEF Summands

-----------------------------------------------------------------------------

(* The main thread keeps the types. *)
LEMMA MainStepTypeInv ==
  ASSUME TypeInv, MainStep
  PROVE  TypeInv'
<1> USE DEF TypeInv, QueueOK, CacheOK, TaskOK, InSet, InColumn, scipVars, networkVars, weightVars, columnVars, sharedVars
<1>1. CASE StartPricing /\ infeasible' \in BOOLEAN
  <2>1. TypeOK'
    BY <1>1 DEF TypeOK, StartPricing, SolveMaster, Post
  <2>2. QueueOK' /\ CacheOK'
    BY <1>1 DEF TypeOK, StartPricing, SolveMaster, Post, Final
  <2>3. \A t \in Workers : TaskOK(t)'
    BY <1>1 DEF TypeOK, StartPricing, SolveMaster, Post
  <2> QED
    BY <2>1, <2>2, <2>3
<1>2. CASE SetArcWeights
  <2>1. pending' = Constraints /\ \A t \in Workers : pc[t] = "idle"
    BY <1>2 DEF SetArcWeights, Post, AllWaited
  <2>2. phase' = "set" /\ UNCHANGED <<pc, scipVars, networkVars, weightVars, columnVars, sharedVars>>
    BY <1>2 DEF SetArcWeights
  <2> QED
    BY <2>1, <2>2 DEF TypeOK, Final
<1>3. CASE PricingReturns
  BY <1>3 DEF TypeOK, PricingReturns, AllWaited, Final
<1> QED
  BY <1>1, <1>2, <1>3 DEF MainStep, ScipRedcost, ScipFarkas

LEMMA StartShortestPathsTypeInv ==
  ASSUME TypeInv, NEW next \in {"paths", "cg"}, StartShortestPaths(next)
  PROVE  TypeInv'
BY DEF TypeInv, TypeOK, QueueOK, CacheOK, TaskOK, InSet, InColumn, Final, StartShortestPaths, Post, AllWaited,
       scipVars, networkVars, weightVars, columnVars

(* A worker's next step in its task keeps the types. *)
LEMMA WorkerStepTypeInv ==
  ASSUME TypeInv, NEW t \in Workers, WorkerStep(t)
  PROVE  TypeInv'
<1> USE DEF TypeInv, QueueOK, CacheOK, TaskOK, InSet, InColumn, scipVars, networkVars, weightVars, columnVars, sharedVars
<1>1. CASE ResetEdgeWeights(t)
  BY <1>1 DEF TypeOK, ResetEdgeWeights
<1>2. CASE StartConstraint(t)
  <2>1. PICK c \in pending :
          /\ pending' = pending \ {c}
          /\ \/ UNCHANGED <<pc, job, pos>>
             \/ /\ pc' = [pc EXCEPT ![t] = "load"]
                /\ job' = [job EXCEPT ![t] = c]
                /\ pos' = [pos EXCEPT ![t] = 1]
    BY <1>2 DEF StartConstraint
  <2>2. phase = "set" /\ UNCHANGED <<phase, scipVars, networkVars, loaded, columnVars, sharedVars>>
    BY <1>2 DEF StartConstraint
  <2>3. c \in Constraints /\ 1 \in 1 .. Len(Entries[c])
    BY <2>2, FirstEntry
  <2>4. pos' \in [Workers -> Nat]
    <3>1. pos' = pos \/ pos' = [pos EXCEPT ![t] = 1]
      BY <2>1
    <3>2. pos \in [Workers -> Nat]
      BY DEF TypeOK
    <3> QED
      BY ONLY <3>1, <3>2
  <2>6. TypeOK'
    <3>1. pc' \in [Workers -> {"idle", "load", "store", "name", "create", "coeff", "register", "count"}]
      BY <2>1 DEF TypeOK
    <3>2. job' \in [Workers -> Constraints \cup {NoJob}]
      BY <2>1, <2>3 DEF TypeOK
    <3>3. pending' \in (SUBSET Groups) \cup (SUBSET Constraints)
      BY <2>1 DEF TypeOK
    <3> QED
      BY <2>2, <2>4, <3>1, <3>2, <3>3 DEF TypeOK
  <2>5. \A u \in Workers : TaskOK(u)'
    BY <2>1, <2>2, <2>3, SMTT(30) DEF TypeOK
  <2> QED
    BY <2>1, <2>2, <2>5, <2>6
<1>3. CASE LoadWeight(t)
  BY <1>3, EntryType DEF TypeOK, LoadWeight, ArcAt
<1>4. CASE StoreWeight(t)
  <2>1. /\ phase = "set"
        /\ job[t] \in Constraints
        /\ pos[t] \in 1 .. Len(Entries[job[t]])
        /\ Len(Entries[job[t]]) \in Nat
        /\ <<job[t], pos[t]>> \in Terms
    BY <1>4, EntryType DEF StoreWeight
  <2>2. Priced({<<job[t], pos[t]>>}, dual) \in SUBSET Summands
    BY <2>1, PricedType DEF TypeOK
  <2>3. loaded[t] \cup Priced({<<job[t], pos[t]>>}, dual) \in SUBSET Summands
    BY <2>2 DEF TypeOK
  <2>4. UNCHANGED <<phase, pending, scipVars, fresh, cached, columnVars, sharedVars>>
    BY <1>4 DEF StoreWeight
  <2>5. weight' \in [Arcs -> SUBSET Summands] /\ loaded' \in [Workers -> SUBSET Summands]
    BY <1>4, <2>3 DEF TypeOK, StoreWeight
  <2>6. \/ /\ pos[t] < Len(Entries[job[t]])
           /\ pc' = [pc EXCEPT ![t] = "load"]
           /\ pos' = [pos EXCEPT ![t] = @ + 1]
           /\ UNCHANGED job
        \/ /\ pc' = [pc EXCEPT ![t] = "idle"]
           /\ pos' = [pos EXCEPT ![t] = 0]
           /\ job' = [job EXCEPT ![t] = NoJob]
    BY <1>4 DEF StoreWeight
  <2>7. pos' \in [Workers -> Nat]
    <3>1. pos' = [pos EXCEPT ![t] = @ + 1] \/ pos' = [pos EXCEPT ![t] = 0]
      BY <2>6
    <3>2. pos \in [Workers -> Nat]
      BY DEF TypeOK
    <3> QED
      BY ONLY <3>1, <3>2
  <2>8. TypeOK'
    BY <2>1, <2>4, <2>5, <2>6, <2>7 DEF TypeOK
  <2>9. ASSUME NEW u \in Workers
        PROVE  TaskOK(u)'
    <3>1. CASE u # t
      <4>1. pc'[u] = pc[u] /\ job'[u] = job[u] /\ pos'[u] = pos[u]
        BY <2>6, <3>1 DEF TypeOK
      <4> QED
        BY <4>1, <2>4
    <3>2. CASE u = t /\ pc'[t] = "idle"
      BY <3>2
    <3>3. CASE u = t /\ pos[t] < Len(Entries[job[t]]) /\ pos' = [pos EXCEPT ![t] = @ + 1] /\ job' = job /\ pc'[t] = "load"
      <4>1. pos'[t] = pos[t] + 1
        BY <3>3 DEF TypeOK
      <4>2. pos'[t] \in 1 .. Len(Entries[job'[t]])
        BY <2>1, <3>3, <4>1
      <4> QED
        BY <2>1, <2>4, <3>3, <4>2
    <3> QED
      BY <2>6, <3>1, <3>2, <3>3 DEF TypeOK
  <2> QED
    BY <2>4, <2>8, <2>9
<1>5. CASE NameVariable(t)
  BY <1>5 DEF TypeOK, NameVariable
<1>6. CASE CreateVariable(t)
  BY <1>6, PathTermsType DEF TypeOK, CreateVariable, Column
<1>7. CASE CreateVariableFails(t)
  BY <1>7 DEF TypeOK, CreateVariableFails, ScipFails
<1>8. CASE AddCoefficient(t)
  <2>1. PICK x \in left[t] :
          /\ columns' = [columns EXCEPT ![var[t]].coeffs = @ \cup {x}]
          /\ left' = [left EXCEPT ![t] = @ \ {x}]
          /\ pc' = [pc EXCEPT ![t] = IF left[t] = {x} THEN "register" ELSE "coeff"]
    BY <1>8 DEF AddCoefficient
  <2>2. columns' \in Seq(Column)
    <3>1. x \in Terms /\ columns \in Seq(Column)
      BY DEF TypeOK
    <3>2. /\ Len(columns) \in Nat
          /\ DOMAIN columns = 1 .. Len(columns)
          /\ \A j \in 1 .. Len(columns) : columns[j] \in Column
      BY <3>1
    <3>3. columns' \in [1 .. Len(columns) -> Column]
      BY <2>1, <3>1, <3>2 DEF Column
    <3> QED
      BY <3>2, <3>3
  <2>3. /\ pc[t] = "coeff"
        /\ UNCHANGED <<phase, pending, scipVars, networkVars, weightVars, path, varname, var>>
        /\ UNCHANGED <<scip_errors, scip_mutex, n_generated_paths, var_to_path>>
    BY <1>8 DEF AddCoefficient
  <2> QED
    BY <2>1, <2>2, <2>3 DEF TypeOK
<1>9. CASE AddCoefficientFails(t)
  BY <1>9 DEF TypeOK, AddCoefficientFails, ScipFails
<1>10. CASE RegisterPath(t)
  BY <1>10 DEF TypeOK, RegisterPath, ScipFails, AddVarPathPair
<1>11. CASE CountPath(t)
  BY <1>11 DEF TypeOK, CountPath
<1> QED
  BY <1>1, <1>2, <1>3, <1>4, <1>5, <1>6, <1>7, <1>8, <1>9, <1>10, <1>11 DEF WorkerStep

(* What shortest_path returns is a path of the network. *)
LEMMA ShortestPathsType ==
  ASSUME TypeInv, NEW g \in Groups, NEW r \in ShortestPaths(g)
  PROVE  r \in PathRecord /\ PathGroup[r.path] = g
<1>1. CASE fresh[g]
  BY <1>1 DEF TypeInv, CacheOK, ShortestPaths
<1>2. CASE ~fresh[g]
  <2>1. PICK p \in PathsOf(g) : r = [path |-> p, length |-> Length(p)]
    BY <1>2 DEF ShortestPaths
  <2>2. p \in Paths /\ PathGroup[p] = g
    BY DEF PathsOf
  <2>3. Range(ArcsOf[p]) \subseteq Arcs
    BY <2>2, DataAssumption DEF Range
  <2>4. Length(p) \in SUBSET Summands
    BY <2>3 DEF Length, TypeInv, TypeOK
  <2> QED
    BY <2>1, <2>2, <2>4 DEF PathRecord
<1> QED
  BY <1>1, <1>2

-----------------------------------------------------------------------------
(* The cached paths.  A store follows its load with the cache cleared: no  *)
(* task that fills the cache runs in the same phase.                       *)

CacheInv ==
  /\ CacheCoherent
  /\ \A t \in Workers : pc[t] = "store" => ~fresh[GroupOf[ArcAt(t)]]

(* The length of a path depends on the weights of its network only. *)
LEMMA LengthLocal ==
  ASSUME NEW g, NEW p \in PathsOf(g),
         \A a \in Arcs : GroupOf[a] = g => weight'[a] = weight[a]
  PROVE  Length(p)' = Length(p)
<1>1. p \in Paths /\ PathGroup[p] = g
  BY DEF PathsOf
<1>2. \A a \in Range(ArcsOf[p]) : a \in Arcs /\ GroupOf[a] = g
  BY <1>1, DataAssumption DEF Range
<1>3. \A a \in Range(ArcsOf[p]) : weight'[a] = weight[a]
  BY <1>2
<1> QED
  BY <1>3 DEF Length

(* Coherence survives a step that fills no cache and changes weights only  *)
(* in networks whose cache is not fresh afterwards.                        *)
LEMMA CoherentKept ==
  ASSUME TypeInv, CacheCoherent,
         \A g \in Groups : fresh'[g] =>
           /\ fresh[g]
           /\ cached'[g] = cached[g]
           /\ \A a \in Arcs : GroupOf[a] = g => weight'[a] = weight[a]
  PROVE  CacheCoherent'
<1> SUFFICES ASSUME NEW g \in Groups, fresh'[g]
             PROVE  (/\ cached[g] # EmptyPath
                     /\ PathGroup[cached[g].path] = g
                     /\ IsShortest(cached[g].path)
                     /\ cached[g].length = Length(cached[g].path))'
  BY DEF CacheCoherent
<1> DEFINE p == cached[g].path
<1>1. p \in PathsOf(g) /\ cached[g].length = Length(p) /\ IsShortest(p) /\ cached[g] # EmptyPath
  BY DEF TypeInv, CacheOK, CacheCoherent, PathRecord, PathsOf
<1>2. \A q \in PathsOf(g) : Length(q)' = Length(q)
  BY LengthLocal
<1>3. Length(p)' = Length(p) /\ p' = p /\ PathGroup[p] = g /\ cached'[g] = cached[g]
  BY <1>1, <1>2 DEF PathsOf
<1>4. \A q \in PathsOf(g) : Cost(Length(p)') <= Cost(Length(q)')
  BY <1>1, <1>2, <1>3 DEF IsShortest
<1> QED
  BY <1>1, <1>3, <1>4 DEF IsShortest

LEMMA MainStepCacheInv ==
  ASSUME TypeInv, CacheInv, MainStep
  PROVE  CacheInv'
<1>1. UNCHANGED <<fresh, cached, weight, pc, job, pos>>
  BY DEF MainStep, ScipRedcost, ScipFarkas, StartPricing, SetArcWeights, PricingReturns, networkVars, weightVars
<1>2. CacheCoherent'
  BY <1>1, CoherentKept DEF CacheInv
<1> QED
  BY <1>1, <1>2 DEF CacheInv, ArcAt

LEMMA StartShortestPathsCacheInv ==
  ASSUME TypeInv, CacheInv, NEW next, StartShortestPaths(next)
  PROVE  CacheInv'
<1>1. UNCHANGED <<fresh, cached, weight, pc, job, pos>>
  BY DEF StartShortestPaths, networkVars, weightVars
<1>2. CacheCoherent'
  BY <1>1, CoherentKept DEF CacheInv
<1> QED
  BY <1>1, <1>2 DEF CacheInv, ArcAt

LEMMA WorkerStepCacheInv ==
  ASSUME TypeInv, CacheInv, NEW t \in Workers, WorkerStep(t)
  PROVE  CacheInv'
<1> DEFINE Kept(g) == /\ fresh[g]
                      /\ cached'[g] = cached[g]
                      /\ \A a \in Arcs : GroupOf[a] = g => weight'[a] = weight[a]
           Cleared(u) == pc[u] = "store" => ~fresh[GroupOf[ArcAt(u)]]
<1> USE DEF TypeInv, TypeOK, scipVars, networkVars, weightVars, columnVars, sharedVars
<1>1. CASE ResetEdgeWeights(t)
  <2>1. PICK g \in pending :
          /\ fresh' = [fresh EXCEPT ![g] = FALSE]
          /\ weight' = [a \in Arcs |-> IF GroupOf[a] = g THEN {} ELSE weight[a]]
    BY <1>1 DEF ResetEdgeWeights
  <2>2. UNCHANGED <<pc, job, pos, cached>> /\ g \in Groups
    BY <1>1 DEF ResetEdgeWeights, QueueOK
  <2>3. \A h \in Groups : fresh'[h] => Kept(h)
    BY <2>1, <2>2
  <2>4. \A u \in Workers : Cleared(u)'
    BY <2>1, <2>2 DEF CacheInv, ArcAt
  <2> QED
    BY <2>3, <2>4, CoherentKept DEF CacheInv
<1>2. CASE StartConstraint(t)
  <2>1. UNCHANGED <<fresh, cached, weight>>
    BY <1>2 DEF StartConstraint
  <2>2. \A u \in Workers : pc'[u] = "store" => pc[u] = "store" /\ job'[u] = job[u] /\ pos'[u] = pos[u]
    BY <1>2 DEF StartConstraint
  <2>3. \A u \in Workers : Cleared(u)'
    BY <2>1, <2>2 DEF CacheInv, ArcAt
  <2> QED
    BY <2>1, <2>3, CoherentKept DEF CacheInv
<1>3. CASE LoadWeight(t)
  <2>1. /\ fresh' = [fresh EXCEPT ![GroupOf[ArcAt(t)]] = FALSE]
        /\ pc' = [pc EXCEPT ![t] = "store"]
        /\ UNCHANGED <<cached, weight, job, pos>>
    BY <1>3 DEF LoadWeight
  <2>2. GroupOf[ArcAt(t)] \in Groups
    BY <1>3, EntryType, DataAssumption DEF LoadWeight, ArcAt, TaskOK, InSet
  <2>3. \A h \in Groups : fresh'[h] => Kept(h)
    BY <2>1
  <2>4. \A u \in Workers : Cleared(u)'
    BY <2>1, <2>2 DEF CacheInv, ArcAt
  <2> QED
    BY <2>3, <2>4, CoherentKept DEF CacheInv
<1>4. CASE StoreWeight(t)
  <2>1. /\ pc[t] = "store"
        /\ UNCHANGED <<fresh, cached>>
        /\ \A a \in Arcs : a # ArcAt(t) => weight'[a] = weight[a]
    BY <1>4 DEF StoreWeight
  <2>2. \A u \in Workers : pc'[u] = "store" => pc[u] = "store" /\ job'[u] = job[u] /\ pos'[u] = pos[u]
    BY <1>4 DEF StoreWeight
  <2>3. \A h \in Groups : fresh'[h] => Kept(h)
    BY <2>1 DEF CacheInv
  <2>4. \A u \in Workers : Cleared(u)'
    BY <2>1, <2>2 DEF CacheInv, ArcAt
  <2> QED
    BY <2>3, <2>4, CoherentKept DEF CacheInv
<1>5. CASE /\ UNCHANGED <<fresh, cached, weight, job, pos>>
           /\ \A u \in Workers : pc'[u] = "store" => pc[u] = "store"
  <2>1. \A u \in Workers : Cleared(u)'
    BY <1>5 DEF CacheInv, ArcAt
  <2> QED
    BY <1>5, <2>1, CoherentKept DEF CacheInv
<1>6. CASE \/ NameVariable(t) \/ CreateVariable(t) \/ CreateVariableFails(t) \/ AddCoefficient(t)
           \/ AddCoefficientFails(t) \/ RegisterPath(t) \/ CountPath(t)
  <2>1. UNCHANGED <<fresh, cached, weight, job, pos>>
    BY <1>6 DEF NameVariable, CreateVariable, CreateVariableFails, AddCoefficient,
       AddCoefficientFails, RegisterPath, CountPath
  <2>2. \E k \in {"create", "register", "coeff", "count", "idle"} : pc' = [pc EXCEPT ![t] = k]
    BY <1>6 DEF NameVariable, CreateVariable, CreateVariableFails, AddCoefficient,
       AddCoefficientFails, RegisterPath, CountPath
  <2> QED
    BY <1>5, <2>1, <2>2
<1> QED
  BY <1>1, <1>2, <1>3, <1>4, <1>6 DEF WorkerStep

(* What shortest_path returns is a shortest path and its length. *)
LEMMA ShortestPathsShortest ==
  ASSUME TypeInv, CacheInv, NEW g \in Groups, NEW r \in ShortestPaths(g)
  PROVE  /\ r.path \in PathsOf(g)
         /\ r.length = Length(r.path)
         /\ IsShortest(r.path)
         /\ r # EmptyPath
<1>1. CASE fresh[g]
  BY <1>1 DEF ShortestPaths, CacheInv, CacheCoherent, TypeInv, CacheOK, PathRecord, PathsOf
<1>2. CASE ~fresh[g]
  <2>1. PICK p \in PathsOf(g) : r = [path |-> p, length |-> Length(p)] /\ IsShortest(p)
    BY <1>2 DEF ShortestPaths
  <2> QED
    BY <2>1, NullAssumption DEF EmptyPath, PathsOf
<1> QED
  BY <1>1, <1>2

(* shortest_path fills the cache with a shortest path. *)
LEMMA CachedIsShortest ==
  ASSUME TypeInv, CacheInv, NEW g \in Groups, NEW r \in ShortestPaths(g),
         CacheShortestPath(g, r), UNCHANGED weight
  PROVE  CacheCoherent'
<1>1. /\ r.path \in PathsOf(g)
      /\ r.length = Length(r.path)
      /\ IsShortest(r.path)
      /\ r # EmptyPath
  BY ShortestPathsShortest
<1>2. \A h \in Groups \ {g} : fresh'[h] = fresh[h] /\ cached'[h] = cached[h]
  BY DEF CacheShortestPath, TypeInv, TypeOK
<1>3. cached'[g] = r
  BY DEF CacheShortestPath, TypeInv, TypeOK
<1>4. \A p : Length(p)' = Length(p) /\ IsShortest(p)' = IsShortest(p)
  BY DEF Length, IsShortest
<1> QED
  BY <1>1, <1>2, <1>3, <1>4 DEF CacheInv, CacheCoherent, PathsOf

-----------------------------------------------------------------------------
(* The weights.  While the constraints are processed a weight has exactly  *)
(* the summands of the entries that are done, provided that no two tasks   *)
(* write the weight of one edge.                                           *)

NoRace ==
  \/ \A t, u \in Workers : t = u
  \/ \A x, y \in Terms : ArcOf(x) = ArcOf(y) => x[1] = y[1]

Done(x) ==
  /\ x[1] \notin pending
  /\ \A t \in Workers : pc[t] \in InSet /\ job[t] = x[1] => x[2] < pos[t]

Due(a) == {x \in TermsOf(a) : ~IsZero(dual[x[1]])}

SetInv ==
  /\ \A t \in Workers : pc[t] \in InSet => job[t] \notin pending /\ ~IsZero(dual[job[t]])
  /\ \A t, u \in Workers : pc[t] \in InSet /\ pc[u] \in InSet /\ job[t] = job[u] => t = u
  /\ \A t \in Workers : pc[t] = "store" => loaded[t] = weight[ArcAt(t)]
  /\ \A a \in Arcs : weight[a] = Priced({x \in Due(a) : Done(x)}, dual)

WeightInv ==
  /\ phase = "zero" => \A a \in Arcs : GroupOf[a] \notin pending => weight[a] = {}
  /\ phase = "set" => SetInv
  /\ WeightsComplete

(* Nothing is done when the tasks of set_arc_weights are posted. *)
LEMMA SetArcWeightsWeightInv ==
  ASSUME TypeInv, WeightInv, SetArcWeights
  PROVE  WeightInv'
<1>1. /\ phase = "zero" /\ pending = {} /\ \A t \in Workers : pc[t] = "idle"
      /\ phase' = "set" /\ pending' = Constraints
      /\ UNCHANGED <<pc, weight, dual, job, pos, loaded>>
  BY DEF SetArcWeights, AllWaited, Post, scipVars, networkVars, weightVars
<1>2. \A a \in Arcs : weight'[a] = {}
  BY <1>1, DataAssumption DEF WeightInv
<1>3. \A x \in Terms : ~Done(x)'
  BY <1>1, TermType DEF Done
<1>4. \A a \in Arcs : {x \in Due(a) : Done(x)}' = {}
  BY <1>3 DEF Due, TermsOf
<1>5. \A a \in Arcs : weight'[a] = Priced({x \in Due(a) : Done(x)}, dual)'
  BY <1>2, <1>4 DEF Priced
<1>6. SetInv'
  BY <1>1, <1>5 DEF SetInv, InSet
<1> QED
  BY <1>1, <1>6 DEF WeightInv, WeightsComplete

(* Everything is done when set_arc_weights returns. *)
LEMMA StartShortestPathsWeightInv ==
  ASSUME TypeInv, WeightInv, NEW next \in {"paths", "cg"}, StartShortestPaths(next)
  PROVE  WeightInv'
<1>1. /\ phase = "set" /\ pending = {} /\ \A t \in Workers : pc[t] = "idle"
      /\ phase' \in {"paths", "cg"}
      /\ UNCHANGED <<weight, dual>>
  BY DEF StartShortestPaths, AllWaited, scipVars, networkVars
<1>2. \A x : Done(x)
  BY <1>1 DEF Done, InSet
<1>3. \A a \in Arcs : {x \in Due(a) : Done(x)} = {x \in TermsOf(a) : ~IsZero(dual[x[1]])}
  BY <1>2 DEF Due
<1>4. \A a \in Arcs : weight[a] = Priced({x \in TermsOf(a) : ~IsZero(dual[x[1]])}, dual)
  BY <1>1, <1>3 DEF WeightInv, SetInv
<1> QED
  BY <1>1, <1>4 DEF WeightInv, WeightsComplete

LEMMA MainStepWeightInv ==
  ASSUME TypeInv, WeightInv, MainStep
  PROVE  WeightInv'
<1>1. CASE StartPricing
  <2>1. phase' = "zero" /\ pending' = Groups
    BY <1>1 DEF StartPricing, Post, TypeInv, QueueOK
  <2>2. \A a \in Arcs : GroupOf[a] \in pending'
    BY <2>1, DataAssumption
  <2> QED
    BY <2>1, <2>2 DEF WeightInv, WeightsComplete
<1>2. CASE SetArcWeights
  BY <1>2, SetArcWeightsWeightInv
<1>3. CASE PricingReturns
  BY <1>3 DEF PricingReturns, Final, WeightInv, WeightsComplete
<1> QED
  BY <1>1, <1>2, <1>3 DEF MainStep, ScipRedcost, ScipFarkas

(* A step that does not touch what the weights depend on. *)
LEMMA WeightKept ==
  ASSUME TypeInv, WeightInv,
         UNCHANGED <<phase, dual, weight>>,
         phase = "set" => UNCHANGED <<pending, pc, job, pos, loaded>>,
         phase = "zero" => UNCHANGED pending
  PROVE  WeightInv'
BY DEF WeightInv, WeightsComplete, SetInv, Done, Due, ArcAt

(* A constraint whose dual is not zero is begun: its entries are still not *)
(* done.  If the dual is zero none of its entries is due.                  *)
LEMMA StartConstraintWeightInv ==
  ASSUME TypeInv, WeightInv, NEW t \in Workers, StartConstraint(t)
  PROVE  WeightInv'
<1>1. /\ phase = "set" /\ pc[t] = "idle"
      /\ UNCHANGED <<phase, dual, weight, loaded>>
  BY DEF StartConstraint, scipVars, networkVars
<1>2. PICK c \in pending :
        /\ pending' = pending \ {c}
        /\ IF IsZero(dual[c])
           THEN UNCHANGED <<pc, job, pos>>
           ELSE /\ pc' = [pc EXCEPT ![t] = "load"]
                /\ job' = [job EXCEPT ![t] = c]
                /\ pos' = [pos EXCEPT ![t] = 1]
  BY DEF StartConstraint, Skipped
<1>3. \A u \in Workers : u # t => pc'[u] = pc[u] /\ job'[u] = job[u] /\ pos'[u] = pos[u]
  BY <1>2 DEF TypeInv, TypeOK
<1>4. CASE IsZero(dual[c])
  <2>1. UNCHANGED <<pc, job, pos>>
    BY <1>2, <1>4
  <2>2. \A x : ~IsZero(dual[x[1]]) => (Done(x)' <=> Done(x))
    BY <1>2, <1>4, <2>1 DEF Done
  <2>3. \A a \in Arcs : {x \in Due(a) : Done(x)}' = {x \in Due(a) : Done(x)}
    BY <1>1, <2>2 DEF Due
  <2>4. SetInv
    BY <1>1 DEF WeightInv
  <2>5. SetInv'
    BY <1>1, <1>2, <2>1, <2>3, <2>4 DEF SetInv, ArcAt
  <2> QED
    BY <1>1, <2>5 DEF WeightInv, WeightsComplete
<1>5. CASE ~IsZero(dual[c])
  <2>1. pc'[t] = "load" /\ job'[t] = c /\ pos'[t] = 1
    BY <1>2, <1>5 DEF TypeInv, TypeOK
  <2>2. SetInv
    BY <1>1 DEF WeightInv
  <2>3. ASSUME NEW x \in Terms
        PROVE  Done(x)' <=> Done(x)
    <3>1. x[2] \in Nat /\ x[2] >= 1
      BY TermType
    <3>2. CASE x[1] = c
      BY <1>2, <2>1, <3>1, <3>2 DEF Done, InSet
    <3>3. CASE x[1] # c
      BY <1>1, <1>2, <1>3, <2>1, <3>3 DEF Done, InSet
    <3> QED
      BY <3>2, <3>3
  <2>4. \A a \in Arcs : {x \in Due(a) : Done(x)}' = {x \in Due(a) : Done(x)}
    BY <1>1, <2>3 DEF Due, TermsOf
  <2>5. \A u \in Workers : pc'[u] \in InSet => job'[u] \notin pending' /\ ~IsZero(dual'[job'[u]])
    BY <1>1, <1>2, <1>3, <1>5, <2>1, <2>2 DEF SetInv
  <2>6. \A u, v \in Workers : pc'[u] \in InSet /\ pc'[v] \in InSet /\ job'[u] = job'[v] => u = v
    BY <1>2, <1>3, <2>1, <2>2 DEF SetInv
  <2>7. \A u \in Workers : pc'[u] = "store" => loaded'[u] = weight'[ArcAt(u)']
    BY <1>1, <1>3, <2>1, <2>2 DEF SetInv, ArcAt
  <2>8. SetInv'
    BY <1>1, <2>2, <2>4, <2>5, <2>6, <2>7 DEF SetInv
  <2> QED
    BY <1>1, <2>8 DEF WeightInv, WeightsComplete
<1> QED
  BY <1>4, <1>5

LEMMA LoadWeightWeightInv ==
  ASSUME TypeInv, WeightInv, NEW t \in Workers, LoadWeight(t)
  PROVE  WeightInv'
<1>1. /\ pc[t] = "load"
      /\ loaded' = [loaded EXCEPT ![t] = weight[ArcAt(t)]]
      /\ pc' = [pc EXCEPT ![t] = "store"]
      /\ UNCHANGED <<phase, pending, dual, weight, job, pos>>
  BY DEF LoadWeight, scipVars
<1>2. phase = "set" /\ SetInv
  BY <1>1 DEF TypeInv, TaskOK, InSet, WeightInv
<1>3. \A u \in Workers : pc'[u] \in InSet <=> pc[u] \in InSet
  BY <1>1 DEF InSet, TypeInv, TypeOK
<1>4. \A x : Done(x)' <=> Done(x)
  BY <1>1, <1>3 DEF Done
<1>5. \A a \in Arcs : {x \in Due(a) : Done(x)}' = {x \in Due(a) : Done(x)}
  BY <1>1, <1>4 DEF Due
<1>6. \A u \in Workers : pc'[u] = "store" => loaded'[u] = weight'[ArcAt(u)']
  BY <1>1, <1>2 DEF SetInv, ArcAt, TypeInv, TypeOK
<1>7. SetInv'
  BY <1>1, <1>2, <1>3, <1>5, <1>6 DEF SetInv
<1> QED
  BY <1>1, <1>2, <1>7 DEF WeightInv, WeightsComplete

(* The store makes one more entry done.  The weight that was loaded is the *)
(* weight there is: this is where NoRace is needed.                        *)
LEMMA StoreWeightWeightInv ==
  ASSUME TypeInv, WeightInv, NoRace, NEW t \in Workers, StoreWeight(t)
  PROVE  WeightInv'
<1> DEFINE x0 == <<job[t], pos[t]>>
           a0 == ArcAt(t)
<1>1. /\ pc[t] = "store"
      /\ weight' = [weight EXCEPT ![a0] = loaded[t] \cup Priced({x0}, dual)]
      /\ loaded' = [loaded EXCEPT ![t] = {}]
      /\ UNCHANGED <<phase, pending, dual>>
  BY DEF StoreWeight, scipVars
<1>2. \/ /\ pos[t] < Len(Entries[job[t]])
         /\ pc' = [pc EXCEPT ![t] = "load"]
         /\ pos' = [pos EXCEPT ![t] = @ + 1]
         /\ UNCHANGED job
      \/ /\ ~(pos[t] < Len(Entries[job[t]]))
         /\ pc' = [pc EXCEPT ![t] = "idle"]
         /\ pos' = [pos EXCEPT ![t] = 0]
         /\ job' = [job EXCEPT ![t] = NoJob]
  BY DEF StoreWeight
<1>3. /\ phase = "set" /\ SetInv
      /\ job[t] \in Constraints
      /\ pos[t] \in 1 .. Len(Entries[job[t]])
  BY <1>1 DEF TypeInv, TaskOK, InSet, WeightInv
<1>4. x0 \in Terms /\ ArcOf(x0) = a0 /\ a0 \in Arcs /\ x0 \in Due(a0)
  <2>1. x0 \in Terms /\ ArcOf(x0) = a0 /\ a0 \in Arcs
    BY <1>3, EntryType DEF ArcOf, ArcAt
  <2>2. ~IsZero(dual[job[t]])
    BY <1>1, <1>3 DEF SetInv, InSet
  <2> QED
    BY <2>1, <2>2 DEF Due, TermsOf
<1>5. \A u \in Workers : u # t =>
        /\ pc'[u] = pc[u]
        /\ job'[u] = job[u]
        /\ pos'[u] = pos[u]
        /\ loaded'[u] = loaded[u]
  BY <1>1, <1>2 DEF TypeInv, TypeOK
<1>6. \/ pc'[t] = "load" /\ pos'[t] = pos[t] + 1 /\ job'[t] = job[t]
      \/ pc'[t] = "idle" /\ pos[t] = Len(Entries[job[t]])
  <2>1. Len(Entries[job[t]]) \in Nat
    BY <1>3, EntryType
  <2> QED
    BY <1>2, <1>3, <2>1 DEF TypeInv, TypeOK
<1>7. ASSUME NEW x \in Terms
      PROVE  Done(x)' <=> Done(x) \/ x = x0
  <2>1. x = <<x[1], x[2]>> /\ x[2] \in 1 .. Len(Entries[x[1]]) /\ x[2] \in Nat
    BY TermType
  <2>2. pos[t] \in Nat
    BY <1>3
  <2>3. CASE x[1] = job[t]
    <3>1. \A u \in Workers : pc[u] \in InSet /\ job[u] = x[1] => u = t
      BY <1>1, <1>3, <2>3 DEF SetInv, InSet
    <3>2. x[1] \notin pending /\ x[1] \notin pending'
      BY <1>1, <1>3, <2>3 DEF SetInv, InSet
    <3>3. Done(x) <=> x[2] < pos[t]
      BY <1>1, <2>3, <3>1, <3>2 DEF Done, InSet
    <3>4. \A u \in Workers : pc'[u] \in InSet /\ job'[u] = x[1] => u = t
      BY <1>5, <3>1
    <3>5. CASE pc'[t] = "load" /\ pos'[t] = pos[t] + 1 /\ job'[t] = job[t]
      <4>1. Done(x)' <=> x[2] < pos[t] + 1
        BY <2>3, <3>2, <3>4, <3>5 DEF Done, InSet
      <4> QED
        BY <2>1, <2>2, <2>3, <3>3, <4>1
    <3>6. CASE pc'[t] = "idle" /\ pos[t] = Len(Entries[job[t]])
      <4>1. Done(x)'
        BY <3>2, <3>4, <3>6 DEF Done, InSet
      <4>2. x[2] <= pos[t]
        BY <2>1, <2>2, <2>3, <3>6
      <4> QED
        BY <2>1, <2>2, <2>3, <3>3, <4>1, <4>2
    <3> QED
      BY <1>6, <3>5, <3>6
  <2>4. CASE x[1] # job[t]
    <3>1. x # x0
      BY <2>4
    <3>2. \A u \in Workers : (pc'[u] \in InSet /\ job'[u] = x[1]) <=> (pc[u] \in InSet /\ job[u] = x[1])
      BY <1>5, <1>6, <2>4 DEF InSet
    <3>3. \A u \in Workers : pc[u] \in InSet /\ job[u] = x[1] => pos'[u] = pos[u]
      BY <1>5, <2>4
    <3> QED
      BY <1>1, <3>1, <3>2, <3>3 DEF Done
  <2> QED
    BY <2>3, <2>4
<1>8. weight'[a0] = weight[a0] \cup Priced({x0}, dual)
  BY <1>1, <1>3, <1>4 DEF SetInv, TypeInv, TypeOK
<1>9. \A a \in Arcs : a # a0 => weight'[a] = weight[a]
  BY <1>1 DEF TypeInv, TypeOK
<1>10. ASSUME NEW a \in Arcs
       PROVE  weight'[a] = Priced({x \in Due(a) : Done(x)}, dual)'
  <2>1. Due(a)' = Due(a)
    BY <1>1 DEF Due
  <2>2. \A x \in Due(a) : Done(x)' <=> Done(x) \/ x = x0
    BY <1>7 DEF Due, TermsOf
  <2>3. weight[a] = Priced({x \in Due(a) : Done(x)}, dual)
    BY <1>3 DEF SetInv
  <2>4. CASE a = a0
    <3>1. {x \in Due(a) : Done(x)}' = {x \in Due(a) : Done(x)} \cup {x0}
      BY <1>4, <2>1, <2>2, <2>4
    <3>2. Priced({x \in Due(a) : Done(x)} \cup {x0}, dual)
            = Priced({x \in Due(a) : Done(x)}, dual) \cup Priced({x0}, dual)
      BY DEF Priced
    <3> QED
      BY <1>1, <1>8, <2>3, <2>4, <3>1, <3>2
  <2>5. CASE a # a0
    <3>1. x0 \notin Due(a)
      BY <1>4, <2>5 DEF Due, TermsOf
    <3>2. {x \in Due(a) : Done(x)}' = {x \in Due(a) : Done(x)}
      BY <2>1, <2>2, <3>1
    <3> QED
      BY <1>1, <1>9, <2>3, <2>5, <3>2
  <2> QED
    BY <2>4, <2>5
<1>11. ASSUME NEW u \in Workers, pc'[u] = "store"
       PROVE  loaded'[u] = weight'[ArcAt(u)']
  <2>1. u # t /\ pc[u] = "store"
    BY <1>5, <1>6, <1>11
  <2>2. /\ ArcAt(u)' = ArcAt(u)
        /\ loaded'[u] = loaded[u]
        /\ loaded[u] = weight[ArcAt(u)]
    BY <1>3, <1>5, <2>1 DEF SetInv, ArcAt
  <2>3. /\ job[u] \in Constraints
        /\ pos[u] \in 1 .. Len(Entries[job[u]])
        /\ job[u] # job[t]
    BY <1>1, <1>3, <2>1 DEF TypeInv, TaskOK, InSet, SetInv
  <2>4. /\ <<job[u], pos[u]>> \in Terms
        /\ ArcOf(<<job[u], pos[u]>>) = ArcAt(u)
        /\ ArcAt(u) \in Arcs
    BY <2>3, EntryType DEF ArcOf, ArcAt
  <2>5. ArcAt(u) # a0
    BY <1>4, <2>1, <2>3, <2>4 DEF NoRace
  <2> QED
    BY <1>9, <2>2, <2>4, <2>5
<1>12. \A u \in Workers : pc'[u] \in InSet => pc[u] \in InSet /\ job'[u] = job[u]
  BY <1>1, <1>5, <1>6 DEF InSet
<1>13. SetInv'
  BY <1>1, <1>3, <1>10, <1>11, <1>12 DEF SetInv
<1> QED
  BY <1>1, <1>3, <1>13 DEF WeightInv, WeightsComplete

LEMMA ResetEdgeWeightsWeightInv ==
  ASSUME TypeInv, WeightInv, NEW t \in Workers, ResetEdgeWeights(t)
  PROVE  WeightInv'
<1>1. phase = "zero" /\ phase' = "zero"
  BY DEF ResetEdgeWeights
<1>2. PICK g \in pending :
        /\ pending' = pending \ {g}
        /\ weight' = [a \in Arcs |-> IF GroupOf[a] = g THEN {} ELSE weight[a]]
  BY DEF ResetEdgeWeights
<1>3. \A a \in Arcs : GroupOf[a] \notin pending' => weight'[a] = {}
  BY <1>1, <1>2 DEF WeightInv
<1> QED
  BY <1>1, <1>3 DEF WeightInv, WeightsComplete

LEMMA WorkerStepWeightInv ==
  ASSUME TypeInv, WeightInv, NoRace, NEW t \in Workers, WorkerStep(t)
  PROVE  WeightInv'
<1>1. CASE \/ NameVariable(t) \/ CreateVariable(t) \/ CreateVariableFails(t) \/ AddCoefficient(t)
           \/ AddCoefficientFails(t) \/ RegisterPath(t) \/ CountPath(t)
  <2>1. /\ UNCHANGED <<phase, dual, weight, pending>>
        /\ pc[t] \in InColumn \cup {"count"}
    BY <1>1 DEF NameVariable, CreateVariable, CreateVariableFails, AddCoefficient,
       AddCoefficientFails, RegisterPath, CountPath, scipVars, networkVars, InColumn
  <2>2. phase = "cg"
    BY <2>1 DEF TypeInv, TaskOK
  <2> QED
    BY <2>1, <2>2, WeightKept
<1> QED
  BY <1>1, ResetEdgeWeightsWeightInv, StartConstraintWeightInv, LoadWeightWeightInv,
     StoreWeightWeightInv DEF WorkerStep

-----------------------------------------------------------------------------
(* The steps of either pricer, sorted by what they do to the columns.      *)

(* The calls of generate_columns and add_variable. *)
ColumnStep(t) ==
  \/ NameVariable(t)
  \/ CreateVariable(t)
  \/ CreateVariableFails(t)
  \/ AddCoefficient(t)
  \/ AddCoefficientFails(t)
  \/ RegisterPath(t)
  \/ CountPath(t)

(* A task of phase "cg" starts, with the argument of generate_columns.     *)
TakeTask(t) ==
  /\ phase = "cg"
  /\ pc[t] = "idle"
  /\ \E g \in pending :
       /\ pending' = pending \ {g}
       /\ \/ \E p \in PathsOf(g) : IsNegative(Cost(Length(p))) /\ BeginColumn(t, p)
          \/ UNCHANGED <<pc, path>>
  /\ UNCHANGED <<phase, dual, solved, columns, scip_errors, n_generated_paths, var_to_path, varname, var, left>>

(* Everything else. *)
QuietStep ==
  /\ UNCHANGED <<dual, solved, columns, scip_errors, n_generated_paths, var_to_path>>
  /\ UNCHANGED <<path, varname, var, left>>
  /\ \A t \in Workers : pc'[t] = pc[t] \/ (pc[t] \in {"idle"} \cup InSet /\ pc'[t] \in {"idle"} \cup InSet)
  /\ phase' \in {"zero", "set", "paths"} => phase \in {"zero", "set", "paths"}
  /\ phase' = "cg" => phase \in {"set", "paths"} \/ (phase = "cg" /\ pending' = pending)
  /\ phase' # phase /\ {phase, phase'} \cap ({"lp"} \cup Final) # {} => PricingReturns

AnyStep ==
  \/ QuietStep
  \/ StartPricing
  \/ \E t \in Workers : TakeTask(t) \/ ColumnStep(t)

LEMMA WorkerStepKinds ==
  ASSUME TypeInv, NEW t \in Workers, WorkerStep(t)
  PROVE  QuietStep \/ ColumnStep(t)
<1> USE DEF scipVars, networkVars, weightVars, columnVars, sharedVars, QuietStep
<1>1. CASE ResetEdgeWeights(t)
  BY <1>1 DEF ResetEdgeWeights
<1>2. CASE StartConstraint(t)
  BY <1>2 DEF StartConstraint, InSet, TypeInv, TypeOK
<1>3. CASE LoadWeight(t)
  BY <1>3 DEF LoadWeight, InSet, TypeInv, TypeOK, TaskOK
<1>4. CASE StoreWeight(t)
  BY <1>4 DEF StoreWeight, InSet, TypeInv, TypeOK, TaskOK
<1> QED
  BY <1>1, <1>2, <1>3, <1>4 DEF WorkerStep, ColumnStep

LEMMA MainStepKinds ==
  ASSUME MainStep
  PROVE  QuietStep \/ StartPricing
BY DEF MainStep, ScipRedcost, ScipFarkas, SetArcWeights, PricingReturns, QuietStep, scipVars, columnVars, sharedVars, Final

LEMMA StartShortestPathsKind ==
  ASSUME NEW next \in {"paths", "cg"}, StartShortestPaths(next)
  PROVE  QuietStep
BY DEF StartShortestPaths, QuietStep, scipVars, columnVars, sharedVars, Final

LEMMA StutterKind ==
  ASSUME UNCHANGED vars
  PROVE  QuietStep
BY DEF vars, scipVars, columnVars, sharedVars, QuietStep

(* Between the rounds no worker is in a task. *)
LEMMA NobodyInTask ==
  ASSUME TypeInv, phase \notin {"set", "cg"}, NEW t \in Workers
  PROVE  pc[t] = "idle"
BY DEF TypeInv, TypeOK, TaskOK, InSet, InColumn

(* What a call of generate_columns leaves alone. *)
LEMMA ColumnStepFrame ==
  ASSUME TypeInv, NEW t \in Workers, ColumnStep(t)
  PROVE  /\ phase = "cg"
         /\ pc[t] \in InColumn \cup {"count"}
         /\ UNCHANGED <<phase, pending, dual, solved>>
         /\ \A u \in Workers : u # t =>
              /\ pc'[u] = pc[u]
              /\ path'[u] = path[u]
              /\ varname'[u] = varname[u]
              /\ var'[u] = var[u]
              /\ left'[u] = left[u]
<1> USE DEF scipVars, columnVars, sharedVars, TypeInv, TypeOK, TaskOK, InColumn
<1>1. CASE NameVariable(t)
  BY <1>1 DEF NameVariable
<1>2. CASE CreateVariable(t)
  BY <1>2 DEF CreateVariable
<1>3. CASE CreateVariableFails(t)
  BY <1>3 DEF CreateVariableFails
<1>4. CASE AddCoefficient(t)
  BY <1>4 DEF AddCoefficient
<1>5. CASE AddCoefficientFails(t)
  BY <1>5 DEF AddCoefficientFails
<1>6. CASE RegisterPath(t)
  BY <1>6 DEF RegisterPath
<1>7. CASE CountPath(t)
  BY <1>7 DEF CountPath
<1> QED
  BY <1>1, <1>2, <1>3, <1>4, <1>5, <1>6, <1>7 DEF ColumnStep

(* What is appended, and what becomes of the other columns. *)
LEMMA Appended ==
  ASSUME NEW S, NEW s \in Seq(S), NEW x
  PROVE  /\ Len(s) \in Nat
         /\ Len(Append(s, x)) = Len(s) + 1
         /\ DOMAIN s = 1 .. Len(s)
         /\ DOMAIN Append(s, x) = 1 .. Len(s) + 1
         /\ \A i \in 1 .. Len(s) : Append(s, x)[i] = s[i]
         /\ Append(s, x)[Len(s) + 1] = x
OBVIOUS

NewIndex == Len(columns) + 1

LEMMA CreatedColumn ==
  ASSUME TypeInv, NEW t \in Workers, CreateVariable(t)
  PROVE  /\ \A i : i \in DOMAIN columns' <=> i \in DOMAIN columns \/ i = NewIndex
         /\ \A i \in DOMAIN columns : i # NewIndex /\ i # 0 /\ columns'[i] = columns[i]
         /\ \A n \in Nat : n <= Len(columns) => n <= Len(columns') /\ n < NewIndex
         /\ NewIndex # 0
         /\ columns'[NewIndex] = [name |-> varname[t], path |-> path[t], coeffs |-> {}]
         /\ var'[t] = NewIndex
         /\ left'[t] = PathTerms(path[t])
         /\ pc[t] = "create"
         /\ pc'[t] \in {"register", "coeff"}
         /\ pc'[t] = "register" => PathTerms(path[t]) = {}
         /\ UNCHANGED <<path, varname, scip_errors, n_generated_paths, var_to_path>>
<1>1. columns' = Append(columns, [name |-> varname[t], path |-> path[t], coeffs |-> {}])
  BY DEF CreateVariable
<1>2. columns \in Seq(Column)
  BY DEF TypeInv, TypeOK
<1>3. /\ var'[t] = NewIndex
      /\ left'[t] = PathTerms(path[t])
      /\ pc[t] = "create"
      /\ pc'[t] = IF PathTerms(path[t]) = {} THEN "register" ELSE "coeff"
      /\ UNCHANGED <<path, varname, scip_errors, n_generated_paths, var_to_path>>
  BY DEF CreateVariable, TypeInv, TypeOK, NewIndex
<1>4. /\ Len(columns) \in Nat
      /\ Len(columns') = Len(columns) + 1
      /\ DOMAIN columns = 1 .. Len(columns)
      /\ DOMAIN columns' = 1 .. Len(columns) + 1
      /\ \A i \in 1 .. Len(columns) : columns'[i] = columns[i]
      /\ columns'[Len(columns) + 1] = [name |-> varname[t], path |-> path[t], coeffs |-> {}]
  BY <1>1, <1>2, Appended
<1>5. /\ \A i : i \in DOMAIN columns' <=> i \in DOMAIN columns \/ i = NewIndex
      /\ \A i \in DOMAIN columns : i # NewIndex /\ i # 0
      /\ \A n \in Nat : n <= Len(columns) => n <= Len(columns') /\ n < NewIndex
      /\ NewIndex # 0
  BY <1>4 DEF NewIndex
<1> QED
  BY <1>3, <1>4, <1>5 DEF NewIndex

(* Only coefficients are added to a column. *)
LEMMA ColumnsKept ==
  ASSUME TypeInv, NEW t \in Workers, ColumnStep(t), ~CreateVariable(t)
  PROVE  /\ Len(columns) \in Nat
         /\ DOMAIN columns = 1 .. Len(columns)
         /\ Len(columns') = Len(columns)
         /\ DOMAIN columns' = DOMAIN columns
         /\ \A i \in DOMAIN columns :
              /\ columns'[i].name = columns[i].name
              /\ columns'[i].path = columns[i].path
              /\ ~AddCoefficient(t) \/ i # var[t] => columns'[i] = columns[i]
<1>1. columns \in Seq(Column)
  BY DEF TypeInv, TypeOK
<1>2. CASE AddCoefficient(t)
  <2>1. PICK x \in left[t] : columns' = [columns EXCEPT ![var[t]].coeffs = @ \cup {x}]
    BY <1>2 DEF AddCoefficient
  <2>2. /\ Len(columns) \in Nat
        /\ DOMAIN columns = 1 .. Len(columns)
        /\ \A j \in 1 .. Len(columns) : columns[j] \in Column
    BY <1>1
  <2>3. DOMAIN columns' = 1 .. Len(columns) /\ Len(columns') = Len(columns)
    BY <2>1, <2>2
  <2>4. \A i \in DOMAIN columns :
          /\ columns'[i].name = columns[i].name
          /\ columns'[i].path = columns[i].path
          /\ i # var[t] => columns'[i] = columns[i]
    BY <2>1, <2>2 DEF Column
  <2> QED
    BY <1>2, <2>2, <2>3, <2>4
<1>3. CASE ~AddCoefficient(t)
  <2>1. columns' = columns
    BY <1>3 DEF ColumnStep, NameVariable, CreateVariableFails, AddCoefficientFails, RegisterPath, CountPath, sharedVars
  <2> QED
    BY <1>1, <2>1
<1> QED
  BY <1>2, <1>3

-----------------------------------------------------------------------------
(* The variable a worker is building.                                      *)

LocalsOK(t) ==
  /\ pc[t] \in {"coeff", "register"} => var[t] # 0
  /\ var[t] # 0 =>
       /\ pc[t] \in {"coeff", "register", "count"}
       /\ var[t] \in DOMAIN columns
       /\ var[t] > solved
       /\ columns[var[t]].name = varname[t]
       /\ columns[var[t]].path = path[t]
  /\ pc[t] # "coeff" => left[t] = {}
  /\ left[t] \subseteq PathTerms(path[t])

ColumnInv ==
  /\ solved <= Len(columns)
  /\ scip_errors <= MaxScipErrors
  /\ \A t \in Workers : LocalsOK(t)
  /\ \A t, u \in Workers : var[t] # 0 /\ var[t] = var[u] => t = u

LEMMA ColumnStepLocalsOK ==
  ASSUME TypeInv, ColumnInv, NEW t \in Workers, ColumnStep(t)
  PROVE  LocalsOK(t)'
<1> USE DEF LocalsOK, TypeInv, TypeOK
<1>0. LocalsOK(t) /\ solved' = solved
  BY ColumnStepFrame DEF ColumnInv
<1>1. CASE NameVariable(t)
  BY <1>0, <1>1 DEF NameVariable, sharedVars
<1>2. CASE CreateVariable(t)
  <2>1. solved <= Len(columns) /\ solved \in Nat
    BY DEF ColumnInv
  <2>2. var'[t] \in DOMAIN columns' /\ var'[t] > solved'
    BY <1>0, <1>2, <2>1, CreatedColumn, ZenonT(40)
  <2>3. /\ columns'[var'[t]].name = varname'[t]
        /\ columns'[var'[t]].path = path'[t]
        /\ left'[t] = PathTerms(path[t])
        /\ path' = path
        /\ pc'[t] \in {"register", "coeff"}
        /\ pc'[t] = "register" => left'[t] = {}
    <3>1. columns'[NewIndex] = [name |-> varname[t], path |-> path[t], coeffs |-> {}] /\ var'[t] = NewIndex
      BY <1>2, CreatedColumn
    <3>2. columns'[var'[t]] = [name |-> varname[t], path |-> path[t], coeffs |-> {}]
      BY <3>1
    <3> QED
      BY <1>2, <3>2, CreatedColumn
  <2>4. var'[t] # 0
    BY <2>1, <2>2, <1>0
  <2> HIDE DEF TypeInv, TypeOK
  <2> QED
    BY <2>2, <2>3, <2>4
<1>3. CASE CreateVariableFails(t)
  BY <1>0, <1>3 DEF CreateVariableFails, columnVars
<1>4. CASE ~CreateVariable(t) /\ AddCoefficient(t)
  <2>1. var'[t] = var[t] /\ path'[t] = path[t] /\ varname'[t] = varname[t] /\ pc[t] = "coeff"
    BY <1>4 DEF AddCoefficient
  <2>2. pc'[t] \in {"coeff", "register"} /\ (pc'[t] # "coeff" => left'[t] = {}) /\ left'[t] \subseteq left[t]
    BY <1>4 DEF AddCoefficient
  <2> HIDE DEF TypeInv, TypeOK
  <2> QED
    BY <1>0, <1>4, <2>1, <2>2, ColumnsKept
<1>5. CASE AddCoefficientFails(t)
  BY <1>0, <1>5 DEF AddCoefficientFails
<1>6. CASE RegisterPath(t)
  BY <1>0, <1>6 DEF RegisterPath, columnVars
<1>7. CASE CountPath(t)
  BY <1>0, <1>7 DEF CountPath
<1> QED
  BY <1>1, <1>2, <1>3, <1>4, <1>5, <1>6, <1>7 DEF ColumnStep

LEMMA ColumnInvStep ==
  ASSUME TypeInv, ColumnInv, AnyStep
  PROVE  ColumnInv'
<1>1. CASE QuietStep
  BY <1>1 DEF QuietStep, ColumnInv, LocalsOK, InSet
<1>2. CASE StartPricing
  <2>1. /\ UNCHANGED <<columns, scip_errors, pc, path, varname, var, left>>
        /\ solved' = Len(columns)
        /\ phase = "lp"
    BY <1>2 DEF StartPricing, SolveMaster, columnVars, sharedVars
  <2>2. \A t \in Workers : var[t] = 0
    BY <2>1, NobodyInTask DEF ColumnInv, LocalsOK
  <2>3. solved' <= Len(columns')
    BY <2>1 DEF TypeInv, TypeOK
  <2> QED
    BY <2>1, <2>2, <2>3 DEF ColumnInv, LocalsOK
<1>3. ASSUME NEW t \in Workers, TakeTask(t)
      PROVE  ColumnInv'
  <2>1. /\ UNCHANGED <<columns, scip_errors, solved, varname, var, left>>
        /\ pc[t] = "idle"
        /\ pc'[t] \in {"name", "idle"}
        /\ \A u \in Workers \ {t} : pc'[u] = pc[u] /\ path'[u] = path[u]
    BY <1>3 DEF TakeTask, BeginColumn, TypeInv, TypeOK
  <2>2. \A u \in Workers : LocalsOK(u)'
    BY <2>1 DEF ColumnInv, LocalsOK
  <2> QED
    BY <2>1, <2>2 DEF ColumnInv
<1>4. ASSUME NEW t \in Workers, ColumnStep(t)
      PROVE  ColumnInv'
  <2>1. /\ solved' = solved
        /\ \A u \in Workers : u # t =>
              /\ pc'[u] = pc[u]
              /\ path'[u] = path[u]
              /\ varname'[u] = varname[u]
              /\ var'[u] = var[u]
              /\ left'[u] = left[u]
    BY <1>4, ColumnStepFrame
  <2>2. /\ solved <= Len(columns) => solved <= Len(columns')
        /\ \A i \in DOMAIN columns :
             /\ i \in DOMAIN columns'
             /\ columns'[i].name = columns[i].name
             /\ columns'[i].path = columns[i].path
    <3>1. solved \in Nat
      BY DEF TypeInv, TypeOK
    <3> QED
      BY <1>4, <3>1, CreatedColumn, ColumnsKept
  <2>3. \A u \in Workers : LocalsOK(u)'
    BY <1>4, <2>1, <2>2, ColumnStepLocalsOK DEF ColumnInv, LocalsOK
  <2>4. scip_errors' <= MaxScipErrors
    <3>1. scip_errors' = scip_errors \/ ScipFails
      BY <1>4 DEF ColumnStep, NameVariable, CreateVariable, CreateVariableFails, AddCoefficient,
         AddCoefficientFails, RegisterPath, CountPath, sharedVars
    <3> QED
      BY <3>1, BoundAssumption DEF ScipFails, ColumnInv, TypeInv, TypeOK
  <2>5. var'[t] # 0 => \A u \in Workers : u # t => var'[u] # var'[t]
    <3>1. CASE CreateVariable(t)
      <4>1. \A u \in Workers : u # t => var[u] # NewIndex
        BY <3>1, CreatedColumn DEF ColumnInv, LocalsOK
      <4> QED
        BY <2>1, <3>1, <4>1, CreatedColumn
    <3>2. CASE ~CreateVariable(t)
      <4>1. var'[t] = var[t] \/ var'[t] = 0
        BY <1>4, <3>2 DEF ColumnStep, NameVariable, CreateVariableFails, AddCoefficient,
           AddCoefficientFails, RegisterPath, CountPath, columnVars, TypeInv, TypeOK
      <4> QED
        BY <2>1, <4>1 DEF ColumnInv
    <3> QED
      BY <3>1, <3>2
  <2> QED
    BY <2>1, <2>2, <2>3, <2>4, <2>5 DEF ColumnInv
<1> QED
  BY <1>1, <1>2, <1>3, <1>4 DEF AnyStep

-----------------------------------------------------------------------------
(* A column is sound if it has its coefficients or a worker still has the  *)
(* missing ones to add.  Each column that is not has cost an SCIP error.   *)

Sound(i) ==
  \/ columns[i].coeffs = PathTerms(columns[i].path)
  \/ \E t \in Workers : var[t] = i /\ columns[i].coeffs \cup left[t] = PathTerms(columns[i].path)

Broken == {i \in DOMAIN columns : ~Sound(i)}

CoefficientInv == Cardinality(Broken) <= scip_errors

LEMMA BrokenFinite ==
  ASSUME TypeInv
  PROVE  IsFiniteSet(Broken) /\ Cardinality(Broken) \in Nat
<1>1. columns \in Seq(Column)
  BY DEF TypeInv, TypeOK
<1>2. DOMAIN columns = 1 .. Len(columns) /\ Len(columns) \in Nat
  BY <1>1
<1>3. Broken \subseteq 1 .. Len(columns)
  BY <1>2 DEF Broken
<1>4. IsFiniteSet(1 .. Len(columns))
  BY <1>2, FS_Interval
<1>5. IsFiniteSet(Broken)
  BY <1>3, <1>4, FS_Subset
<1> QED
  BY <1>5, FS_CardinalityType

LEMMA ColumnStepBroken ==
  ASSUME TypeInv, ColumnInv, NEW t \in Workers, ColumnStep(t)
  PROVE  \/ Broken' \subseteq Broken
         \/ AddCoefficientFails(t) /\ Broken' \subseteq Broken \cup {var[t]}
<1>0. \A u \in Workers : u # t => var'[u] = var[u] /\ left'[u] = left[u]
  BY ColumnStepFrame
<1>00. LocalsOK(t)
  BY DEF ColumnInv
<1>1. ASSUME ~CreateVariable(t), ~AddCoefficient(t), ~AddCoefficientFails(t)
      PROVE  Broken' \subseteq Broken
  <2>1. /\ DOMAIN columns' = DOMAIN columns
        /\ \A i \in DOMAIN columns : columns'[i] = columns[i]
    BY <1>1, ColumnsKept
  <2>2. (var'[t] = var[t] /\ left'[t] = left[t]) \/ left[t] = {}
    BY <1>1, <1>00 DEF ColumnStep, NameVariable, CreateVariableFails, RegisterPath, CountPath, LocalsOK, columnVars
  <2>3. \A i \in DOMAIN columns : Sound(i) => Sound(i)'
    BY <1>0, <2>1, <2>2 DEF Sound
  <2> QED
    BY <2>1, <2>3 DEF Broken
<1>2. ASSUME CreateVariable(t)
      PROVE  Broken' \subseteq Broken
  <2>1. var[t] = 0
    BY <1>2, <1>00, CreatedColumn DEF LocalsOK
  <2>2. \A i \in DOMAIN columns : i # 0 /\ columns'[i] = columns[i]
    BY <1>2, CreatedColumn
  <2>3. \A i \in DOMAIN columns : Sound(i) => Sound(i)'
    BY <1>0, <2>1, <2>2 DEF Sound
  <2>4. ASSUME NEW i, i = NewIndex
        PROVE  Sound(i)'
    <3>1. columns'[i] = [name |-> varname[t], path |-> path[t], coeffs |-> {}]
      BY <1>2, <2>4, CreatedColumn
    <3>2. var'[t] = i /\ left'[t] = PathTerms(path[t])
      BY <1>2, <2>4, CreatedColumn
    <3>3. columns'[i].coeffs = {} /\ columns'[i].path = path[t]
      BY <3>1
    <3> QED
      BY <3>2, <3>3 DEF Sound
  <2> QED
    BY <1>2, <2>3, <2>4, CreatedColumn DEF Broken
<1>3. ASSUME ~CreateVariable(t), AddCoefficient(t)
      PROVE  Broken' \subseteq Broken
  <2>1. PICK x \in left[t] :
          /\ columns' = [columns EXCEPT ![var[t]].coeffs = @ \cup {x}]
          /\ left' = [left EXCEPT ![t] = @ \ {x}]
    BY <1>3 DEF AddCoefficient
  <2>2. var[t] \in DOMAIN columns /\ left[t] \subseteq PathTerms(path[t]) /\ columns[var[t]].path = path[t]
    BY <1>00, <1>3 DEF AddCoefficient, LocalsOK
  <2>3. /\ DOMAIN columns' = DOMAIN columns
        /\ \A i \in DOMAIN columns : columns'[i].path = columns[i].path
        /\ \A i \in DOMAIN columns : i # var[t] => columns'[i] = columns[i]
    BY <1>3, ColumnsKept
  <2>4. columns'[var[t]].coeffs = columns[var[t]].coeffs \cup {x} /\ left'[t] = left[t] \ {x} /\ var'[t] = var[t]
    <3>1. columns[var[t]] \in Column
      BY <2>2 DEF TypeInv, TypeOK
    <3>2. columns'[var[t]] = [columns[var[t]] EXCEPT !.coeffs = @ \cup {x}]
      BY <2>1, <2>2
    <3>3. left'[t] = left[t] \ {x} /\ var'[t] = var[t]
      BY <1>3, <2>1 DEF AddCoefficient, TypeInv, TypeOK
    <3> QED
      BY <3>1, <3>2, <3>3 DEF Column
  <2>5. \A i \in DOMAIN columns : i # var[t] /\ Sound(i) => Sound(i)'
    BY <1>0, <2>3, <2>4 DEF Sound
  <2>6. ASSUME NEW i, i = var[t], Sound(i)
        PROVE  Sound(i)'
    <3>1. columns[i].coeffs \cup left[t] = PathTerms(columns[i].path)
      BY <2>2, <2>6 DEF Sound, ColumnInv
    <3>2. columns'[i].coeffs \cup left'[t] = PathTerms(columns'[i].path)
      BY <2>2, <2>3, <2>4, <2>6, <3>1
    <3> QED
      BY <2>4, <2>6, <3>2 DEF Sound
  <2> QED
    BY <2>3, <2>5, <2>6 DEF Broken
<1>4. ASSUME ~CreateVariable(t), ~AddCoefficient(t), AddCoefficientFails(t)
      PROVE  Broken' \subseteq Broken \cup {var[t]}
  <2>1. /\ DOMAIN columns' = DOMAIN columns
        /\ \A i \in DOMAIN columns : columns'[i] = columns[i]
    BY <1>4, ColumnsKept
  <2>2. var'[t] = var[t]
    BY <1>4 DEF AddCoefficientFails
  <2>3. \A i \in DOMAIN columns : i # var[t] /\ Sound(i) => Sound(i)'
    BY <1>0, <2>1, <2>2 DEF Sound
  <2> QED
    BY <2>1, <2>3 DEF Broken
<1> QED
  BY <1>1, <1>2, <1>3, <1>4

(* A step that breaks no column, or pays for the one it breaks. *)
LEMMA BrokenPaid ==
  ASSUME TypeInv, TypeInv', CoefficientInv,
         \/ Broken' \subseteq Broken /\ scip_errors' >= scip_errors
         \/ \E i : Broken' \subseteq Broken \cup {i} /\ scip_errors' = scip_errors + 1
  PROVE  CoefficientInv'
<1>1. /\ IsFiniteSet(Broken) /\ Cardinality(Broken) \in Nat
      /\ IsFiniteSet(Broken') /\ Cardinality(Broken') \in Nat
      /\ scip_errors \in Nat /\ scip_errors' \in Nat
      /\ Cardinality(Broken) <= scip_errors
  <2>1. (IsFiniteSet(Broken) /\ Cardinality(Broken) \in Nat)'
    BY BrokenFinite, PTL
  <2> QED
    BY <2>1, BrokenFinite DEF TypeInv, TypeOK, CoefficientInv
<1>2. CASE Broken' \subseteq Broken /\ scip_errors' >= scip_errors
  <2>1. Cardinality(Broken') <= Cardinality(Broken)
    BY <1>1, <1>2, FS_Subset
  <2> QED
    BY <1>1, <1>2, <2>1 DEF CoefficientInv
<1>3. ASSUME NEW i, Broken' \subseteq Broken \cup {i}, scip_errors' = scip_errors + 1
      PROVE  CoefficientInv'
  <2>1. /\ IsFiniteSet(Broken \cup {i})
        /\ Cardinality(Broken \cup {i}) = Cardinality(Broken) \/ Cardinality(Broken \cup {i}) = Cardinality(Broken) + 1
    BY <1>1, FS_AddElement
  <2>2. Cardinality(Broken') <= Cardinality(Broken \cup {i})
    BY <1>3, <2>1, FS_Subset
  <2> QED
    BY <1>1, <1>3, <2>1, <2>2 DEF CoefficientInv
<1> QED
  BY <1>2, <1>3

LEMMA CoefficientInvStep ==
  ASSUME TypeInv, TypeInv', ColumnInv, CoefficientInv, AnyStep
  PROVE  CoefficientInv'
<1>1. CASE QuietStep
  BY <1>1 DEF QuietStep, CoefficientInv, Broken, Sound
<1>2. CASE StartPricing
  BY <1>2 DEF StartPricing, columnVars, sharedVars, CoefficientInv, Broken, Sound
<1>3. ASSUME NEW t \in Workers, TakeTask(t)
      PROVE  CoefficientInv'
  BY <1>3 DEF TakeTask, CoefficientInv, Broken, Sound
<1>4. ASSUME NEW t \in Workers, ColumnStep(t)
      PROVE  CoefficientInv'
  <2>1. scip_errors' = scip_errors \/ scip_errors' = scip_errors + 1
    BY <1>4 DEF ColumnStep, NameVariable, CreateVariable, CreateVariableFails, AddCoefficient,
       AddCoefficientFails, RegisterPath, CountPath, sharedVars, ScipFails
  <2>2. scip_errors' >= scip_errors
    BY <2>1 DEF TypeInv, TypeOK
  <2>3. AddCoefficientFails(t) => scip_errors' = scip_errors + 1
    BY DEF AddCoefficientFails, ScipFails
  <2> QED
    BY <1>4, <2>2, <2>3, ColumnStepBroken, BrokenPaid
<1> QED
  BY <1>1, <1>2, <1>3, <1>4 DEF AnyStep

(* Between the rounds all coefficients of a sound column are added. *)
LEMMA SoundBetweenRounds ==
  ASSUME TypeInv, ColumnInv, phase \notin {"set", "cg"}, NEW i \in DOMAIN columns, Sound(i)
  PROVE  columns[i].coeffs = PathTerms(columns[i].path)
<1>1. \A t \in Workers : left[t] = {}
  BY NobodyInTask DEF ColumnInv, LocalsOK
<1> QED
  BY <1>1 DEF Sound

LEMMA CoefficientsOfColumns ==
  ASSUME TypeInv, ColumnInv, CoefficientInv
  PROVE  ColumnsComplete
<1> DEFINE Half == {i \in DOMAIN columns : columns[i].coeffs # PathTerms(columns[i].path)}
<1>1. SUFFICES ASSUME phase = "lp"
               PROVE  Cardinality(Half) <= scip_errors
  BY DEF ColumnsComplete
<1>2. Half \subseteq Broken
  BY <1>1, SoundBetweenRounds DEF Broken
<1>3. Broken \subseteq Half
  BY DEF Broken, Sound
<1>4. Half = Broken
  BY <1>2, <1>3
<1> QED
  BY <1>4 DEF CoefficientInv

-----------------------------------------------------------------------------
(* Names.  The counter is ahead of every name but those of the variables   *)
(* that are being built.                                                   *)

NameInv ==
  /\ \A t \in Workers : pc[t] \in {"create", "coeff", "register", "count"} => varname[t] <= n_generated_paths
  /\ \A i \in DOMAIN columns :
       /\ columns[i].name <= n_generated_paths
       /\ columns[i].name < n_generated_paths \/ \E t \in Workers : var[t] = i
  /\ \A i \in DOMAIN columns : i <= solved =>
       /\ columns[i].name < n_generated_paths
       /\ \A t \in Workers : pc[t] = "create" => columns[i].name < varname[t]
       /\ \A j \in DOMAIN columns : j > solved => columns[i].name < columns[j].name

LEMMA NamesAreNumbers ==
  ASSUME TypeInv
  PROVE  /\ n_generated_paths \in Nat /\ solved \in Nat
         /\ \A i \in DOMAIN columns : columns[i].name \in Nat /\ i \in Nat /\ i <= Len(columns) /\ columns[i].path \in Paths
         /\ \A t \in Workers : varname[t] \in Nat
<1>1. columns \in Seq(Column)
  BY DEF TypeInv, TypeOK
<1>2. /\ Len(columns) \in Nat
      /\ DOMAIN columns = 1 .. Len(columns)
      /\ \A i \in DOMAIN columns : columns[i] \in Column
  BY <1>1
<1>3. \A i \in DOMAIN columns : columns[i].name \in Nat /\ columns[i].path \in Paths
  BY <1>2 DEF Column
<1>4. \A i \in DOMAIN columns : i \in Nat /\ i <= Len(columns)
  BY <1>2
<1>5. n_generated_paths \in Nat /\ solved \in Nat /\ \A t \in Workers : varname[t] \in Nat
  BY DEF TypeInv, TypeOK
<1> QED
  BY <1>3, <1>4, <1>5

LEMMA NameInvStep ==
  ASSUME TypeInv, ColumnInv, NameInv, AnyStep
  PROVE  NameInv'
<1>0. /\ n_generated_paths \in Nat /\ solved \in Nat
      /\ \A i \in DOMAIN columns : columns[i].name \in Nat /\ i \in Nat /\ i <= Len(columns)
      /\ \A t \in Workers : varname[t] \in Nat
  BY NamesAreNumbers
<1>1. CASE QuietStep
  BY <1>1 DEF QuietStep, NameInv, InSet
<1>2. CASE StartPricing
  <2>1. /\ UNCHANGED <<columns, n_generated_paths, pc, varname, var>>
        /\ solved' = Len(columns)
        /\ phase = "lp"
    BY <1>2 DEF StartPricing, SolveMaster, columnVars, sharedVars
  <2>2. \A t \in Workers : var[t] = 0 /\ pc[t] = "idle"
    BY <2>1, NobodyInTask DEF ColumnInv, LocalsOK
  <2>3. \A i \in DOMAIN columns : i # 0 /\ ~(i > solved') /\ columns[i].name < n_generated_paths
    <3>1. \A i \in DOMAIN columns : i # 0
      BY DEF TypeInv, TypeOK
    <3>2. \A i \in DOMAIN columns : columns[i].name < n_generated_paths
      BY <2>2, <3>1 DEF NameInv
    <3>3. Len(columns) \in Nat
      BY DEF TypeInv, TypeOK
    <3>4. \A i \in DOMAIN columns : ~(i > solved')
      BY <1>0, <2>1, <3>3
    <3> QED
      BY <3>1, <3>2, <3>4
  <2> QED
    BY <2>1, <2>2, <2>3 DEF NameInv
<1>3. ASSUME NEW t \in Workers, TakeTask(t)
      PROVE  NameInv'
  <2>1. /\ UNCHANGED <<columns, n_generated_paths, solved, varname, var>>
        /\ pc'[t] \in {"name", "idle"}
        /\ \A u \in Workers \ {t} : pc'[u] = pc[u]
    BY <1>3 DEF TakeTask, BeginColumn, TypeInv, TypeOK
  <2> QED
    BY <2>1 DEF NameInv
<1>4. ASSUME NEW t \in Workers, NameVariable(t)
      PROVE  NameInv'
  <2>1. /\ UNCHANGED <<columns, n_generated_paths, solved, var>>
        /\ varname'[t] = n_generated_paths
        /\ \A u \in Workers \ {t} : pc'[u] = pc[u] /\ varname'[u] = varname[u]
    BY <1>4 DEF NameVariable, scipVars, sharedVars, TypeInv, TypeOK
  <2> QED
    BY <1>0, <2>1 DEF NameInv
<1>5. ASSUME NEW t \in Workers, CreateVariable(t)
      PROVE  NameInv'
  <2>1. /\ UNCHANGED <<varname, n_generated_paths, solved>>
        /\ \A u \in Workers \ {t} : pc'[u] = pc[u] /\ var'[u] = var[u]
    <3>1. ColumnStep(t)
      BY <1>5 DEF ColumnStep
    <3>2. solved' = solved /\ \A u \in Workers \ {t} : pc'[u] = pc[u] /\ var'[u] = var[u]
      BY <3>1, ColumnStepFrame
    <3> QED
      BY <1>5, <3>2, CreatedColumn
  <2>2. /\ pc[t] = "create" /\ pc'[t] \in {"register", "coeff"} /\ var'[t] = NewIndex
        /\ \A i \in DOMAIN columns : columns'[i] = columns[i]
        /\ columns'[NewIndex].name = varname[t]
        /\ \A i : i \in DOMAIN columns' <=> i \in DOMAIN columns \/ i = NewIndex
        /\ solved < NewIndex
    <3>1. columns'[NewIndex] = [name |-> varname[t], path |-> path[t], coeffs |-> {}]
      BY <1>5, CreatedColumn
    <3>2. solved <= Len(columns) /\ solved \in Nat
      BY <1>0 DEF ColumnInv
    <3>3. solved < NewIndex
      BY <1>5, <3>2, CreatedColumn
    <3> QED
      BY <1>5, <3>1, <3>3, CreatedColumn
  <2>3. var[t] = 0 /\ \A i \in DOMAIN columns : i # 0
    BY <2>2, <1>5, CreatedColumn DEF ColumnInv, LocalsOK
  <2>4. ~(NewIndex <= solved)
    BY <1>0, <2>2 DEF NewIndex, TypeInv, TypeOK
  <2>5. \A u \in Workers : pc'[u] \in {"create", "coeff", "register", "count"} => varname'[u] <= n_generated_paths'
    BY <2>1, <2>2 DEF NameInv
  <2>6. \A i \in DOMAIN columns' :
           /\ columns'[i].name <= n_generated_paths'
           /\ columns'[i].name < n_generated_paths' \/ \E u \in Workers : var'[u] = i
    BY <2>1, <2>2, <2>3 DEF NameInv
  <2>7. \A i \in DOMAIN columns' : i <= solved' =>
          /\ columns'[i].name < n_generated_paths'
          /\ \A u \in Workers : pc'[u] = "create" => columns'[i].name < varname'[u]
          /\ \A j \in DOMAIN columns' : j > solved' => columns'[i].name < columns'[j].name
    BY <2>1, <2>2, <2>4 DEF NameInv
  <2> QED
    BY <2>5, <2>6, <2>7 DEF NameInv
<1>6. ASSUME NEW t \in Workers, ColumnStep(t), ~CreateVariable(t), ~NameVariable(t), ~CountPath(t)
      PROVE  NameInv'
  <2>1. UNCHANGED <<varname, var, n_generated_paths, solved>> /\ pc[t] # "name" /\ pc'[t] # "create" /\ pc[t] \in {"create", "coeff", "register"}
    BY <1>6 DEF ColumnStep, CreateVariableFails, AddCoefficient, AddCoefficientFails,
       RegisterPath, columnVars, sharedVars, scipVars, TypeInv, TypeOK
  <2>2. /\ DOMAIN columns' = DOMAIN columns
        /\ \A i \in DOMAIN columns : columns'[i].name = columns[i].name
        /\ \A u \in Workers \ {t} : pc'[u] = pc[u]
    BY <1>6, ColumnsKept, ColumnStepFrame
  <2> QED
    BY <2>1, <2>2 DEF NameInv
<1>7. ASSUME NEW t \in Workers, CountPath(t)
      PROVE  NameInv'
  <2>1. /\ UNCHANGED <<columns, solved>>
        /\ n_generated_paths' = n_generated_paths + 1
        /\ pc'[t] = "idle"
        /\ \A u \in Workers \ {t} : pc'[u] = pc[u] /\ varname'[u] = varname[u] /\ var'[u] = var[u]
    BY <1>7 DEF CountPath, scipVars, TypeInv, TypeOK
  <2> QED
    BY <1>0, <2>1 DEF NameInv
<1> QED
  BY <1>1, <1>2, <1>3, <1>4, <1>5, <1>6, <1>7 DEF AnyStep

LEMMA NamesOfRounds ==
  ASSUME TypeInv, NameInv
  PROVE  NamesFreshAcrossRounds
BY NamesAreNumbers DEF NameInv, NamesFreshAcrossRounds

-----------------------------------------------------------------------------
(* generated_var_to_path_.  Every name is stored unless the only variables *)
(* of it are being built, and what is stored is the path of a variable.    *)

StoredInv ==
  /\ \A i \in DOMAIN columns :
       \/ columns[i].name \in DOMAIN var_to_path
       \/ \E t \in Workers : var[t] = i /\ pc[t] \in {"coeff", "register"}
  /\ \A n \in DOMAIN var_to_path :
       \E j \in DOMAIN columns : columns[j].name = n /\ columns[j].path = var_to_path[n]

LEMMA StoredInvStep ==
  ASSUME TypeInv, ColumnInv, StoredInv, AnyStep
  PROVE  StoredInv'
<1>1. CASE QuietStep
  BY <1>1 DEF QuietStep, StoredInv, InSet
<1>2. CASE StartPricing
  BY <1>2 DEF StartPricing, columnVars, sharedVars, StoredInv
<1>3. ASSUME NEW t \in Workers, TakeTask(t)
      PROVE  StoredInv'
  <2>1. /\ UNCHANGED <<columns, var_to_path, var>>
        /\ pc[t] = "idle"
        /\ \A u \in Workers \ {t} : pc'[u] = pc[u]
    BY <1>3 DEF TakeTask, BeginColumn, TypeInv, TypeOK
  <2> QED
    BY <2>1 DEF StoredInv
<1>4. ASSUME NEW t \in Workers, CreateVariable(t)
      PROVE  StoredInv'
  <2>1. /\ var_to_path' = var_to_path
        /\ var'[t] = NewIndex /\ pc'[t] \in {"register", "coeff"} /\ pc[t] = "create"
        /\ \A u \in Workers \ {t} : pc'[u] = pc[u] /\ var'[u] = var[u]
    <3>1. ColumnStep(t)
      BY <1>4 DEF ColumnStep
    <3>2. \A u \in Workers \ {t} : pc'[u] = pc[u] /\ var'[u] = var[u]
      BY <3>1, ColumnStepFrame
    <3> QED
      BY <1>4, <3>2, CreatedColumn
  <2>2. /\ \A i \in DOMAIN columns : columns'[i] = columns[i]
        /\ \A i : i \in DOMAIN columns' <=> i \in DOMAIN columns \/ i = NewIndex
    BY <1>4, CreatedColumn
  <2> QED
    BY <2>1, <2>2 DEF StoredInv
<1>5. ASSUME NEW t \in Workers, ColumnStep(t), ~CreateVariable(t), ~RegisterPath(t)
      PROVE  StoredInv'
  <2>1. /\ var_to_path' = var_to_path
        /\ \/ pc[t] \notin {"coeff", "register"}
           \/ pc'[t] \in {"coeff", "register"} /\ var'[t] = var[t]
    BY <1>5 DEF ColumnStep, NameVariable, CreateVariableFails, AddCoefficient, AddCoefficientFails,
       CountPath, sharedVars, TypeInv, TypeOK
  <2>2. /\ DOMAIN columns' = DOMAIN columns
        /\ \A i \in DOMAIN columns : columns'[i].name = columns[i].name /\ columns'[i].path = columns[i].path
        /\ \A u \in Workers \ {t} : pc'[u] = pc[u] /\ var'[u] = var[u]
    BY <1>5, ColumnsKept, ColumnStepFrame
  <2> QED
    BY <2>1, <2>2 DEF StoredInv
<1>6. ASSUME NEW t \in Workers, RegisterPath(t)
      PROVE  StoredInv'
  <2>1. /\ pc[t] = "register"
        /\ UNCHANGED <<columns, var>>
        /\ pc' = [pc EXCEPT ![t] = "count"]
        /\ DOMAIN var_to_path' = DOMAIN var_to_path \cup {varname[t]}
        /\ \A n \in DOMAIN var_to_path : var_to_path'[n] = var_to_path[n]
        /\ varname[t] \notin DOMAIN var_to_path => var_to_path'[varname[t]] = path[t]
    BY <1>6 DEF RegisterPath, AddVarPathPair, columnVars
  <2>2. /\ var[t] \in DOMAIN columns
        /\ columns[var[t]].name = varname[t]
        /\ columns[var[t]].path = path[t]
    BY <2>1 DEF ColumnInv, LocalsOK
  <2>3. \A u \in Workers \ {t} : pc'[u] = pc[u]
    BY <2>1 DEF TypeInv, TypeOK
  <2> QED
    BY <2>1, <2>2, <2>3 DEF StoredInv
<1> QED
  BY <1>1, <1>2, <1>3, <1>4, <1>5, <1>6 DEF AnyStep

LEMMA StoredPaths ==
  ASSUME TypeInv, StoredInv
  PROVE  StoredPathFits
<1> SUFFICES ASSUME phase \in Final, NEW i \in DOMAIN columns
             PROVE  /\ columns[i].name \in DOMAIN var_to_path
                    /\ \E j \in DOMAIN columns :
                         columns[j].name = columns[i].name /\ columns[j].path = var_to_path[columns[i].name]
  BY DEF StoredPathFits
<1>1. \A t \in Workers : pc[t] = "idle"
  BY NobodyInTask DEF Final
<1> QED
  BY <1>1 DEF StoredInv

-----------------------------------------------------------------------------
(* With one thread nobody increments the counter between reading it and    *)
(* using it, and all names are different.                                  *)

OneThread == \A t, u \in Workers : t = u

UniqueInv ==
  /\ \A t \in Workers : pc[t] = "create" => varname[t] = n_generated_paths
  /\ \A i, j \in DOMAIN columns : columns[i].name = columns[j].name => i = j

LEMMA UniqueInvStep ==
  ASSUME OneThread, TypeInv, ColumnInv, NameInv, UniqueInv, AnyStep
  PROVE  UniqueInv'
<1>1. CASE QuietStep
  BY <1>1 DEF QuietStep, UniqueInv, InSet
<1>2. CASE StartPricing
  BY <1>2 DEF StartPricing, columnVars, sharedVars, UniqueInv
<1>3. ASSUME NEW t \in Workers, TakeTask(t)
      PROVE  UniqueInv'
  <2>1. UNCHANGED <<columns, varname, n_generated_paths>> /\ pc'[t] # "create"
    BY <1>3 DEF TakeTask, BeginColumn, TypeInv, TypeOK
  <2> QED
    BY <2>1 DEF UniqueInv, OneThread
<1>4. ASSUME NEW t \in Workers, NameVariable(t)
      PROVE  UniqueInv'
  <2>1. UNCHANGED <<columns, n_generated_paths>> /\ varname'[t] = n_generated_paths
    BY <1>4 DEF NameVariable, sharedVars, TypeInv, TypeOK
  <2> QED
    BY <2>1 DEF UniqueInv, OneThread
<1>5. ASSUME NEW t \in Workers, CreateVariable(t)
      PROVE  UniqueInv'
  <2>1. /\ pc[t] = "create" /\ pc'[t] \in {"register", "coeff"}
        /\ \A i \in DOMAIN columns : i # 0 /\ columns'[i] = columns[i]
        /\ \A i : i \in DOMAIN columns' <=> i \in DOMAIN columns \/ i = NewIndex
    BY <1>5, CreatedColumn
  <2>2. columns'[NewIndex] = [name |-> varname[t], path |-> path[t], coeffs |-> {}]
    BY <1>5, CreatedColumn
  <2>3. varname[t] = n_generated_paths /\ \A u \in Workers : var[u] = 0
    BY <2>1 DEF UniqueInv, OneThread, ColumnInv, LocalsOK
  <2>4. \A i \in DOMAIN columns : columns[i].name < n_generated_paths /\ columns[i].name \in Nat
    BY <2>1, <2>3, NamesAreNumbers DEF NameInv
  <2>5. \A i \in DOMAIN columns : columns'[i].name # columns'[NewIndex].name
    BY <2>1, <2>2, <2>3, <2>4, NamesAreNumbers
  <2>6. \A u \in Workers : pc'[u] # "create"
    BY <2>1 DEF OneThread
  <2> QED
    BY <2>1, <2>5, <2>6 DEF UniqueInv
<1>6. ASSUME NEW t \in Workers, ColumnStep(t), ~CreateVariable(t), ~NameVariable(t)
      PROVE  UniqueInv'
  <2>1. pc'[t] # "create"
    BY <1>6 DEF ColumnStep, CreateVariableFails, AddCoefficient, AddCoefficientFails, RegisterPath,
       CountPath, TypeInv, TypeOK
  <2>2. /\ DOMAIN columns' = DOMAIN columns
        /\ \A i \in DOMAIN columns : columns'[i].name = columns[i].name
    BY <1>6, ColumnsKept
  <2> QED
    BY <2>1, <2>2 DEF UniqueInv, OneThread
<1> QED
  BY <1>1, <1>2, <1>3, <1>4, <1>5, <1>6 DEF AnyStep

LEMMA OwnPaths ==
  ASSUME TypeInv, StoredInv, UniqueInv
  PROVE  PathOfVariable
<1>1. StoredPathFits
  BY StoredPaths
<1> QED
  BY <1>1 DEF StoredPathFits, PathOfVariable, UniqueInv

-----------------------------------------------------------------------------
(* One round.  A network has a task that has not started, a worker on its  *)
(* way to SCIPaddPricedVar, or a new column: one of them at most.          *)

InFlight(t) == pc[t] \in {"name", "create"}

GroupOfTask(t) == PathGroup[path[t]]

GroupOfColumn(i) == PathGroup[columns[i].path]

RoundInv ==
  /\ phase \in {"zero", "set", "paths"} => solved = Len(columns)
  /\ \A t \in Workers : InFlight(t) => GroupOfTask(t) \notin pending
  /\ \A i \in DOMAIN columns : i > solved => GroupOfColumn(i) \notin pending
  /\ \A t, u \in Workers : InFlight(t) /\ InFlight(u) /\ GroupOfTask(t) = GroupOfTask(u) => t = u
  /\ \A t \in Workers, i \in DOMAIN columns : InFlight(t) /\ i > solved => GroupOfTask(t) # GroupOfColumn(i)
  /\ \A i, j \in DOMAIN columns : i > solved /\ j > solved /\ GroupOfColumn(i) = GroupOfColumn(j) => i = j

LEMMA RoundInvQuiet ==
  ASSUME TypeInv, TypeInv', ColumnInv, RoundInv, QuietStep
  PROVE  RoundInv'
<1>1. /\ UNCHANGED <<columns, solved, path>>
      /\ \A t \in Workers : InFlight(t)' <=> InFlight(t)
  BY DEF QuietStep, InFlight, InSet
<1>2. phase' \in {"zero", "set", "paths"} => phase \in {"zero", "set", "paths"}
  BY DEF QuietStep
<1>3. (\E t \in Workers : InFlight(t)) \/ (\E i \in DOMAIN columns : i > solved) => pending' \subseteq pending
  <2>1. CASE phase' \in {"lp"} \cup Final
    BY <2>1 DEF TypeInv, QueueOK
  <2>2. CASE phase = "cg" /\ phase' = "cg"
    BY <2>2 DEF QuietStep
  <2>3. CASE phase \in {"zero", "set", "paths"}
    <3>1. \A i \in DOMAIN columns : ~(i > solved)
      BY <2>3, NamesAreNumbers DEF RoundInv
    <3>2. \A t \in Workers : ~InFlight(t)
      BY <2>3 DEF InFlight, TypeInv, TaskOK, InColumn
    <3> QED
      BY <3>1, <3>2
  <2>4. phase' \in {"lp", "zero", "set", "paths", "cg"} \cup Final
    BY DEF TypeInv, TypeOK
  <2> QED
    BY <1>2, <2>1, <2>2, <2>3, <2>4 DEF QuietStep
<1> QED
  BY <1>1, <1>2, <1>3 DEF RoundInv, GroupOfTask, GroupOfColumn

LEMMA RoundInvStep ==
  ASSUME TypeInv, TypeInv', ColumnInv, RoundInv, AnyStep
  PROVE  RoundInv'
<1>1. CASE QuietStep
  BY <1>1, RoundInvQuiet
<1>2. CASE StartPricing
  <2>1. /\ UNCHANGED <<columns, pc>>
        /\ solved' = Len(columns)
        /\ phase = "lp"
    BY <1>2 DEF StartPricing, SolveMaster, columnVars, sharedVars
  <2>2. \A t \in Workers : ~InFlight(t)'
    BY <2>1, NobodyInTask DEF InFlight
  <2>3. \A i \in DOMAIN columns' : ~(i > solved')
    <3>1. Len(columns) \in Nat
      BY DEF TypeInv, TypeOK
    <3> QED
      BY <2>1, <3>1, NamesAreNumbers
  <2> QED
    BY <2>1, <2>2, <2>3 DEF RoundInv
<1>3. ASSUME NEW t \in Workers, TakeTask(t)
      PROVE  RoundInv'
  <2>1. /\ UNCHANGED <<phase, columns, solved>>
        /\ phase = "cg" /\ pc[t] = "idle"
        /\ \A u \in Workers \ {t} : pc'[u] = pc[u] /\ path'[u] = path[u]
    BY <1>3 DEF TakeTask, BeginColumn, TypeInv, TypeOK
  <2>2. PICK g \in pending :
          /\ pending' = pending \ {g}
          /\ \/ pc'[t] = "idle"
             \/ PathGroup[path'[t]] = g
    BY <1>3 DEF TakeTask, BeginColumn, PathsOf, TypeInv, TypeOK
  <2>3. \A u \in Workers \ {t} : InFlight(u)' = InFlight(u) /\ GroupOfTask(u)' = GroupOfTask(u)
    BY <2>1 DEF InFlight, GroupOfTask
  <2>4. InFlight(t)' => GroupOfTask(t)' = g
    BY <2>2 DEF InFlight, GroupOfTask
  <2>5. \A i \in DOMAIN columns : GroupOfColumn(i)' = GroupOfColumn(i)
    BY <2>1 DEF GroupOfColumn
  <2> QED
    BY <2>1, <2>2, <2>3, <2>4, <2>5 DEF RoundInv
<1>4. ASSUME NEW t \in Workers, CreateVariable(t)
      PROVE  RoundInv'
  <2>1. ColumnStep(t)
    BY <1>4 DEF ColumnStep
  <2>2. /\ UNCHANGED <<phase, pending, solved>> /\ phase = "cg"
        /\ \A u \in Workers \ {t} : pc'[u] = pc[u] /\ path'[u] = path[u]
    BY <2>1, ColumnStepFrame
  <2>3. /\ pc[t] = "create" /\ pc'[t] \in {"register", "coeff"}
        /\ \A i \in DOMAIN columns : columns'[i] = columns[i]
        /\ \A i : i \in DOMAIN columns' <=> i \in DOMAIN columns \/ i = NewIndex
        /\ columns'[NewIndex] = [name |-> varname[t], path |-> path[t], coeffs |-> {}]
    BY <1>4, CreatedColumn
  <2>4. \A u \in Workers \ {t} : InFlight(u)' = InFlight(u) /\ GroupOfTask(u)' = GroupOfTask(u)
    BY <2>2 DEF InFlight, GroupOfTask
  <2>5. InFlight(t) /\ ~InFlight(t)'
    BY <2>3 DEF InFlight
  <2>6. /\ \A i \in DOMAIN columns : GroupOfColumn(i)' = GroupOfColumn(i)
        /\ \A i : i = NewIndex => GroupOfColumn(i)' = GroupOfTask(t)
    BY <2>3 DEF GroupOfColumn, GroupOfTask
  <2> QED
    BY <2>2, <2>3, <2>4, <2>5, <2>6 DEF RoundInv
<1>5. ASSUME NEW t \in Workers, ColumnStep(t), ~CreateVariable(t)
      PROVE  RoundInv'
  <2>1. /\ UNCHANGED <<phase, pending, solved>> /\ phase = "cg"
        /\ \A u \in Workers \ {t} : pc'[u] = pc[u] /\ path'[u] = path[u]
    BY <1>5, ColumnStepFrame
  <2>2. /\ DOMAIN columns' = DOMAIN columns
        /\ \A i \in DOMAIN columns : columns'[i].path = columns[i].path
    BY <1>5, ColumnsKept
  <2>3. InFlight(t)' => InFlight(t) /\ path'[t] = path[t]
    BY <1>5 DEF ColumnStep, NameVariable, CreateVariableFails, AddCoefficient, AddCoefficientFails,
       RegisterPath, CountPath, InFlight, TypeInv, TypeOK
  <2>4. \A u \in Workers : InFlight(u)' => InFlight(u) /\ GroupOfTask(u)' = GroupOfTask(u)
    BY <2>1, <2>3 DEF InFlight, GroupOfTask
  <2>5. \A i \in DOMAIN columns : GroupOfColumn(i)' = GroupOfColumn(i)
    BY <2>2 DEF GroupOfColumn
  <2> QED
    BY <2>1, <2>2, <2>4, <2>5 DEF RoundInv
<1> QED
  BY <1>1, <1>2, <1>3, <1>4, <1>5 DEF AnyStep

-----------------------------------------------------------------------------
(* Lengths and reduced costs *)

(* Under complete weights the length of a path is the cost of its visible  *)
(* terms.                                                                  *)
LEMMA LengthIsVisible ==
  ASSUME WeightsComplete, phase \in {"paths", "cg"}, NEW p \in Paths
  PROVE  Cost(Length(p)) = ReducedCost(Visible(PathTerms(p), dual), dual)
<1>1. \A a \in Range(ArcsOf[p]) : a \in Arcs
  BY DataAssumption DEF Range
<1>2. \A a \in Range(ArcsOf[p]) : weight[a] = Priced({x \in TermsOf(a) : ~IsZero(dual[x[1]])}, dual)
  BY <1>1 DEF WeightsComplete
<1>3. Length(p) = Priced(Visible(PathTerms(p), dual), dual)
  BY <1>2 DEF Length, Visible, PathTerms, Priced
<1> QED
  BY <1>3 DEF ReducedCost

LEMMA HiddenIsSlack ==
  ASSUME NEW p, NEW d
  PROVE  Hidden(p, d) = Epsilon * Slack(PathTerms(p), d)
BY DEF Hidden, Slack, HiddenIn, Absolute

(* The length of a path and its reduced cost differ by what is hidden.     *)
LEMMA LengthNearCost ==
  ASSUME TypeInv, WeightsComplete, phase \in {"paths", "cg"}, NEW p \in Paths
  PROVE  /\ Cost(Length(p)) \in Int
         /\ ReducedCost(PathTerms(p), dual) \in Int
         /\ Hidden(p, dual) \in Int
         /\ Cost(Length(p)) <= ReducedCost(PathTerms(p), dual) + Hidden(p, dual)
         /\ ReducedCost(PathTerms(p), dual) - Hidden(p, dual) <= Cost(Length(p))
<1>1. dual \in DualVectors /\ PathTerms(p) \in SUBSET Terms /\ Visible(PathTerms(p), dual) \in SUBSET Terms
  BY PathTermsType DEF TypeInv, TypeOK, Visible
<1>2. /\ ReducedCost(PathTerms(p), dual) \in Int
      /\ ReducedCost(Visible(PathTerms(p), dual), dual) \in Int
      /\ Slack(PathTerms(p), dual) \in Int
  BY <1>1, ReducedCostInt, SlackInt
<1>3. Hidden(p, dual) = Epsilon * Slack(PathTerms(p), dual) /\ Epsilon \in Nat
  BY HiddenIsSlack, DataAssumption
<1>4. Hidden(p, dual) \in Int
  BY <1>2, <1>3
<1>5. /\ ReducedCost(Visible(PathTerms(p), dual), dual) <= ReducedCost(PathTerms(p), dual) + Hidden(p, dual)
      /\ ReducedCost(PathTerms(p), dual) - Hidden(p, dual) <= ReducedCost(Visible(PathTerms(p), dual), dual)
  BY <1>1, <1>3, VisibleCost
<1> QED
  BY <1>2, <1>4, <1>5, LengthIsVisible

PricesOut(p) == IsNegative(ReducedCost(PathTerms(p), dual) - Hidden(p, dual))

LEMMA NegativePricesOut ==
  ASSUME TypeInv, WeightsComplete, phase \in {"paths", "cg"}, NEW p \in Paths, IsNegative(Cost(Length(p)))
  PROVE  PricesOut(p)
BY LengthNearCost, DataAssumption DEF PricesOut, IsNegative

(* If each network has a shortest path that is not negative, then none of  *)
(* its paths prices out.                                                   *)
LEMMA NoneLeft ==
  ASSUME TypeInv, WeightsComplete, phase \in {"paths", "cg"},
         \A g \in Groups : \E p \in PathsOf(g) : IsShortest(p) /\ ~IsNegative(Cost(Length(p)))
  PROVE  \A q \in Paths : ~IsNegative(ReducedCost(PathTerms(q), dual) + Hidden(q, dual))
<1> SUFFICES ASSUME NEW q \in Paths
             PROVE  ~IsNegative(ReducedCost(PathTerms(q), dual) + Hidden(q, dual))
  OBVIOUS
<1>1. PathGroup[q] \in Groups
  BY DataAssumption
<1>2. PICK p \in PathsOf(PathGroup[q]) : IsShortest(p) /\ ~IsNegative(Cost(Length(p)))
  BY <1>1
<1>3. p \in Paths /\ Cost(Length(p)) <= Cost(Length(q))
  BY <1>2 DEF PathsOf, IsShortest
<1>4. /\ Cost(Length(q)) \in Int /\ Cost(Length(p)) \in Int
      /\ ReducedCost(PathTerms(q), dual) \in Int
      /\ Hidden(q, dual) \in Int
      /\ Cost(Length(q)) <= ReducedCost(PathTerms(q), dual) + Hidden(q, dual)
  BY <1>3, LengthNearCost
<1>5. Epsilon \in Nat
  BY DataAssumption
<1> QED
  BY <1>2, <1>3, <1>4, <1>5 DEF IsNegative

-----------------------------------------------------------------------------
(* What has been shown so far holds with any number of threads, with lost  *)
(* updates and with failing SCIP calls.                                    *)

ColumnsInv == ColumnInv /\ CoefficientInv /\ NameInv /\ StoredInv /\ RoundInv

LEMMA ColumnsInvInit == Init => ColumnsInv
<1> SUFFICES ASSUME Init
             PROVE  ColumnsInv
  OBVIOUS
<1>1. columns = << >> /\ Len(columns) = 0 /\ DOMAIN columns = {}
  BY DEF Init
<1>2. CoefficientInv
  <2>1. Broken = {} /\ scip_errors = 0
    BY <1>1 DEF Broken, Init
  <2> QED
    BY <2>1, FS_EmptySet DEF CoefficientInv
<1>3. ColumnInv
  BY <1>1, BoundAssumption DEF Init, ColumnInv, LocalsOK
<1>4. NameInv /\ StoredInv /\ RoundInv
  BY <1>1 DEF Init, NameInv, StoredInv, RoundInv, InFlight
<1> QED
  BY <1>2, <1>3, <1>4 DEF ColumnsInv

LEMMA ColumnsInvStep ==
  ASSUME TypeInv, TypeInv', ColumnsInv, AnyStep
  PROVE  ColumnsInv'
BY ColumnInvStep, CoefficientInvStep, NameInvStep, StoredInvStep, RoundInvStep DEF ColumnsInv

LEMMA UniqueInvInit == Init => UniqueInv
BY DEF Init, UniqueInv

-----------------------------------------------------------------------------
(* A worker on its way to SCIPaddPricedVar has a path that prices out.     *)

PricedOutInv ==
  /\ \A t \in Workers : InFlight(t) => PricesOut(path[t])
  /\ \A i \in DOMAIN columns : i > solved => PricesOut(columns[i].path)

LEMMA PricedOutInit == Init => PricedOutInv
BY DEF Init, PricedOutInv, InFlight

LEMMA PricedOutStep ==
  ASSUME TypeInv, WeightsComplete, ColumnInv, PricedOutInv, AnyStep
  PROVE  PricedOutInv'
<1>1. CASE QuietStep
  BY <1>1 DEF QuietStep, PricedOutInv, PricesOut, InFlight, InSet
<1>2. CASE StartPricing
  <2>1. /\ UNCHANGED <<columns, pc>>
        /\ solved' = Len(columns)
        /\ phase = "lp"
    BY <1>2 DEF StartPricing, SolveMaster, columnVars, sharedVars
  <2>2. \A t \in Workers : ~InFlight(t)'
    BY <2>1, NobodyInTask DEF InFlight
  <2>3. \A i \in DOMAIN columns' : ~(i > solved')
    <3>1. Len(columns) \in Nat
      BY DEF TypeInv, TypeOK
    <3> QED
      BY <2>1, <3>1, NamesAreNumbers
  <2> QED
    BY <2>1, <2>2, <2>3 DEF PricedOutInv
<1>3. ASSUME NEW t \in Workers, TakeTask(t)
      PROVE  PricedOutInv'
  <2>1. /\ UNCHANGED <<columns, solved, dual>> /\ phase = "cg"
        /\ \A u \in Workers \ {t} : pc'[u] = pc[u] /\ path'[u] = path[u]
    BY <1>3 DEF TakeTask, BeginColumn, TypeInv, TypeOK
  <2>2. \/ pc'[t] = "idle"
        \/ path'[t] \in Paths /\ IsNegative(Cost(Length(path'[t])))
    BY <1>3 DEF TakeTask, BeginColumn, PathsOf, TypeInv, TypeOK
  <2>3. InFlight(t)' => PricesOut(path'[t])
    BY <2>1, <2>2, NegativePricesOut DEF InFlight
  <2>4. \A p : PricesOut(p)' = PricesOut(p)
    BY <2>1 DEF PricesOut
  <2> QED
    BY <2>1, <2>3, <2>4 DEF PricedOutInv, InFlight
<1>4. ASSUME NEW t \in Workers, CreateVariable(t)
      PROVE  PricedOutInv'
  <2>1. ColumnStep(t)
    BY <1>4 DEF ColumnStep
  <2>2. /\ UNCHANGED <<dual, solved>>
        /\ \A u \in Workers \ {t} : pc'[u] = pc[u] /\ path'[u] = path[u]
    BY <2>1, ColumnStepFrame
  <2>3. /\ pc[t] = "create" /\ pc'[t] \in {"register", "coeff"}
        /\ \A i \in DOMAIN columns : columns'[i] = columns[i]
        /\ \A i : i \in DOMAIN columns' <=> i \in DOMAIN columns \/ i = NewIndex
        /\ columns'[NewIndex] = [name |-> varname[t], path |-> path[t], coeffs |-> {}]
    BY <1>4, CreatedColumn
  <2>4. \A p : PricesOut(p)' = PricesOut(p)
    BY <2>2 DEF PricesOut
  <2>5. columns'[NewIndex].path = path[t]
    BY <2>3
  <2> QED
    BY <2>2, <2>3, <2>4, <2>5 DEF PricedOutInv, InFlight
<1>5. ASSUME NEW t \in Workers, ColumnStep(t), ~CreateVariable(t)
      PROVE  PricedOutInv'
  <2>1. /\ UNCHANGED <<dual, solved>>
        /\ \A u \in Workers \ {t} : pc'[u] = pc[u] /\ path'[u] = path[u]
    BY <1>5, ColumnStepFrame
  <2>2. /\ DOMAIN columns' = DOMAIN columns
        /\ \A i \in DOMAIN columns : columns'[i].path = columns[i].path
    BY <1>5, ColumnsKept
  <2>3. InFlight(t)' => InFlight(t) /\ path'[t] = path[t]
    BY <1>5 DEF ColumnStep, NameVariable, CreateVariableFails, AddCoefficient, AddCoefficientFails,
       RegisterPath, CountPath, InFlight, TypeInv, TypeOK
  <2>4. \A p : PricesOut(p)' = PricesOut(p)
    BY <2>1 DEF PricesOut
  <2>5. \A u \in Workers : InFlight(u)' => InFlight(u) /\ path'[u] = path[u]
    BY <2>1, <2>3 DEF InFlight
  <2> QED
    BY <2>1, <2>2, <2>4, <2>5 DEF PricedOutInv
<1> QED
  BY <1>1, <1>2, <1>3, <1>4, <1>5 DEF AnyStep

LEMMA NewColumnsPriceOut ==
  ASSUME TypeInv, RoundInv, PricedOutInv
  PROVE  ColumnsPriceOut
BY DEF RoundInv, PricedOutInv, PricesOut, ColumnsPriceOut, GroupOfColumn

-----------------------------------------------------------------------------
(* Without an SCIP error the columns of an LP are whole, so its duals      *)
(* price the paths of that LP at zero or above.                            *)

LpInv == \A i \in DOMAIN columns : i <= solved => ReducedCost(PathTerms(columns[i].path), dual) >= 0

LEMMA NoneBroken ==
  ASSUME scip_errors = 0, TypeInv, ColumnInv, CoefficientInv, phase = "lp"
  PROVE  \A i \in DOMAIN columns : columns[i].coeffs = PathTerms(columns[i].path)
<1>1. Cardinality(Broken) = 0
  BY BrokenFinite DEF ColumnInv, CoefficientInv, TypeInv, TypeOK
<1>2. Broken = {}
  BY <1>1, BrokenFinite, FS_EmptySet
<1> QED
  BY <1>2, SoundBetweenRounds DEF Broken

LEMMA LpInvStep ==
  ASSUME scip_errors = 0, TypeInv, ColumnInv, CoefficientInv, LpInv, AnyStep
  PROVE  LpInv'
<1>1. CASE QuietStep
  BY <1>1 DEF QuietStep, LpInv
<1>2. CASE StartPricing
  <2>1. /\ phase = "lp"
        /\ columns' = columns
        /\ \A i \in DOMAIN columns : ReducedCost(columns[i].coeffs, dual') >= 0
    BY <1>2 DEF StartPricing, SolveMaster, sharedVars
  <2> QED
    BY <2>1, NoneBroken DEF LpInv
<1>3. ASSUME NEW t \in Workers, TakeTask(t)
      PROVE  LpInv'
  BY <1>3 DEF TakeTask, LpInv
<1>4. ASSUME NEW t \in Workers, CreateVariable(t)
      PROVE  LpInv'
  <2>1. ColumnStep(t)
    BY <1>4 DEF ColumnStep
  <2>2. UNCHANGED <<dual, solved>>
    BY <2>1, ColumnStepFrame
  <2>3. /\ \A i \in DOMAIN columns : columns'[i] = columns[i]
        /\ \A i : i \in DOMAIN columns' <=> i \in DOMAIN columns \/ i = NewIndex
    BY <1>4, CreatedColumn
  <2>4. ~(NewIndex <= solved)
    BY DEF ColumnInv, NewIndex, TypeInv, TypeOK
  <2> QED
    BY <2>2, <2>3, <2>4 DEF LpInv
<1>5. ASSUME NEW t \in Workers, ColumnStep(t), ~CreateVariable(t)
      PROVE  LpInv'
  <2>1. UNCHANGED <<dual, solved>>
    BY <1>5, ColumnStepFrame
  <2>2. /\ DOMAIN columns' = DOMAIN columns
        /\ \A i \in DOMAIN columns : columns'[i].path = columns[i].path
    BY <1>5, ColumnsKept
  <2> QED
    BY <2>1, <2>2 DEF LpInv
<1> QED
  BY <1>1, <1>2, <1>3, <1>4, <1>5 DEF AnyStep

LEMMA LpInvInit == Init => LpInv
BY DEF Init, LpInv

(* Without a tolerance a path that prices out is none of the LP. *)
LEMMA NoDuplicateStep ==
  ASSUME Epsilon = 0, TypeInv, RoundInv, PricedOutInv, LpInv, NoDuplicateColumn, AnyStep
  PROVE  NoDuplicateColumn'
<1>1. CASE \/ QuietStep \/ StartPricing \/ \E t \in Workers : TakeTask(t)
  <2>1. columns' = columns
    BY <1>1 DEF QuietStep, StartPricing, TakeTask, sharedVars
  <2> QED
    BY <2>1 DEF NoDuplicateColumn
<1>2. ASSUME NEW t \in Workers, CreateVariable(t)
      PROVE  NoDuplicateColumn'
  <2>1. /\ pc[t] = "create"
        /\ \A i \in DOMAIN columns : columns'[i] = columns[i]
        /\ \A i : i \in DOMAIN columns' <=> i \in DOMAIN columns \/ i = NewIndex
        /\ columns'[NewIndex] = [name |-> varname[t], path |-> path[t], coeffs |-> {}]
    BY <1>2, CreatedColumn
  <2>2. columns'[NewIndex].path = path[t]
    BY <2>1
  <2>3. ASSUME NEW i \in DOMAIN columns, columns[i].path = path[t]
        PROVE  FALSE
    <3>1. CASE i > solved
      BY <2>1, <2>3, <3>1 DEF RoundInv, InFlight, GroupOfTask, GroupOfColumn
    <3>2. CASE i <= solved
      <4> DEFINE r == ReducedCost(PathTerms(path[t]), dual)
                 s == Slack(PathTerms(path[t]), dual)
      <4>1. r >= 0 /\ IsNegative(r - Epsilon * s)
        BY <2>1, <2>3, <3>2, HiddenIsSlack DEF LpInv, PricedOutInv, PricesOut, InFlight
      <4>2. r \in Int /\ s \in Int
        BY PathTermsType, ReducedCostInt, SlackInt DEF TypeInv, TypeOK
      <4> HIDE DEF r, s
      <4> QED
        BY <4>1, <4>2 DEF IsNegative
    <3> QED
      BY <3>1, <3>2, NamesAreNumbers
  <2> QED
    BY <2>1, <2>2, <2>3 DEF NoDuplicateColumn
<1>3. ASSUME NEW t \in Workers, ColumnStep(t), ~CreateVariable(t)
      PROVE  NoDuplicateColumn'
  BY <1>3, ColumnsKept DEF NoDuplicateColumn
<1> QED
  BY <1>1, <1>2, <1>3 DEF AnyStep

-----------------------------------------------------------------------------
(* The end of SCIPsolve *)

(* Errors are counted, never forgotten. *)
LEMMA ErrorsKept ==
  ASSUME TypeInv, AnyStep, scip_errors' = 0
  PROVE  scip_errors = 0
<1>1. CASE \/ QuietStep \/ StartPricing \/ \E t \in Workers : TakeTask(t)
  BY <1>1 DEF QuietStep, StartPricing, TakeTask, sharedVars
<1>2. ASSUME NEW t \in Workers, ColumnStep(t)
      PROVE  scip_errors = 0
  <2>1. scip_errors' = scip_errors \/ scip_errors' = scip_errors + 1
    BY <1>2 DEF ColumnStep, NameVariable, CreateVariable, CreateVariableFails, AddCoefficient,
       AddCoefficientFails, RegisterPath, CountPath, sharedVars, ScipFails
  <2> QED
    BY <2>1 DEF TypeInv, TypeOK
<1> QED
  BY <1>1, <1>2 DEF AnyStep

NothingLeft == \A p \in Paths : ~IsNegative(ReducedCost(PathTerms(p), dual) + Hidden(p, dual))

LEMMA OptimalityStep ==
  ASSUME TypeInv, OptimalityGuarantee, AnyStep,
         phase = "cg" /\ AllWaited /\ ~(Len(columns) > solved) => NothingLeft
  PROVE  OptimalityGuarantee'
<1>1. CASE QuietStep
  <2>1. dual' = dual
    BY <1>1 DEF QuietStep
  <2>2. CASE phase' = phase
    BY <2>1, <2>2 DEF OptimalityGuarantee
  <2>3. CASE PricingReturns
    BY <2>1, <2>3 DEF PricingReturns, Final, OptimalityGuarantee, NothingLeft
  <2>4. CASE phase' \notin Final
    BY <2>4 DEF OptimalityGuarantee
  <2> QED
    BY <1>1, <2>2, <2>3, <2>4 DEF QuietStep
<1>2. CASE ~QuietStep
  <2>1. phase' \in {"zero", "cg"}
    BY <1>2, ColumnStepFrame DEF AnyStep, StartPricing, TakeTask
  <2> QED
    BY <2>1 DEF OptimalityGuarantee, Final
<1> QED
  BY <1>1, <1>2

-----------------------------------------------------------------------------
(* The steps of the abstract specification.  It has the data and the cost  *)
(* functions of PricingData.                                               *)

LEMMA AbstractSum ==
  ASSUME NEW f
  PROVE  Abstract!SumFunction(f) = SumFunction(f)
BY DEF Abstract!SumFunction, Abstract!SumFunctionOnSet, Abstract!FoldFunctionOnSet, Abstract!MapThenFoldSet,
       SumFunction, SumFunctionOnSet, FoldFunctionOnSet, MapThenFoldSet

LEMMA AbstractTerms ==
  ASSUME NEW p
  PROVE  Abstract!PathTerms(p) = PathTerms(p)
<1>1. Abstract!Terms = Terms
  BY DEF Abstract!Terms, Terms
<1>2. \A a : Abstract!TermsOf(a) = TermsOf(a)
  BY <1>1 DEF TermsOf, Abstract!TermsOf, ArcOf, Abstract!ArcOf
<1>3. Abstract!Range(ArcsOf[p]) = Range(ArcsOf[p])
  BY DEF Abstract!Range, Range
<1> QED
  BY <1>2, <1>3 DEF PathTerms, Abstract!PathTerms

LEMMA AbstractCost ==
  ASSUME NEW p, NEW d
  PROVE  /\ Abstract!ReducedCost(Abstract!PathTerms(p), d) = ReducedCost(PathTerms(p), d)
         /\ Abstract!Hidden(p, d) = Hidden(p, d)
<1>1. \A x : Abstract!Coefficient(x) = Coefficient(x)
  BY DEF Abstract!Coefficient, Coefficient
<1>2. \A S : Abstract!Priced(S, d) = Priced(S, d)
  BY DEF Abstract!Priced, Priced
<1>3. ASSUME NEW S
      PROVE  Abstract!Cost(S) = Cost(S)
  <2>1. [s \in S |-> Abstract!Coefficient(s[1]) * (-s[2])] = [s \in S |-> Coefficient(s[1]) * (-s[2])]
    BY <1>1
  <2> QED
    BY <2>1, AbstractSum DEF Abstract!Cost, Cost
<1>4. Abstract!ReducedCost(Abstract!PathTerms(p), d) = ReducedCost(PathTerms(p), d)
  BY <1>2, <1>3, AbstractTerms DEF Abstract!ReducedCost, ReducedCost
<1>5. \A v : Abstract!IsZero(v) = IsZero(v)
  BY DEF Abstract!IsZero, IsZero
<1>6. Abstract!Hidden(p, d) = Hidden(p, d)
  <2> DEFINE H == {y \in PathTerms(p) : d[y[1]] # 0 /\ IsZero(d[y[1]])}
             A == {y \in Abstract!PathTerms(p) : d[y[1]] # 0 /\ Abstract!IsZero(d[y[1]])}
             f == [x \in H |-> IF Coefficient(x) < 0 THEN -Coefficient(x) ELSE Coefficient(x)]
             a == [x \in A |-> IF Abstract!Coefficient(x) < 0 THEN -Abstract!Coefficient(x) ELSE Abstract!Coefficient(x)]
  <2>1. A = H
    BY <1>5, AbstractTerms
  <2>2. a = f
    BY <1>1, <2>1
  <2>3. Hidden(p, d) = Epsilon * SumFunction(f) /\ Abstract!Hidden(p, d) = Epsilon * Abstract!SumFunction(a)
    BY DEF Hidden, Abstract!Hidden
  <2> HIDE DEF a, f
  <2> QED
    BY <2>2, <2>3, AbstractSum
<1> QED
  BY <1>4, <1>6

Status == IF phase \in {"lp"} \cup Final THEN phase ELSE "pricing"

Base == {columns[i].path : i \in 1 .. solved}

Added == {columns[i].path : i \in {j \in DOMAIN columns : j > solved}}

LEMMA AbstractInit == Init => Abstract!Init
<1> SUFFICES ASSUME Init
             PROVE  Abstract!Init
  OBVIOUS
<1>1. /\ phase = "lp" /\ dual \in DualVectors
      /\ columns = << >> /\ solved = 0
  BY DEF Init
<1>2. {columns[i].path : i \in 1 .. solved} = {}
  BY <1>1
<1>3. {columns[i].path : i \in {j \in DOMAIN columns : j > solved}} = {}
  BY <1>1
<1> QED
  BY <1>1, <1>2, <1>3 DEF Abstract!Init

(* A column that is not new is one of the LP. *)
LEMMA BaseAndAdded ==
  ASSUME TypeInv, ColumnInv
  PROVE  /\ \A p \in Base : \E i \in DOMAIN columns : i <= solved /\ columns[i].path = p
         /\ \A i \in DOMAIN columns : columns[i].path \in Base \cup Added
         /\ \A i \in DOMAIN columns : i > solved => columns[i].path \in Added
         /\ solved = Len(columns) => Base = {columns[i].path : i \in DOMAIN columns} /\ Added = {}
<1>1. columns \in Seq(Column) /\ solved \in Nat
  BY DEF TypeInv, TypeOK
<1>2. Len(columns) \in Nat /\ DOMAIN columns = 1 .. Len(columns)
  BY <1>1
<1>3. solved <= Len(columns)
  BY DEF ColumnInv
<1>4. \A i : i \in 1 .. solved <=> i \in DOMAIN columns /\ i <= solved
  BY <1>1, <1>2, <1>3
<1>5. \A i \in DOMAIN columns : i <= solved \/ i > solved
  BY <1>1, <1>2
<1>6. ASSUME solved = Len(columns)
      PROVE  1 .. solved = DOMAIN columns /\ \A i \in DOMAIN columns : ~(i > solved)
  BY <1>2, <1>6
<1>7. /\ \A p \in Base : \E i \in DOMAIN columns : i <= solved /\ columns[i].path = p
      /\ \A i \in DOMAIN columns : columns[i].path \in Base \cup Added
      /\ \A i \in DOMAIN columns : i > solved => columns[i].path \in Added
  BY <1>4, <1>5 DEF Base, Added
<1>8. ASSUME solved = Len(columns)
      PROVE  Base = {columns[i].path : i \in DOMAIN columns} /\ Added = {}
  BY <1>6, <1>8 DEF Base, Added
<1> QED
  BY <1>7, <1>8

LEMMA AbstractSolve ==
  ASSUME scip_errors = 0, TypeInv, ColumnsInv, TypeInv', StartPricing
  PROVE  Abstract!SolveMaster
<1>1. PICK d \in DualVectors :
        /\ \A i \in DOMAIN columns : ReducedCost(columns[i].coeffs, d) >= 0
        /\ dual' = d
        /\ solved' = Len(columns)
  BY DEF StartPricing, SolveMaster
<1>2. phase = "lp" /\ phase' = "zero" /\ columns' = columns
  BY DEF StartPricing, sharedVars
<1>3. \A p \in Base \cup Added : ReducedCost(PathTerms(p), d) >= 0
  <2>1. \A p \in Base \cup Added : \E i \in DOMAIN columns : columns[i].path = p
    BY BaseAndAdded DEF ColumnsInv, Added
  <2> QED
    BY <1>1, <1>2, <2>1, NoneBroken DEF ColumnsInv
<1>4. /\ Base' = {columns[i].path : i \in DOMAIN columns}
      /\ Added' = {}
  <2>1. ColumnInv'
    BY ColumnInvStep DEF AnyStep, ColumnsInv
  <2>2. (solved = Len(columns) => Base = {columns[i].path : i \in DOMAIN columns} /\ Added = {})'
    BY <2>1, BaseAndAdded, PTL
  <2> QED
    BY <1>1, <1>2, <2>2
<1>5. Base \cup Added = {columns[i].path : i \in DOMAIN columns}
  BY BaseAndAdded DEF ColumnsInv, Added
<1>6. Base' = Base \cup Added
  BY <1>4, <1>5
<1>7. Status = "lp" /\ Status' = "pricing"
  BY <1>2 DEF Status, Final
<1>8. \A p \in Base \cup Added : Abstract!ReducedCost(Abstract!PathTerms(p), d) >= 0
  BY <1>3, AbstractCost
<1>9. Added' = {}
  BY <1>4
<1> QED
  BY <1>1, <1>6, <1>7, <1>8, <1>9 DEF Abstract!SolveMaster, Status, Base, Added

LEMMA AbstractAdd ==
  ASSUME TypeInv, ColumnsInv, PricedOutInv, NEW t \in Workers, CreateVariable(t)
  PROVE  Abstract!AddColumn
<1>1. ColumnStep(t)
  BY DEF ColumnStep
<1>2. phase = "cg" /\ UNCHANGED <<phase, dual, solved>>
  BY <1>1, ColumnStepFrame
<1>3. /\ pc[t] = "create"
      /\ \A i \in DOMAIN columns : columns'[i] = columns[i]
      /\ \A i : i \in DOMAIN columns' <=> i \in DOMAIN columns \/ i = NewIndex
      /\ columns'[NewIndex] = [name |-> varname[t], path |-> path[t], coeffs |-> {}]
  BY CreatedColumn
<1>4. solved < NewIndex
  <2>1. solved <= Len(columns) /\ solved \in Nat
    BY DEF ColumnsInv, ColumnInv, TypeInv, TypeOK
  <2> QED
    BY <2>1, CreatedColumn
<1>5. columns'[NewIndex].path = path[t]
  BY <1>3
<1>6. Added' = Added \cup {path[t]}
  BY <1>2, <1>3, <1>4, <1>5 DEF Added
<1>7. Base' = Base
  <2>1. 1 .. solved \subseteq DOMAIN columns
    <3>1. columns \in Seq(Column) /\ solved \in Nat /\ solved <= Len(columns)
      BY DEF TypeInv, TypeOK, ColumnsInv, ColumnInv
    <3> QED
      BY <3>1
  <2> QED
    BY <1>2, <1>3, <2>1 DEF Base
<1>8. path[t] \in Paths \ Added
  <2>1. path[t] \in Paths
    BY <1>3 DEF TypeInv, TaskOK, InColumn
  <2> QED
    BY <1>3, <2>1 DEF Added, ColumnsInv, RoundInv, InFlight, GroupOfTask, GroupOfColumn
<1>9. IsNegative(ReducedCost(PathTerms(path[t]), dual) - Hidden(path[t], dual))
  BY <1>3 DEF PricedOutInv, PricesOut, InFlight
<1>10. Status = "pricing" /\ Status' = Status
  BY <1>2 DEF Status, Final
<1> QED
  BY <1>2, <1>6, <1>7, <1>8, <1>9, <1>10, AbstractCost
     DEF Abstract!AddColumn, Abstract!IsNegative, IsNegative, Status, Base, Added

LEMMA AbstractReturn ==
  ASSUME TypeInv, ColumnsInv, PricingReturns, OptimalityGuarantee'
  PROVE  Abstract!NewColumns \/ Abstract!NoColumn
<1>1. /\ phase = "cg" /\ UNCHANGED <<columns, solved, dual>>
      /\ phase' = IF Len(columns) > solved THEN "lp" ELSE IF infeasible THEN "infeasible" ELSE "optimal"
  BY DEF PricingReturns, scipVars, sharedVars
<1>2. UNCHANGED <<Base, Added>>
  BY <1>1 DEF Base, Added
<1>3. Status = "pricing"
  BY <1>1 DEF Status, Final
<1>4. /\ solved \in Nat /\ Len(columns) \in Nat /\ DOMAIN columns = 1 .. Len(columns)
      /\ solved <= Len(columns)
  <2>1. columns \in Seq(Column) /\ solved \in Nat /\ solved <= Len(columns)
    BY DEF TypeInv, TypeOK, ColumnsInv, ColumnInv
  <2> QED
    BY <2>1
<1>5. CASE Len(columns) > solved
  <2>1. Len(columns) \in DOMAIN columns
    BY <1>4, <1>5
  <2>2. Added # {}
    BY <1>5, <2>1 DEF Added
  <2>3. Status' = "lp"
    BY <1>1, <1>5 DEF Status
  <2> QED
    BY <1>1, <1>2, <1>3, <2>2, <2>3 DEF Abstract!NewColumns, Status, Base, Added
<1>6. CASE ~(Len(columns) > solved)
  <2>1. Added = {}
    BY <1>4, <1>6 DEF Added
  <2>2. phase' \in Final /\ Status' = phase'
    BY <1>1, <1>6 DEF Status, Final
  <2>3. \A p \in Paths : ~IsNegative(ReducedCost(PathTerms(p), dual) + Hidden(p, dual))
    BY <1>1, <2>2 DEF OptimalityGuarantee
  <2> QED
    BY <1>1, <1>2, <1>3, <2>1, <2>2, <2>3, AbstractCost
       DEF Abstract!NoColumn, Abstract!Final, Final, Abstract!IsNegative, IsNegative, Status, Base, Added
<1> QED
  BY <1>5, <1>6

(* Every step of a pricer is a step of column generation or none. *)
LEMMA AbstractStep ==
  ASSUME scip_errors = 0, TypeInv, TypeInv', ColumnsInv, PricedOutInv, OptimalityGuarantee', AnyStep
  PROVE  [Abstract!Next]_(Abstract!absVars)
<1>1. CASE StartPricing
  BY <1>1, AbstractSolve DEF Abstract!Next
<1>2. ASSUME NEW t \in Workers, CreateVariable(t)
      PROVE  Abstract!Next
  BY <1>2, AbstractAdd DEF Abstract!Next
<1>3. CASE PricingReturns
  BY <1>3, AbstractReturn DEF Abstract!Next
<1>4. CASE QuietStep /\ ~PricingReturns
  <2>1. UNCHANGED <<dual, solved, columns>>
    BY <1>4 DEF QuietStep
  <2>2. phase' = phase \/ (phase \notin {"lp"} \cup Final /\ phase' \notin {"lp"} \cup Final)
    BY <1>4 DEF QuietStep
  <2> QED
    BY <2>1, <2>2 DEF Abstract!absVars
<1>5. ASSUME NEW t \in Workers, TakeTask(t)
      PROVE  UNCHANGED Abstract!absVars
  BY <1>5 DEF TakeTask, Abstract!absVars
<1>6. ASSUME NEW t \in Workers, ColumnStep(t), ~CreateVariable(t)
      PROVE  UNCHANGED Abstract!absVars
  <2>1. UNCHANGED <<phase, dual, solved>>
    BY <1>6, ColumnStepFrame
  <2>2. /\ DOMAIN columns' = DOMAIN columns
        /\ \A i \in DOMAIN columns : columns'[i].path = columns[i].path
    BY <1>6, ColumnsKept
  <2>3. 1 .. solved \subseteq DOMAIN columns
    <3>1. columns \in Seq(Column) /\ solved \in Nat /\ solved <= Len(columns)
      BY DEF TypeInv, TypeOK, ColumnsInv, ColumnInv
    <3> QED
      BY <3>1
  <2>4. UNCHANGED <<Base, Added>>
    BY <2>1, <2>2, <2>3 DEF Base, Added
  <2> QED
    BY <2>1, <2>4 DEF Abstract!absVars, Base, Added
<1> QED
  BY <1>1, <1>2, <1>3, <1>4, <1>5, <1>6 DEF AnyStep

-----------------------------------------------------------------------------
(* Progress: what the steps of a round bring nearer.                       *)

LEMMA PendingFinite ==
  ASSUME TypeInv
  PROVE  IsFiniteSet(pending) /\ Cardinality(pending) \in Nat
<1>1. pending \in SUBSET Groups \/ pending \in SUBSET Constraints
  BY DEF TypeInv, TypeOK
<1>2. IsFiniteSet(pending)
  BY <1>1, FS_Subset, DataAssumption
<1> QED
  BY <1>2, FS_CardinalityType

LEMMA TermSetFinite ==
  ASSUME NEW S \in SUBSET Terms
  PROVE  IsFiniteSet(S) /\ Cardinality(S) \in Nat
BY TermsFinite, FS_Subset, FS_CardinalityType

(* The cases of StepsLeft and PhasesLeft. *)
LEMMA StepsLeftCases ==
  ASSUME NEW t
  PROVE  /\ pc[t] = "idle" => StepsLeft(t) = 0
         /\ pc[t] = "load" => StepsLeft(t) = 2 * (Len(Entries[job[t]]) - pos[t]) + 2
         /\ pc[t] = "store" => StepsLeft(t) = 2 * (Len(Entries[job[t]]) - pos[t]) + 1
         /\ pc[t] = "name" => StepsLeft(t) = 4 + Cardinality(PathTerms(path[t]))
         /\ pc[t] = "create" => StepsLeft(t) = 3 + Cardinality(PathTerms(path[t]))
         /\ pc[t] = "coeff" => StepsLeft(t) = 2 + Cardinality(left[t])
         /\ pc[t] = "register" => StepsLeft(t) = 2
         /\ pc[t] = "count" => StepsLeft(t) = 1
BY Zenon DEF StepsLeft

LEMMA PhaseCases ==
  /\ phase = "lp" => PhasesLeft = 5
  /\ phase = "zero" => PhasesLeft = 4
  /\ phase = "set" => PhasesLeft = 3
  /\ phase = "paths" => PhasesLeft = 2
  /\ phase = "cg" => PhasesLeft = 1
  /\ phase \in Final => PhasesLeft = 0
BY Zenon DEF PhasesLeft, Final

StepsCounted == \A t \in Workers : StepsLeft(t) \in Nat

LEMMA StepsLeftType == TypeInv => StepsCounted
<1> SUFFICES ASSUME TypeInv, NEW t \in Workers
             PROVE  StepsLeft(t) \in Nat
  BY DEF StepsCounted
<1>1. pc[t] \in {"idle", "load", "store", "name", "create", "coeff", "register", "count"}
  BY DEF TypeInv, TypeOK
<1>2. Cardinality(PathTerms(path[t])) \in Nat /\ Cardinality(left[t]) \in Nat
  BY TermSetFinite, PathTermsType DEF TypeInv, TypeOK
<1>3. pc[t] \in InSet => Len(Entries[job[t]]) \in Nat /\ pos[t] \in 1 .. Len(Entries[job[t]])
  <2>1. job[t] \in Constraints => Entries[job[t]] \in Seq([arc : Arcs, coeff : Int])
    BY DataAssumption
  <2>2. job[t] \in Constraints => Len(Entries[job[t]]) \in Nat
    BY <2>1
  <2> QED
    BY <2>2 DEF TypeInv, TypeOK, TaskOK
<1>4. \A n \in Nat : 4 + n \in Nat /\ 3 + n \in Nat /\ 2 + n \in Nat
  OBVIOUS
<1>5. \A n \in Nat : \A i \in 1 .. n : 2 * (n - i) + 2 \in Nat /\ 2 * (n - i) + 1 \in Nat
  OBVIOUS
<1>6. CASE pc[t] \in InSet
  <2>1. pc[t] = "load" \/ pc[t] = "store"
    BY <1>6 DEF InSet
  <2> QED
    BY <1>3, <1>5, <1>6, <2>1, StepsLeftCases, Zenon
<1>7. CASE pc[t] \notin InSet
  BY <1>1, <1>2, <1>4, <1>7, StepsLeftCases DEF InSet
<1> QED
  BY <1>6, <1>7

(* A task is started, or skipped. *)
LEMMA TaskProgress ==
  ASSUME TypeInv, phase # "lp", UNCHANGED <<phase, solved>>,
         NEW g \in pending, pending' = pending \ {g}
  PROVE  Progress
<1>1. Cardinality(pending') < Cardinality(pending)
  <2>1. Cardinality(pending') = Cardinality(pending) - 1
    BY PendingFinite, FS_RemoveElement
  <2> QED
    BY <2>1, PendingFinite
<1>2. RoundColumns' = RoundColumns /\ PhasesLeft' = PhasesLeft
  BY DEF RoundColumns, PhasesLeft
<1> QED
  BY <1>1, <1>2 DEF Progress

(* A worker does a step of its task. *)
LEMMA EffortProgress ==
  ASSUME TypeInv, TypeInv', phase # "lp", UNCHANGED <<phase, solved, pending>>,
         NEW t \in Workers, StepsLeft(t)' < StepsLeft(t),
         \A u \in Workers : u # t => StepsLeft(u)' = StepsLeft(u)
  PROVE  Progress
<1> DEFINE f == [u \in Workers |-> StepsLeft(u)']
           g == [u \in Workers |-> StepsLeft(u)]
<1>1. \A u \in Workers : StepsLeft(u) \in Int /\ StepsLeft(u)' \in Int
  <2>1. TypeInv' => StepsCounted'
    BY StepsLeftType, PTL
  <2> QED
    BY <2>1, StepsLeftType DEF StepsCounted
<1>2. SumFunction(f) < SumFunction(g)
  <2>1. f \in [Workers -> Int] /\ g \in [Workers -> Int]
    BY <1>1
  <2>2. f[t] < g[t] /\ \A u \in Workers : u # t => f[u] = g[u]
    OBVIOUS
  <2> HIDE DEF f, g
  <2> QED
    BY <2>1, <2>2, SumLess, BoundAssumption
<1>3. Effort' < Effort
  BY <1>2 DEF Effort
<1>4. RoundColumns' = RoundColumns /\ PhasesLeft' = PhasesLeft
  BY DEF RoundColumns, PhasesLeft
<1> QED
  BY <1>3, <1>4 DEF Progress

(* The four numbers that Progress compares are natural ones. *)
Measured == RoundColumns \in Nat /\ PhasesLeft \in Nat /\ Cardinality(pending) \in Nat /\ Effort \in Nat

LEMMA MeasuresCounted == TypeInv => Measured
<1> SUFFICES ASSUME TypeInv
             PROVE  Measured
  OBVIOUS
<1>1. RoundColumns \in Nat
  BY DEF RoundColumns, TypeInv, TypeOK
<1>2. PhasesLeft \in Nat
  <2>1. phase \in {"lp", "zero", "set", "paths", "cg"} \cup Final
    BY DEF TypeInv, TypeOK
  <2> QED
    BY <2>1, PhaseCases
<1>3. Effort \in Nat
  <2> DEFINE f == [t \in Workers |-> StepsLeft(t)]
  <2>1. f \in [Workers -> Nat]
    BY StepsLeftType DEF StepsCounted
  <2> HIDE DEF f
  <2>2. SumFunction(f) \in Nat
    BY <2>1, SumNat, BoundAssumption
  <2> QED
    BY <2>2 DEF Effort, f
<1> QED
  BY <1>1, <1>2, <1>3, PendingFinite DEF Measured

(* The next phase of the round, or the next round. *)
LEMMA PhaseProgress ==
  ASSUME phase' # phase,
         \/ phase = "lp" /\ phase' = "zero" /\ solved' = Len(columns)
         \/ phase = "zero" /\ phase' = "set" /\ solved' = solved
         \/ phase \in {"set", "paths"} /\ phase' = "cg" /\ solved' = solved
         \/ phase = "set" /\ phase' = "paths" /\ solved' = solved
         \/ phase = "cg" /\ phase' \in Final /\ solved' = solved
  PROVE  Progress
<1>1. PhaseCases'
  BY PhaseCases, PTL
<1> QED
  BY <1>1, PhaseCases DEF Progress, RoundColumns, Final

LEMMA MainStepProgress ==
  ASSUME TypeInv, MainStep
  PROVE  Progress
<1>0. Len(columns) \in Nat /\ solved \in Nat
  BY DEF TypeInv, TypeOK
<1>1. CASE StartPricing
  BY <1>1, PhaseProgress DEF StartPricing, SolveMaster
<1>2. CASE SetArcWeights
  BY <1>2, PhaseProgress DEF SetArcWeights, scipVars
<1>3. CASE PricingReturns /\ Len(columns) > solved
  BY <1>0, <1>3 DEF PricingReturns, scipVars, sharedVars, Progress, RoundColumns
<1>4. CASE PricingReturns /\ ~(Len(columns) > solved)
  BY <1>4, PhaseProgress DEF PricingReturns, scipVars, Final
<1> QED
  BY <1>1, <1>2, <1>3, <1>4 DEF MainStep, ScipRedcost, ScipFarkas

LEMMA StartShortestPathsProgress ==
  ASSUME NEW next \in {"paths", "cg"}, StartShortestPaths(next)
  PROVE  Progress
BY PhaseProgress DEF StartShortestPaths, scipVars

(* The other workers are where they were. *)
LEMMA StepsLeftKept ==
  ASSUME NEW u \in Workers, pc'[u] = pc[u], job'[u] = job[u], pos'[u] = pos[u], path'[u] = path[u], left'[u] = left[u]
  PROVE  StepsLeft(u)' = StepsLeft(u)
BY Zenon DEF StepsLeft

(* A worker that does a step of its task brings it nearer to its end.      *)
LEMMA SetStepProgress ==
  ASSUME TypeInv, TypeInv', NEW t \in Workers, LoadWeight(t) \/ StoreWeight(t)
  PROVE  Progress
<1> DEFINE L == Len(Entries[job[t]])
<1>1. phase = "set" /\ pc[t] \in InSet /\ UNCHANGED <<phase, solved, pending, path, left>>
  BY DEF LoadWeight, StoreWeight, InSet, TypeInv, TaskOK, scipVars, columnVars
<1>2. L \in Nat /\ pos[t] \in Nat /\ pos[t] <= L
  <2>1. job[t] \in Constraints /\ pos[t] \in 1 .. L
    BY <1>1 DEF TypeInv, TaskOK
  <2>2. Entries[job[t]] \in Seq([arc : Arcs, coeff : Int])
    BY <2>1, DataAssumption
  <2>3. L \in Nat
    BY <2>2
  <2> QED
    BY <2>1, <2>3
<1>3. \A u \in Workers : u # t => StepsLeft(u)' = StepsLeft(u)
  <2> SUFFICES ASSUME NEW u \in Workers, u # t
               PROVE  StepsLeft(u)' = StepsLeft(u)
    OBVIOUS
  <2>1. pc'[u] = pc[u] /\ job'[u] = job[u] /\ pos'[u] = pos[u]
    <3>1. /\ pc' = pc \/ \E x : pc' = [pc EXCEPT ![t] = x]
          /\ job' = job \/ \E x : job' = [job EXCEPT ![t] = x]
          /\ pos' = pos \/ \E x : pos' = [pos EXCEPT ![t] = x]
      BY DEF LoadWeight, StoreWeight
    <3> QED
      BY <3>1 DEF TypeInv, TypeOK
  <2> QED
    BY <1>1, <2>1, StepsLeftKept
<1>4. StepsLeft(t)' < StepsLeft(t)
  <2>1. CASE LoadWeight(t)
    <3>1. pc[t] = "load" /\ pc'[t] = "store" /\ job' = job /\ pos' = pos
      BY <2>1 DEF LoadWeight, TypeInv, TypeOK
    <3>2. StepsLeft(t) = 2 * (L - pos[t]) + 2
      BY <3>1, StepsLeftCases
    <3>3. StepsLeft(t)' = 2 * (L - pos[t]) + 1
      BY <3>1, Zenon DEF StepsLeft
    <3> HIDE DEF L
    <3> QED
      BY <1>2, <3>2, <3>3
  <2>2. CASE StoreWeight(t) /\ pos[t] < L
    <3>1. pc[t] = "store" /\ pc'[t] = "load" /\ job' = job /\ pos'[t] = pos[t] + 1
      BY <2>2 DEF StoreWeight, TypeInv, TypeOK
    <3>2. StepsLeft(t) = 2 * (L - pos[t]) + 1
      BY <3>1, StepsLeftCases
    <3>3. StepsLeft(t)' = 2 * (L - (pos[t] + 1)) + 2
      BY <3>1, Zenon DEF StepsLeft
    <3> HIDE DEF L
    <3> QED
      BY <1>2, <3>2, <3>3
  <2>3. CASE StoreWeight(t) /\ ~(pos[t] < L)
    <3>1. pc[t] = "store" /\ pc'[t] = "idle"
      BY <2>3 DEF StoreWeight, TypeInv, TypeOK
    <3>2. StepsLeft(t) = 2 * (L - pos[t]) + 1
      BY <3>1, StepsLeftCases
    <3>3. StepsLeft(t)' = 0
      BY <3>1, Zenon DEF StepsLeft
    <3> HIDE DEF L
    <3> QED
      BY <1>2, <3>2, <3>3
  <2> QED
    BY <2>1, <2>2, <2>3
<1> QED
  BY <1>1, <1>3, <1>4, EffortProgress

(* So does one in generate_columns, whether its SCIP call succeeds or not. *)
LEMMA ColumnStepProgress ==
  ASSUME TypeInv, TypeInv', NEW t \in Workers, ColumnStep(t)
  PROVE  Progress
<1>1. phase = "cg" /\ UNCHANGED <<phase, pending, solved>>
  BY ColumnStepFrame
<1>2. job' = job /\ pos' = pos
  BY DEF ColumnStep, NameVariable, CreateVariable, CreateVariableFails, AddCoefficient, AddCoefficientFails,
         RegisterPath, CountPath, weightVars
<1>3. \A u \in Workers : u # t => StepsLeft(u)' = StepsLeft(u)
  <2> SUFFICES ASSUME NEW u \in Workers, u # t
               PROVE  StepsLeft(u)' = StepsLeft(u)
    OBVIOUS
  <2>1. pc'[u] = pc[u] /\ path'[u] = path[u] /\ left'[u] = left[u]
    BY ColumnStepFrame
  <2> QED
    BY <1>2, <2>1, StepsLeftKept
<1> DEFINE P == Cardinality(PathTerms(path[t]))
           C == Cardinality(left[t])
<1>4. P \in Nat /\ C \in Nat
  BY TermSetFinite, PathTermsType DEF TypeInv, TypeOK
<1>5. StepsLeft(t)' < StepsLeft(t)
  <2> HIDE DEF P
  <2>1. CASE NameVariable(t)
    <3>1. pc[t] = "name" /\ pc'[t] = "create" /\ path' = path
      BY <2>1 DEF NameVariable, TypeInv, TypeOK
    <3>2. StepsLeft(t) = 4 + P
      BY <3>1, StepsLeftCases DEF P
    <3>3. StepsLeft(t)' = 3 + P
      BY <3>1, Zenon DEF StepsLeft, P
    <3> QED
      BY <1>4, <3>2, <3>3
  <2>2. CASE CreateVariable(t)
    <3>1. pc[t] = "create" /\ left'[t] = PathTerms(path[t]) /\ pc'[t] \in {"register", "coeff"}
      BY <2>2, CreatedColumn
    <3>2. StepsLeft(t) = 3 + P
      BY <3>1, StepsLeftCases DEF P
    <3>3. pc'[t] = "coeff" => StepsLeft(t)' = 2 + P
      BY <3>1, Zenon DEF StepsLeft, P
    <3>4. pc'[t] = "register" => StepsLeft(t)' = 2
      BY Zenon DEF StepsLeft
    <3> QED
      BY <1>4, <3>1, <3>2, <3>3, <3>4
  <2>3. CASE CreateVariableFails(t)
    <3>1. pc[t] = "create" /\ pc'[t] = "count"
      BY <2>3 DEF CreateVariableFails, TypeInv, TypeOK
    <3>2. StepsLeft(t) = 3 + P
      BY <3>1, StepsLeftCases DEF P
    <3>3. StepsLeft(t)' = 1
      BY <3>1, Zenon DEF StepsLeft
    <3> QED
      BY <1>4, <3>2, <3>3
  <2>4. CASE AddCoefficient(t) \/ AddCoefficientFails(t)
    <3>1. PICK x \in left[t] : left'[t] \subseteq left[t] \ {x}
      BY <2>4 DEF AddCoefficient, AddCoefficientFails, TypeInv, TypeOK, TermsOf
    <3>2. pc[t] = "coeff" /\ pc'[t] \in {"register", "coeff"}
      BY <2>4 DEF AddCoefficient, AddCoefficientFails, TypeInv, TypeOK
    <3>3. IsFiniteSet(left[t]) /\ IsFiniteSet(left[t] \ {x}) /\ Cardinality(left[t] \ {x}) = C - 1
      <4>1. left[t] \in SUBSET Terms
        BY DEF TypeInv, TypeOK
      <4>2. IsFiniteSet(left[t])
        BY <4>1, TermSetFinite
      <4> QED
        BY <4>2, FS_RemoveElement
    <3>4. Cardinality(left'[t]) \in Nat /\ Cardinality(left'[t]) <= C - 1
      <4>1. IsFiniteSet(left'[t]) /\ Cardinality(left'[t]) <= Cardinality(left[t] \ {x})
        BY <3>1, <3>3, FS_Subset
      <4> QED
        BY <3>3, <4>1, FS_CardinalityType
    <3>5. StepsLeft(t) = 2 + C
      BY <3>2, StepsLeftCases
    <3>6. pc'[t] = "coeff" => StepsLeft(t)' = 2 + Cardinality(left'[t])
      BY Zenon DEF StepsLeft
    <3>7. pc'[t] = "register" => StepsLeft(t)' = 2
      BY Zenon DEF StepsLeft
    <3> HIDE DEF C
    <3> QED
      BY <1>4, <3>2, <3>4, <3>5, <3>6, <3>7
  <2>5. CASE RegisterPath(t)
    <3>1. pc[t] = "register" /\ pc'[t] = "count"
      BY <2>5 DEF RegisterPath, TypeInv, TypeOK
    <3>2. StepsLeft(t) = 2
      BY <3>1, StepsLeftCases
    <3>3. StepsLeft(t)' = 1
      BY <3>1, Zenon DEF StepsLeft
    <3> QED
      BY <3>2, <3>3
  <2>6. CASE CountPath(t)
    <3>1. pc[t] = "count" /\ pc'[t] = "idle"
      BY <2>6 DEF CountPath, TypeInv, TypeOK
    <3>2. StepsLeft(t) = 1
      BY <3>1, StepsLeftCases
    <3>3. StepsLeft(t)' = 0
      BY <3>1, Zenon DEF StepsLeft
    <3> QED
      BY <3>2, <3>3
  <2> QED
    BY <2>1, <2>2, <2>3, <2>4, <2>5, <2>6 DEF ColumnStep
<1> QED
  BY <1>1, <1>3, <1>5, EffortProgress

LEMMA WorkerStepProgress ==
  ASSUME TypeInv, TypeInv', NEW t \in Workers, WorkerStep(t)
  PROVE  Progress
<1>1. CASE ResetEdgeWeights(t)
  <2>1. PICK g \in pending : pending' = pending \ {g}
    BY <1>1 DEF ResetEdgeWeights
  <2>2. phase = "zero" /\ UNCHANGED <<phase, solved>>
    BY <1>1 DEF ResetEdgeWeights, scipVars
  <2> QED
    BY <2>1, <2>2, TaskProgress
<1>2. CASE StartConstraint(t)
  <2>1. PICK c \in pending : pending' = pending \ {c}
    BY <1>2 DEF StartConstraint
  <2>2. phase = "set" /\ UNCHANGED <<phase, solved>>
    BY <1>2 DEF StartConstraint, scipVars
  <2> QED
    BY <2>1, <2>2, TaskProgress
<1>3. CASE LoadWeight(t) \/ StoreWeight(t)
  BY <1>3, SetStepProgress
<1>4. CASE ColumnStep(t)
  BY <1>4, ColumnStepProgress
<1> QED
  BY <1>1, <1>2, <1>3, <1>4 DEF WorkerStep, ColumnStep

-----------------------------------------------------------------------------
(* Who waits for whom.  Only an error leaves scip_mutex locked. *)

MutexInv == scip_mutex # NoWorker => scip_errors > 0

LEMMA MutexInvInit == Init => MutexInv
BY DEF Init, MutexInv

LEMMA MainStepMutexInv ==
  ASSUME MutexInv, MainStep
  PROVE  MutexInv'
BY DEF MutexInv, MainStep, ScipRedcost, ScipFarkas, StartPricing, SetArcWeights, PricingReturns, sharedVars

LEMMA StartShortestPathsMutexInv ==
  ASSUME NEW next, StartShortestPaths(next)
  PROVE  MutexInv'
BY DEF MutexInv, StartShortestPaths

LEMMA WorkerStepMutexInv ==
  ASSUME TypeInv, MutexInv, NEW t \in Workers, WorkerStep(t)
  PROVE  MutexInv'
<1>1. CASE CreateVariableFails(t) \/ AddCoefficientFails(t)
  <2>1. scip_errors' = scip_errors + 1 /\ scip_errors \in Nat
    BY <1>1 DEF CreateVariableFails, AddCoefficientFails, ScipFails, TypeInv, TypeOK
  <2> QED
    BY <2>1 DEF MutexInv
<1>2. CASE RegisterPath(t)
  <2>1. scip_mutex' = scip_mutex /\ scip_errors' \in {scip_errors, scip_errors + 1} /\ scip_errors \in Nat
    BY <1>2 DEF RegisterPath, ScipFails, TypeInv, TypeOK
  <2> QED
    BY <2>1 DEF MutexInv
<1>3. CASE ~(CreateVariableFails(t) \/ AddCoefficientFails(t) \/ RegisterPath(t))
  <2>1. UNCHANGED <<scip_mutex, scip_errors>>
    BY <1>3 DEF WorkerStep, ResetEdgeWeights, StartConstraint, LoadWeight, StoreWeight, NameVariable,
       CreateVariable, AddCoefficient, CountPath, sharedVars
  <2> QED
    BY <2>1 DEF MutexInv
<1> QED
  BY <1>1, <1>2, <1>3

(* If not all tasks are waited for, a worker has not done with its own or  *)
(* there is one to start; it can go on unless it wants the mutex.          *)
LEMMA HangNeedsError ==
  ASSUME TypeInv, MutexInv
  PROVE  HangsOnlyAfterError
<1> SUFFICES ASSUME ~SomeoneGoesOn
             PROVE  /\ phase = "cg"
                    /\ scip_errors > 0
                    /\ scip_mutex # NoWorker
                    /\ \E t \in Workers : pc[t] \in {"create", "coeff"}
  BY DEF HangsOnlyAfterError
<1>1. \A t \in Workers : ~CanStep(t)
  BY DEF SomeoneGoesOn
<1>2. PICK t \in Workers : pc[t] # "idle"
  <2>1. ASSUME \A t \in Workers : pc[t] = "idle"
        PROVE  AllWaited
    BY <1>1, <2>1, BoundAssumption DEF CanStep, AllWaited
  <2> QED
    BY <2>1 DEF SomeoneGoesOn
<1>3. pc[t] \in {"create", "coeff"} /\ scip_mutex # NoWorker
  BY <1>1, <1>2 DEF CanStep, TypeInv, TypeOK
<1>4. phase = "cg"
  BY <1>3 DEF TypeInv, TaskOK, InColumn
<1> QED
  BY <1>3, <1>4 DEF MutexInv

-----------------------------------------------------------------------------
(* Without duplicates there are no more columns than paths. *)

LEMMA ColumnsBounded ==
  ASSUME TypeInv, NoDuplicateColumn, IsFiniteSet(Paths)
  PROVE  Len(columns) <= Cardinality(Paths)
<1> DEFINE D == 1 .. Len(columns)
           f == [i \in D |-> columns[i].path]
<1>1. columns \in Seq(Column) /\ Len(columns) \in Nat /\ DOMAIN columns = D
  BY DEF TypeInv, TypeOK
<1>2. \A i \in D : columns[i].path \in Paths
  <2>1. \A i \in D : columns[i] \in Column
    BY <1>1
  <2> QED
    BY <2>1 DEF Column
<1>3. \A i, j \in D : columns[i].path = columns[j].path => i = j
  BY <1>1 DEF NoDuplicateColumn
<1>4. f \in Injection(D, Paths)
  BY <1>2, <1>3 DEF Injection, IsInjective
<1>5. IsFiniteSet(D) /\ Cardinality(D) = Len(columns)
  <2>1. 1 \in Int /\ Len(columns) \in Int
    BY <1>1
  <2>2. Cardinality(D) = IF 1 > Len(columns) THEN 0 ELSE Len(columns) - 1 + 1
    BY <2>1, FS_Interval
  <2> QED
    BY <1>1, <2>1, <2>2, FS_Interval
<1> QED
  BY <1>4, <1>5, FS_Injection

================================================================================
