---------------------------- MODULE ObjPricerGFCG ----------------------------
(***************************************************************************)
(* The part of a pricing round that the two pricers share: SCIP's main     *)
(* thread calls scip_redcost or scip_farkas, pricing() posts tasks to the  *)
(* thread pool and waits for all of them after each phase:                 *)
(*                                                                         *)
(*   "lp"    SCIP solves the restricted master problem                     *)
(*   "zero"  zero_arc_weights, one task per network                        *)
(*   "set"   set_arc_weights, one task per constraint                      *)
(*   "cg"    shortest_path_cg of the derived class adds columns            *)
(*   "optimal", "infeasible"   SCIPsolve is over                           *)
(*                                                                         *)
(* A step is a piece of code that no other thread can observe halfway:     *)
(* edge weights are read and written without a lock, so a read-modify-     *)
(* write is two steps; "lock, one SCIP call, unlock" is one step.          *)
(***************************************************************************)
EXTENDS PricingData

CONSTANTS
  Workers,        \* the threads of tpool_
  MaxColumns,     \* bound: no new round once there are this many columns
  MaxScipErrors   \* bound: how many SCIP calls of generate_columns may fail

(* The pool has one thread at least, and as many as the hardware runs.     *)
ASSUME BoundAssumption ==
  /\ Workers # {}
  /\ IsFiniteSet(Workers)
  /\ MaxColumns \in Nat
  /\ MaxScipErrors \in Nat

VARIABLES
  (* the main thread and SCIP *)
  phase,
  infeasible,     \* the restricted master problem was infeasible when last solved
  dual,           \* SCIPgetDualsolLinear, or SCIPgetDualfarkasLinear if infeasible
  columns,        \* the priced variables, in the order of SCIPaddPricedVar
  solved,         \* how many of them the last restricted master problem had
  scip_errors,    \* how many SCIP calls returned an error
  (* tpool_ *)
  pending,        \* tasks posted and not started
  pc,             \* what each worker does next
  (* Network *)
  weight,         \* arc -> the summands of the weight of its edge
  fresh,          \* group -> shortest_path_is_fresh_
  cached,         \* group -> shortest_path_
  (* locals of the tasks of set_arc_weights *)
  job,            \* the constraint
  pos,            \* the position in cons.arcs
  loaded,         \* current_weight in add_to_edge_weight
  (* locals of generate_columns *)
  path,           \* its argument
  varname,        \* the number in the name of the variable
  var,            \* the variable, an index of columns
  left,           \* coefficients still to be added
  (* shared by the tasks of generate_columns *)
  scip_mutex,         \* its owner, or NoWorker
  n_generated_paths,  \* n_generated_paths_
  var_to_path         \* DataManager::generated_var_to_path_

scipVars    == <<infeasible, dual, solved>>
networkVars == <<weight, fresh, cached>>
weightVars  == <<job, pos, loaded>>
columnVars  == <<path, varname, var, left>>
sharedVars  == <<columns, scip_errors, scip_mutex, n_generated_paths, var_to_path>>

vars == <<phase, pending, pc, scipVars, networkVars, weightVars, columnVars, sharedVars>>

NoWorker == "no worker"
NoPath   == "no path"
NoJob    == "no job"

ASSUME NullAssumption == NoWorker \notin Workers /\ NoPath \notin Paths /\ NoJob \notin Constraints

Final == {"optimal", "infeasible"}

(* A Path; its length is the set of summands that Cost adds up. *)
PathRecord == [path : Paths, length : SUBSET Summands]

EmptyPath == [path |-> NoPath, length |-> {}]

Column == [name : Nat, path : Paths, coeffs : SUBSET Terms]

TypeOK ==
  /\ phase \in {"lp", "zero", "set", "paths", "cg"} \cup Final
  /\ infeasible \in BOOLEAN
  /\ dual \in DualVectors
  /\ columns \in Seq(Column)
  /\ solved \in Nat
  /\ scip_errors \in Nat
  /\ pending \in (SUBSET Groups) \cup (SUBSET Constraints)
  /\ pc \in [Workers -> {"idle", "load", "store", "name", "create", "coeff", "register", "count"}]
  /\ weight \in [Arcs -> SUBSET Summands]
  /\ fresh \in [Groups -> BOOLEAN]
  /\ cached \in [Groups -> PathRecord \cup {EmptyPath}]
  /\ job \in [Workers -> Constraints \cup {NoJob}]
  /\ pos \in [Workers -> Nat]
  /\ loaded \in [Workers -> SUBSET Summands]
  /\ path \in [Workers -> Paths \cup {NoPath}]
  /\ varname \in [Workers -> Nat]
  /\ var \in [Workers -> Nat]
  /\ left \in [Workers -> SUBSET Terms]
  /\ scip_mutex \in Workers \cup {NoWorker}
  /\ n_generated_paths \in Nat
  /\ DOMAIN var_to_path \subseteq Nat
  /\ \A n \in DOMAIN var_to_path : var_to_path[n] \in Paths

Init ==
  /\ phase = "lp"
  /\ infeasible = TRUE
  /\ dual \in DualVectors
  /\ columns = << >>
  /\ solved = 0
  /\ scip_errors = 0
  /\ pending = {}
  /\ pc = [t \in Workers |-> "idle"]
  /\ weight = [a \in Arcs |-> {}]
  /\ fresh = [g \in Groups |-> FALSE]
  /\ cached = [g \in Groups |-> EmptyPath]
  /\ job = [t \in Workers |-> NoJob]
  /\ pos = [t \in Workers |-> 0]
  /\ loaded = [t \in Workers |-> {}]
  /\ path = [t \in Workers |-> NoPath]
  /\ varname = [t \in Workers |-> 0]
  /\ var = [t \in Workers |-> 0]
  /\ left = [t \in Workers |-> {}]
  /\ scip_mutex = NoWorker
  /\ n_generated_paths = 0
  /\ var_to_path = << >>

-----------------------------------------------------------------------------
(* SCIP and the main thread *)

(* The tasks of a phase are posted at once: a task that is posted later is *)
(* one that starts later.  The pool starts them in any order.              *)
Post(tasks) == pending' = pending \cup tasks

(* Mutant: the tasks are started, not awaited. *)
AllStarted == pending = {}

(* Mutant: only the tasks that have started are awaited. *)
StartedAwaited == \A t \in Workers : pc[t] = "idle"

(* future.wait() or future.get() on every task that was posted. *)
AllWaited ==
  /\ pending = {}
  /\ \A t \in Workers : pc[t] = "idle"

(* The dual solution or Farkas ray of a solved LP prices every column of   *)
(* that LP at zero or above.                                               *)
SolveMaster ==
  \E d \in DualVectors :
    /\ \A i \in DOMAIN columns : ReducedCost(columns[i].coeffs, d) >= 0
    /\ dual' = d
    /\ solved' = Len(columns)

(* pricing(), up to the wait in zero_arc_weights. *)
StartPricing ==
  /\ phase = "lp"
  /\ Len(columns) < MaxColumns
  /\ SolveMaster
  /\ phase' = "zero"
  /\ Post(Groups)
  /\ UNCHANGED <<pc, networkVars, weightVars, columnVars, sharedVars>>

(* Columns only enlarge the master problem: once feasible it stays so. *)
ScipRedcost == StartPricing /\ infeasible' = FALSE

ScipFarkas == StartPricing /\ infeasible /\ infeasible' = TRUE

(* zero_arc_weights returns and set_arc_weights posts its tasks. *)
SetArcWeights ==
  /\ phase = "zero"
  /\ AllWaited
  /\ phase' = "set"
  /\ Post(Constraints)
  /\ UNCHANGED <<pc, scipVars, networkVars, weightVars, columnVars, sharedVars>>

(* set_arc_weights returns.  The pricer posts one task per network.  Its   *)
(* scip_mutex is a local of shortest_path_cg, a new one in every round.    *)
StartShortestPaths(next) ==
  /\ phase = "set"
  /\ AllWaited
  /\ phase' = next
  /\ Post(Groups)
  /\ scip_mutex' = NoWorker
  /\ UNCHANGED <<pc, scipVars, networkVars, weightVars, columnVars>>
  /\ UNCHANGED <<columns, scip_errors, n_generated_paths, var_to_path>>

(* Mutant: SCIP is asked to price again after a round without a column. *)
PricingNeverEnds ==
  /\ phase = "cg"
  /\ AllWaited
  /\ phase' = "lp"
  /\ UNCHANGED <<pending, pc, scipVars, networkVars, weightVars, columnVars, sharedVars>>

(* shortest_path_cg and pricing() return, always with SCIP_OKAY: the tasks *)
(* drop what generate_columns returned.  The result is always SCIP_SUCCESS,*)
(* so SCIP takes a round without a new column for the end.                 *)
PricingReturns ==
  /\ phase = "cg"
  /\ AllWaited
  /\ phase' = IF Len(columns) > solved THEN "lp"
              ELSE IF infeasible THEN "infeasible" ELSE "optimal"
  /\ UNCHANGED <<pending, pc, scipVars, networkVars, weightVars, columnVars, sharedVars>>

-----------------------------------------------------------------------------
(* Mutant: shortest_path_is_fresh_ is not cleared. *)
ResetKeepsFresh(t) ==
  /\ phase = "zero"
  /\ pc[t] = "idle"
  /\ \E g \in pending :
       /\ pending' = pending \ {g}
       /\ weight' = [a \in Arcs |-> IF GroupOf[a] = g THEN {} ELSE weight[a]]
  /\ UNCHANGED <<phase, pc, scipVars, fresh, cached, weightVars, columnVars, sharedVars>>

(* Mutant: the weights are not set to zero. *)
ResetKeepsWeights(t) ==
  /\ phase = "zero"
  /\ pc[t] = "idle"
  /\ \E g \in pending :
       /\ pending' = pending \ {g}
       /\ fresh' = [fresh EXCEPT ![g] = FALSE]
  /\ UNCHANGED <<phase, pc, scipVars, weight, cached, weightVars, columnVars, sharedVars>>

(* Tasks of zero_arc_weights: Network::reset_edge_weights.  No two tasks   *)
(* share a network, so one is a single step.                               *)
ResetEdgeWeights(t) ==
  /\ phase = "zero"
  /\ pc[t] = "idle"
  /\ \E g \in pending :
       /\ pending' = pending \ {g}
       /\ fresh' = [fresh EXCEPT ![g] = FALSE]
       /\ weight' = [a \in Arcs |-> IF GroupOf[a] = g THEN {} ELSE weight[a]]
  /\ UNCHANGED <<phase, pc, scipVars, cached, weightVars, columnVars, sharedVars>>

(* Mutant: only constraints with a positive dual are worth a visit. *)
SkippedUnlessPositive(c) == dual[c] <= Epsilon

Skipped(c) == IsZero(dual[c])

(* Tasks of set_arc_weights: the body of the lambda, with                  *)
(* Network::add_to_edge_weight inlined into its loop.                      *)
StartConstraint(t) ==
  /\ phase = "set"
  /\ pc[t] = "idle"
  /\ \E c \in pending :
       /\ pending' = pending \ {c}
       /\ IF Skipped(c)
          THEN UNCHANGED <<pc, job, pos>>
          ELSE /\ pc' = [pc EXCEPT ![t] = "load"]
               /\ job' = [job EXCEPT ![t] = c]
               /\ pos' = [pos EXCEPT ![t] = 1]
  /\ UNCHANGED <<phase, scipVars, networkVars, loaded, columnVars, sharedVars>>

ArcAt(t) == Entries[job[t]][pos[t]].arc

LoadWeight(t) ==
  /\ pc[t] = "load"
  /\ fresh' = [fresh EXCEPT ![GroupOf[ArcAt(t)]] = FALSE]
  /\ loaded' = [loaded EXCEPT ![t] = weight[ArcAt(t)]]
  /\ pc' = [pc EXCEPT ![t] = "store"]
  /\ UNCHANGED <<phase, pending, scipVars, weight, cached, job, pos, columnVars, sharedVars>>

StoreWeight(t) ==
  /\ pc[t] = "store"
  /\ weight' = [weight EXCEPT ![ArcAt(t)] = loaded[t] \cup Priced({<<job[t], pos[t]>>}, dual)]
  /\ loaded' = [loaded EXCEPT ![t] = {}]
  /\ IF pos[t] < Len(Entries[job[t]])
     THEN /\ pc' = [pc EXCEPT ![t] = "load"]
          /\ pos' = [pos EXCEPT ![t] = @ + 1]
          /\ UNCHANGED job
     ELSE /\ pc' = [pc EXCEPT ![t] = "idle"]
          /\ pos' = [pos EXCEPT ![t] = 0]
          /\ job' = [job EXCEPT ![t] = NoJob]
  /\ UNCHANGED <<phase, pending, scipVars, fresh, cached, columnVars, sharedVars>>

-----------------------------------------------------------------------------
(* Network::shortest_path: the cached path if it is fresh, otherwise a     *)
(* path that no other undercuts.  Only the task of the network calls it.   *)

Length(p) == UNION {weight[a] : a \in Range(ArcsOf[p])}

IsShortest(p) == \A q \in PathsOf(PathGroup[p]) : Cost(Length(p)) <= Cost(Length(q))

ShortestPaths(g) ==
  IF fresh[g]
  THEN {cached[g]}
  ELSE {[path |-> p, length |-> Length(p)] : p \in {q \in PathsOf(g) : IsShortest(q)}}

CacheShortestPath(g, r) ==
  /\ fresh' = [fresh EXCEPT ![g] = TRUE]
  /\ cached' = [cached EXCEPT ![g] = r]

-----------------------------------------------------------------------------
(* Tasks that add a column: generate_columns and add_variable.  A pricer   *)
(* starts one by giving worker t the argument path.                        *)

ScipFails ==
  /\ scip_errors < MaxScipErrors
  /\ scip_errors' = scip_errors + 1

BeginColumn(t, p) ==
  /\ pc' = [pc EXCEPT ![t] = "name"]
  /\ path' = [path EXCEPT ![t] = p]

(* The name is built from n_generated_paths_, read without counter_mutex. *)
NameVariable(t) ==
  /\ pc[t] = "name"
  /\ varname' = [varname EXCEPT ![t] = n_generated_paths]
  /\ pc' = [pc EXCEPT ![t] = "create"]
  /\ UNCHANGED <<phase, pending, scipVars, networkVars, weightVars, path, var, left, sharedVars>>

(* Mutant: scip_mutex is not unlocked. *)
CreateVariableKeepsLock(t) ==
  /\ pc[t] = "create"
  /\ scip_mutex = NoWorker
  /\ scip_mutex' = t
  /\ columns' = Append(columns, [name |-> varname[t], path |-> path[t], coeffs |-> {}])
  /\ var' = [var EXCEPT ![t] = Len(columns) + 1]
  /\ left' = [left EXCEPT ![t] = PathTerms(path[t])]
  /\ pc' = [pc EXCEPT ![t] = IF PathTerms(path[t]) = {} THEN "register" ELSE "coeff"]
  /\ UNCHANGED <<phase, pending, scipVars, networkVars, weightVars, path, varname>>
  /\ UNCHANGED <<scip_errors, n_generated_paths, var_to_path>>

(* SCIPcreateVarBasic and SCIPaddPricedVar under scip_mutex. *)
CreateVariable(t) ==
  /\ pc[t] = "create"
  /\ scip_mutex = NoWorker
  /\ columns' = Append(columns, [name |-> varname[t], path |-> path[t], coeffs |-> {}])
  /\ var' = [var EXCEPT ![t] = Len(columns) + 1]
  /\ left' = [left EXCEPT ![t] = PathTerms(path[t])]
  /\ pc' = [pc EXCEPT ![t] = IF PathTerms(path[t]) = {} THEN "register" ELSE "coeff"]
  /\ UNCHANGED <<phase, pending, scipVars, networkVars, weightVars, path, varname>>
  /\ UNCHANGED <<scip_errors, scip_mutex, n_generated_paths, var_to_path>>

(* Either call fails: SCIP_CALL leaves generate_columns between lock() and *)
(* unlock(), and the task goes on as if a column had been added.           *)
CreateVariableFails(t) ==
  /\ pc[t] = "create"
  /\ scip_mutex = NoWorker
  /\ ScipFails
  /\ scip_mutex' = t
  /\ pc' = [pc EXCEPT ![t] = "count"]
  /\ UNCHANGED <<phase, pending, scipVars, networkVars, weightVars, columnVars>>
  /\ UNCHANGED <<columns, n_generated_paths, var_to_path>>

(* Mutant: only one constraint is kept for each arc. *)
AddOneCoefficientPerArc(t) ==
  /\ pc[t] = "coeff"
  /\ scip_mutex = NoWorker
  /\ \E x \in left[t] :
       LET rest == left[t] \ TermsOf(ArcOf(x))
       IN  /\ columns' = [columns EXCEPT ![var[t]].coeffs = @ \cup {x}]
           /\ left' = [left EXCEPT ![t] = rest]
           /\ pc' = [pc EXCEPT ![t] = IF rest = {} THEN "register" ELSE "coeff"]
  /\ UNCHANGED <<phase, pending, scipVars, networkVars, weightVars, path, varname, var>>
  /\ UNCHANGED <<scip_errors, scip_mutex, n_generated_paths, var_to_path>>

(* SCIPaddCoefLinear under scip_mutex.  The coefficients of one variable   *)
(* commute, so they are added in any order.                                *)
AddCoefficient(t) ==
  /\ pc[t] = "coeff"
  /\ scip_mutex = NoWorker
  /\ \E x \in left[t] :
       /\ columns' = [columns EXCEPT ![var[t]].coeffs = @ \cup {x}]
       /\ left' = [left EXCEPT ![t] = @ \ {x}]
       /\ pc' = [pc EXCEPT ![t] = IF left[t] = {x} THEN "register" ELSE "coeff"]
  /\ UNCHANGED <<phase, pending, scipVars, networkVars, weightVars, path, varname, var>>
  /\ UNCHANGED <<scip_errors, scip_mutex, n_generated_paths, var_to_path>>

(* It fails: SCIP_CALL leaves add_variable with scip_mutex locked;         *)
(* generate_columns drops the error and goes on with the next arc.         *)
AddCoefficientFails(t) ==
  /\ pc[t] = "coeff"
  /\ scip_mutex = NoWorker
  /\ ScipFails
  /\ scip_mutex' = t
  /\ \E x \in left[t] :
       LET rest == left[t] \ TermsOf(ArcOf(x))
       IN  /\ left' = [left EXCEPT ![t] = rest]
           /\ pc' = [pc EXCEPT ![t] = IF rest = {} THEN "register" ELSE "coeff"]
  /\ UNCHANGED <<phase, pending, scipVars, networkVars, weightVars, path, varname, var>>
  /\ UNCHANGED <<columns, n_generated_paths, var_to_path>>

(* Mutant: the counter is read again instead of the name. *)
AddVarPathPairOfCounter(n, p) ==
  var_to_path' = [m \in DOMAIN var_to_path \cup {n_generated_paths} |->
                    IF m \in DOMAIN var_to_path THEN var_to_path[m] ELSE p]

(* unordered_map::insert keeps the pair that is already there. *)
AddVarPathPair(n, p) ==
  var_to_path' = [m \in DOMAIN var_to_path \cup {n} |->
                    IF m \in DOMAIN var_to_path THEN var_to_path[m] ELSE p]

(* Mutant: scip_mutex is locked around it. *)
RegisterUnderMutex(t) ==
  /\ pc[t] = "register"
  /\ scip_mutex = NoWorker
  /\ AddVarPathPair(varname[t], path[t])
  /\ ScipFails \/ UNCHANGED scip_errors
  /\ pc' = [pc EXCEPT ![t] = "count"]
  /\ UNCHANGED <<phase, pending, scipVars, networkVars, weightVars, columnVars>>
  /\ UNCHANGED <<columns, scip_mutex, n_generated_paths>>

(* add_var_path_pair, then SCIPreleaseVar, whose error is dropped too. *)
RegisterPath(t) ==
  /\ pc[t] = "register"
  /\ AddVarPathPair(varname[t], path[t])
  /\ ScipFails \/ UNCHANGED scip_errors
  /\ pc' = [pc EXCEPT ![t] = "count"]
  /\ UNCHANGED <<phase, pending, scipVars, networkVars, weightVars, columnVars>>
  /\ UNCHANGED <<columns, scip_mutex, n_generated_paths>>

(* Mutant: n_generated_paths_ is not incremented. *)
CountNothing(t) ==
  /\ pc[t] = "count"
  /\ pc' = [pc EXCEPT ![t] = "idle"]
  /\ path' = [path EXCEPT ![t] = NoPath]
  /\ varname' = [varname EXCEPT ![t] = 0]
  /\ var' = [var EXCEPT ![t] = 0]
  /\ left' = [left EXCEPT ![t] = {}]
  /\ UNCHANGED <<phase, pending, scipVars, networkVars, weightVars, sharedVars>>

(* n_generated_paths_++ under counter_mutex; the task is done. *)
CountPath(t) ==
  /\ pc[t] = "count"
  /\ n_generated_paths' = n_generated_paths + 1
  /\ pc' = [pc EXCEPT ![t] = "idle"]
  /\ path' = [path EXCEPT ![t] = NoPath]
  /\ varname' = [varname EXCEPT ![t] = 0]
  /\ var' = [var EXCEPT ![t] = 0]
  /\ left' = [left EXCEPT ![t] = {}]
  /\ UNCHANGED <<phase, pending, scipVars, networkVars, weightVars>>
  /\ UNCHANGED <<columns, scip_errors, scip_mutex, var_to_path>>

-----------------------------------------------------------------------------

MainStep == ScipRedcost \/ ScipFarkas \/ SetArcWeights \/ PricingReturns

WorkerStep(t) ==
  \/ ResetEdgeWeights(t)
  \/ StartConstraint(t)
  \/ LoadWeight(t)
  \/ StoreWeight(t)
  \/ NameVariable(t)
  \/ CreateVariable(t)
  \/ CreateVariableFails(t)
  \/ AddCoefficient(t)
  \/ AddCoefficientFails(t)
  \/ RegisterPath(t)
  \/ CountPath(t)

(* SCIPsolve is over, or the bound MaxColumns is reached. *)
Stopped ==
  /\ phase \in Final \/ (phase = "lp" /\ Len(columns) >= MaxColumns)
  /\ UNCHANGED vars

-----------------------------------------------------------------------------
(* Properties *)

(* The invalidation of the cached path (shortest_path_is_fresh_): a path   *)
(* that shortest_path would return without a computation is a shortest one *)
(* under the weights the edges have now, and its length is up to date.     *)
CacheCoherent ==
  \A g \in Groups : fresh[g] =>
    /\ cached[g] # EmptyPath
    /\ PathGroup[cached[g].path] = g
    /\ IsShortest(cached[g].path)
    /\ cached[g].length = Length(cached[g].path)

(* When the shortest paths are computed every arc has the contribution of  *)
(* every constraint it is in: "we sum up the contributions of each         *)
(* constraint" (set_arc_weights).                                          *)
WeightsComplete ==
  phase \in {"paths", "cg"} =>
    \A a \in Arcs :
      weight[a] = Priced({x \in TermsOf(a) : ~IsZero(dual[x[1]])}, dual)

(* scip_redcost and scip_farkas report SCIP_SUCCESS without a new column   *)
(* only if there is none: "we can guarantee either a new variable or       *)
(* optimality", up to the tolerance and what it hides in the duals.        *)
OptimalityGuarantee ==
  phase \in Final =>
    \A p \in Paths : ~IsNegative(ReducedCost(PathTerms(p), dual) + Hidden(p, dual))

(* generate_columns is called only for a path that prices out, and once in *)
(* a round.  A path that is in the LP already comes again only if duals    *)
(* that SCIPisZero drops hide its true reduced cost.                       *)
ColumnsPriceOut ==
  \A i \in DOMAIN columns : i > solved =>
    LET p == columns[i].path
    IN  /\ IsNegative(ReducedCost(PathTerms(p), dual) - Hidden(p, dual))
        /\ \A j \in DOMAIN columns : j > solved /\ columns[j].path = p => i = j

(* Without a tolerance generate_columns is never called for a path that is *)
(* a variable already.                                                     *)
NoDuplicateColumn ==
  \A i, j \in DOMAIN columns : columns[i].path = columns[j].path => i = j

(* SCIP never solves an LP with a half-built column: add_variable has put  *)
(* each variable in all constraints of all its arcs, but for one variable  *)
(* for each SCIP call that failed.                                         *)
ColumnsComplete ==
  phase = "lp" =>
    Cardinality({i \in DOMAIN columns : columns[i].coeffs # PathTerms(columns[i].path)})
      <= scip_errors

(* get_path "returns the path corresponding to a generated variable": when *)
(* the solve is over, report_results_csv finds each variable's own path.   *)
PathOfVariable ==
  phase \in Final =>
    \A i \in DOMAIN columns :
      /\ columns[i].name \in DOMAIN var_to_path
      /\ var_to_path[columns[i].name] = columns[i].path

(* Although names may clash, the path that is stored for a variable is one *)
(* of a variable of that name, and of this variable if its name is its own.*)
StoredPathFits ==
  phase \in Final =>
    \A i \in DOMAIN columns :
      LET same == {j \in DOMAIN columns : columns[j].name = columns[i].name}
      IN  /\ columns[i].name \in DOMAIN var_to_path
          /\ var_to_path[columns[i].name] \in {columns[j].path : j \in same}

(* The counter that makes the names never falls behind a round: variables  *)
(* with one name were made in one round.                                   *)
NamesFreshAcrossRounds ==
  \A i, j \in DOMAIN columns : i <= solved /\ j > solved => columns[i].name # columns[j].name

(* The threads, tasks and caches of either pricer implement                *)
(* ColumnGeneration.                                                       *)
Abstract == INSTANCE ColumnGeneration WITH
  status <- IF phase \in {"lp"} \cup Final THEN phase ELSE "pricing",
  base <- {columns[i].path : i \in 1 .. solved},
  added <- {columns[i].path : i \in {j \in DOMAIN columns : j > solved}}

ImplementsColumnGeneration == Abstract!Spec

(* SCIPsolve ends: each round makes progress towards the finitely many     *)
(* paths, and nobody waits for ever.  Only a path that is generated again, *)
(* see ColumnsPriceOut, could keep it going.                               *)
Termination == <>(phase \in Final \/ ~NoDuplicateColumn)

(* How many steps worker t has left in its task, at most. *)
StepsLeft(t) ==
  CASE pc[t] = "idle"     -> 0
    [] pc[t] = "load"     -> 2 * (Len(Entries[job[t]]) - pos[t]) + 2
    [] pc[t] = "store"    -> 2 * (Len(Entries[job[t]]) - pos[t]) + 1
    [] pc[t] = "name"     -> 4 + Cardinality(PathTerms(path[t]))
    [] pc[t] = "create"   -> 3 + Cardinality(PathTerms(path[t]))
    [] pc[t] = "coeff"    -> 2 + Cardinality(left[t])
    [] pc[t] = "register" -> 2
    [] pc[t] = "count"    -> 1

Effort == SumFunction([t \in Workers |-> StepsLeft(t)])

(* How many phases are still to come in the round; SCIP has the last one.  *)
PhasesLeft ==
  CASE phase = "lp"    -> 5
    [] phase = "zero"  -> 4
    [] phase = "set"   -> 3
    [] phase = "paths" -> 2
    [] phase = "cg"    -> 1
    [] OTHER           -> 0

(* The columns that SCIP had, or will have, when it solved the LP of this  *)
(* round.                                                                  *)
RoundColumns == IF phase = "lp" THEN Len(columns) ELSE solved

Progress ==
  \/ RoundColumns' > RoundColumns
  \/ /\ RoundColumns' = RoundColumns
     /\ \/ PhasesLeft' < PhasesLeft
        \/ /\ PhasesLeft' = PhasesLeft
           /\ \/ Cardinality(pending') < Cardinality(pending)
              \/ pending' = pending /\ Effort' < Effort

(* Nothing is done in vain, whoever does it and whatever fails: a step     *)
(* brings a task nearer to its end, or starts one of those posted, or ends *)
(* a phase, and a round is only begun again with more columns than before. *)
(* The four go on at most to the end of the tasks, of the round and, as    *)
(* long as NoDuplicateColumn holds, of the paths.                          *)
SolveProgresses == [][Progress]_vars

(* Worker t can start a task that was posted, or do the next step of its   *)
(* own: it may have to wait for scip_mutex only.                           *)
CanStep(t) ==
  \/ pc[t] = "idle" /\ pending # {}
  \/ pc[t] \in {"load", "store", "name", "register", "count"}
  \/ pc[t] \in {"create", "coeff"} /\ scip_mutex = NoWorker

(* SCIP, the main thread or a worker can go on, or SCIPsolve is over.      *)
SomeoneGoesOn ==
  \/ phase \in {"lp"} \cup Final
  \/ AllWaited
  \/ \E t \in Workers : CanStep(t)

(* Nobody can go on only if a SCIP call failed between scip_mutex.lock()   *)
(* and unlock(), and a task of that round wants the mutex.                 *)
HangsOnlyAfterError ==
  ~SomeoneGoesOn =>
    /\ phase = "cg"
    /\ scip_errors > 0
    /\ scip_mutex # NoWorker
    /\ \E t \in Workers : pc[t] \in {"create", "coeff"}

(* An error that SCIP reports while columns are generated is not lost:     *)
(* "SCIP reported an error during the variable generation routine" is      *)
(* fatal (shortest_path_cg), pricing does not go on.                       *)
ScipErrorsAreFatal == [][phase = "cg" /\ phase' # "cg" => scip_errors = 0]_vars

=============================================================================
