--------------------------- MODULE FullPricer_proofs ---------------------------
(***************************************************************************)
(* Theorems about FullPricer for every data, every number of threads and   *)
(* every bound.                                                            *)
(***************************************************************************)
EXTENDS FullPricer, ObjPricerGFCG_proofs

LEMMA PriceNetworkTypeInv ==
  ASSUME TypeInv, NEW t \in Workers, PriceNetwork(t)
  PROVE  TypeInv'
<1>0. PICK g \in pending : \E r \in ShortestPaths(g) :
        /\ pending' = pending \ {g}
        /\ CacheShortestPath(g, r)
        /\ \/ pc' = [pc EXCEPT ![t] = "name"] /\ path' = [path EXCEPT ![t] = r.path]
           \/ UNCHANGED <<pc, path>>
  BY DEF PriceNetwork, BeginColumn
<1>1. PICK r \in ShortestPaths(g) :
        /\ pending' = pending \ {g}
        /\ CacheShortestPath(g, r)
        /\ \/ pc' = [pc EXCEPT ![t] = "name"] /\ path' = [path EXCEPT ![t] = r.path]
           \/ UNCHANGED <<pc, path>>
  BY <1>0
<1>2. /\ phase = "cg" /\ pc[t] = "idle"
      /\ UNCHANGED <<phase, scipVars, weight, weightVars, varname, var, left, sharedVars>>
  BY DEF PriceNetwork
<1>3. g \in Groups /\ pending \subseteq Groups
  BY <1>2 DEF TypeInv, QueueOK
<1>4. r \in PathRecord /\ r.path \in Paths /\ PathGroup[r.path] = g
  BY <1>3, ShortestPathsType DEF PathRecord
<1>5. fresh' = [fresh EXCEPT ![g] = TRUE] /\ cached' = [cached EXCEPT ![g] = r]
  BY <1>1 DEF CacheShortestPath
<1>6. TypeOK'
  BY <1>1, <1>2, <1>3, <1>4, <1>5 DEF TypeInv, TypeOK, scipVars, weightVars, sharedVars
<1>7. QueueOK' /\ CacheOK'
  BY <1>1, <1>2, <1>3, <1>4, <1>5 DEF TypeInv, TypeOK, QueueOK, CacheOK, Final
<1>8. \A u \in Workers : TaskOK(u)'
  BY <1>1, <1>2, <1>4 DEF TypeInv, TypeOK, TaskOK, InSet, InColumn, weightVars
<1> QED
  BY <1>6, <1>7, <1>8 DEF TypeInv

LEMMA TypeInvInit == Init => TypeInv
BY DEF Init, TypeInv, TypeOK, QueueOK, CacheOK, TaskOK, InSet, InColumn, Final

LEMMA TypeInvStep == TypeInv /\ [Next]_vars => TypeInv'
<1> SUFFICES ASSUME TypeInv, [Next]_vars
             PROVE  TypeInv'
  OBVIOUS
<1>1. CASE MainStep
  BY <1>1, MainStepTypeInv
<1>2. CASE StartTasks
  BY <1>2, StartShortestPathsTypeInv DEF StartTasks
<1>3. ASSUME NEW t \in Workers, WorkerStep(t)
      PROVE  TypeInv'
  BY <1>3, WorkerStepTypeInv
<1>4. ASSUME NEW t \in Workers, PriceNetwork(t)
      PROVE  TypeInv'
  BY <1>4, PriceNetworkTypeInv
<1>5. CASE UNCHANGED vars
  BY <1>5 DEF vars, scipVars, networkVars, weightVars, columnVars, sharedVars,
     TypeInv, TypeOK, QueueOK, CacheOK, TaskOK
<1> QED
  BY <1>1, <1>2, <1>3, <1>4, <1>5 DEF Next, Stopped

(* Every reachable state of FullPricer has the types of TypeOK.            *)
THEOREM TypeCorrect == Spec => []TypeOK
<1>1. TypeInv => TypeOK
  BY DEF TypeInv
<1> QED
  BY <1>1, TypeInvInit, TypeInvStep, PTL DEF Spec

-----------------------------------------------------------------------------

LEMMA CacheInvInit == Init => CacheInv
BY DEF Init, CacheInv, CacheCoherent

LEMMA PriceNetworkCacheInv ==
  ASSUME TypeInv, CacheInv, NEW t \in Workers, PriceNetwork(t)
  PROVE  CacheInv'
<1>1. PICK g \in pending : \E r \in ShortestPaths(g) : CacheShortestPath(g, r)
  BY DEF PriceNetwork
<1>2. PICK r \in ShortestPaths(g) : CacheShortestPath(g, r)
  BY <1>1
<1>3. g \in Groups /\ phase = "cg" /\ UNCHANGED <<weight, job, pos>>
  BY DEF PriceNetwork, TypeInv, QueueOK, weightVars
<1>4. CacheCoherent'
  BY <1>2, <1>3, CachedIsShortest
<1>5. \A u \in Workers : pc'[u] # "store"
  <2>1. \A u \in Workers : pc[u] # "store"
    BY <1>3 DEF TypeInv, TaskOK, InSet
  <2>2. pc' = [pc EXCEPT ![t] = "name"] \/ pc' = pc
    BY DEF PriceNetwork, BeginColumn
  <2> QED
    BY <2>1, <2>2 DEF TypeInv, TypeOK
<1> QED
  BY <1>4, <1>5 DEF CacheInv

LEMMA CacheInvStep == TypeInv /\ CacheInv /\ [Next]_vars => CacheInv'
<1> SUFFICES ASSUME TypeInv, CacheInv, [Next]_vars
             PROVE  CacheInv'
  OBVIOUS
<1>1. CASE MainStep
  BY <1>1, MainStepCacheInv
<1>2. CASE StartTasks
  BY <1>2, StartShortestPathsCacheInv DEF StartTasks
<1>3. ASSUME NEW t \in Workers, WorkerStep(t)
      PROVE  CacheInv'
  BY <1>3, WorkerStepCacheInv
<1>4. ASSUME NEW t \in Workers, PriceNetwork(t)
      PROVE  CacheInv'
  BY <1>4, PriceNetworkCacheInv
<1>5. CASE UNCHANGED vars
  <2>1. UNCHANGED <<fresh, cached, weight, pc, job, pos>>
    BY <1>5 DEF vars, networkVars, weightVars
  <2>2. CacheCoherent'
    BY <2>1, CoherentKept DEF CacheInv
  <2> QED
    BY <2>1, <2>2 DEF CacheInv, ArcAt
<1> QED
  BY <1>1, <1>2, <1>3, <1>4, <1>5 DEF Next, Stopped

(* With any number of threads, with lost updates and with failing SCIP     *)
(* calls: a path that shortest_path returns from its cache is a shortest   *)
(* one under the current weights, and its length is up to date.            *)
THEOREM CacheIsCoherent == Spec => []CacheCoherent
<1>1. TypeInv /\ CacheInv => CacheCoherent
  BY DEF CacheInv
<1> QED
  BY <1>1, TypeInvInit, TypeInvStep, CacheInvInit, CacheInvStep, PTL DEF Spec

-----------------------------------------------------------------------------

LEMMA WeightInvInit == Init => WeightInv
BY DEF Init, WeightInv, WeightsComplete

LEMMA WeightInvStep == NoRace /\ TypeInv /\ WeightInv /\ [Next]_vars => WeightInv'
<1> SUFFICES ASSUME NoRace, TypeInv, WeightInv, [Next]_vars
             PROVE  WeightInv'
  OBVIOUS
<1>1. CASE MainStep
  BY <1>1, MainStepWeightInv
<1>2. CASE StartTasks
  BY <1>2, StartShortestPathsWeightInv DEF StartTasks
<1>3. ASSUME NEW t \in Workers, WorkerStep(t)
      PROVE  WeightInv'
  BY <1>3, WorkerStepWeightInv
<1>4. ASSUME NEW t \in Workers, PriceNetwork(t)
      PROVE  WeightInv'
  <2>1. phase = "cg" /\ UNCHANGED <<phase, dual, weight>>
    BY <1>4 DEF PriceNetwork, scipVars
  <2> QED
    BY <2>1, WeightKept
<1>5. CASE UNCHANGED vars
  <2>1. UNCHANGED <<phase, dual, weight, pending, pc, job, pos, loaded>>
    BY <1>5 DEF vars, scipVars, networkVars, weightVars
  <2> QED
    BY <2>1, WeightKept
<1> QED
  BY <1>1, <1>2, <1>3, <1>4, <1>5 DEF Next, Stopped

(* With one thread, or if no y-variable is in two constraints, every edge  *)
(* has the contribution of each of its constraints when the shortest paths *)
(* are computed.                                                           *)
THEOREM WeightsAreComplete ==
  ASSUME NoRace
  PROVE  Spec => []WeightsComplete
<1>1. WeightInv => WeightsComplete
  BY DEF WeightInv
<1>2. TypeInv /\ WeightInv /\ [Next]_vars => WeightInv'
  BY WeightInvStep
<1> QED
  BY <1>1, <1>2, TypeInvInit, TypeInvStep, WeightInvInit, PTL DEF Spec

-----------------------------------------------------------------------------
(* The columns *)

LEMMA PriceNetworkTakesTask ==
  ASSUME TypeInv, CacheInv, NEW t \in Workers, PriceNetwork(t)
  PROVE  TakeTask(t)
<1>1. /\ phase = "cg" /\ pc[t] = "idle"
      /\ UNCHANGED <<phase, scipVars, weight, weightVars, varname, var, left, sharedVars>>
  BY DEF PriceNetwork
<1>2. PICK g \in pending : \E r \in ShortestPaths(g) :
        /\ pending' = pending \ {g}
        /\ IF IsNegative(Cost(r.length)) THEN BeginColumn(t, r.path) ELSE UNCHANGED <<pc, path>>
  BY DEF PriceNetwork
<1>3. PICK r \in ShortestPaths(g) :
        /\ pending' = pending \ {g}
        /\ IF IsNegative(Cost(r.length)) THEN BeginColumn(t, r.path) ELSE UNCHANGED <<pc, path>>
  BY <1>2
<1>4. g \in Groups
  BY <1>1 DEF TypeInv, QueueOK
<1>5. r.path \in PathsOf(g) /\ r.length = Length(r.path)
  BY <1>4, ShortestPathsShortest
<1> QED
  BY <1>1, <1>3, <1>5 DEF TakeTask, scipVars, sharedVars

LEMMA NextKinds ==
  ASSUME TypeInv, CacheInv, [Next]_vars
  PROVE  AnyStep
<1>1. CASE MainStep
  BY <1>1, MainStepKinds DEF AnyStep
<1>2. CASE StartTasks
  BY <1>2, StartShortestPathsKind DEF StartTasks, AnyStep
<1>3. ASSUME NEW t \in Workers, WorkerStep(t)
      PROVE  AnyStep
  BY <1>3, WorkerStepKinds DEF AnyStep
<1>4. ASSUME NEW t \in Workers, PriceNetwork(t)
      PROVE  AnyStep
  BY <1>4, PriceNetworkTakesTask DEF AnyStep
<1>5. CASE UNCHANGED vars
  BY <1>5, StutterKind DEF AnyStep
<1> QED
  BY <1>1, <1>2, <1>3, <1>4, <1>5 DEF Next, Stopped

(* The invariant of every instance. *)
Inv == TypeInv /\ CacheInv /\ ColumnsInv

LEMMA InvInit == Init => Inv
BY TypeInvInit, CacheInvInit, ColumnsInvInit DEF Inv

LEMMA InvStep == Inv /\ [Next]_vars => Inv'
<1> SUFFICES ASSUME Inv, [Next]_vars
             PROVE  Inv'
  OBVIOUS
<1>1. TypeInv' /\ CacheInv' /\ AnyStep
  BY TypeInvStep, CacheInvStep, NextKinds DEF Inv
<1> QED
  BY <1>1, ColumnsInvStep DEF Inv

(* SCIP never solves an LP with a half-built column, but for one for each  *)
(* SCIP call that failed: with any number of threads, no coefficient that  *)
(* add_variable has to add is lost or added to another variable.           *)
THEOREM ColumnsAreComplete == Spec => []ColumnsComplete
<1>1. Inv => ColumnsComplete
  BY CoefficientsOfColumns DEF Inv, ColumnsInv
<1> QED
  BY <1>1, InvInit, InvStep, PTL DEF Spec

(* n_generated_paths_ is read without counter_mutex, but it never falls    *)
(* behind a round: a new variable has no name of an earlier round.         *)
THEOREM NamesStayFresh == Spec => []NamesFreshAcrossRounds
<1>1. Inv => NamesFreshAcrossRounds
  BY NamesOfRounds DEF Inv, ColumnsInv
<1> QED
  BY <1>1, InvInit, InvStep, PTL DEF Spec

(* When the solve is over, get_path finds for each variable a path, that   *)
(* of a variable of the same name.                                         *)
THEOREM StoredPathsFit == Spec => []StoredPathFits
<1>1. Inv => StoredPathFits
  BY StoredPaths DEF Inv, ColumnsInv
<1> QED
  BY <1>1, InvInit, InvStep, PTL DEF Spec

(* With one thread it finds the variable's own path.                       *)
THEOREM OwnPathsStored ==
  ASSUME OneThread
  PROVE  Spec => []PathOfVariable
<1>1. Inv /\ UniqueInv => PathOfVariable
  BY OwnPaths DEF Inv, ColumnsInv
<1>2. Inv /\ UniqueInv /\ [Next]_vars => UniqueInv'
  BY NextKinds, UniqueInvStep DEF Inv, ColumnsInv
<1> QED
  BY <1>1, <1>2, InvInit, InvStep, UniqueInvInit, PTL DEF Spec

-----------------------------------------------------------------------------
(* Prices.  The weights have to be complete: no lost update.               *)

PriceInv == Inv /\ WeightInv /\ PricedOutInv

LEMMA PriceInvInit == Init => PriceInv
BY InvInit, WeightInvInit, PricedOutInit DEF PriceInv

LEMMA PriceInvStep == NoRace /\ PriceInv /\ [Next]_vars => PriceInv'
<1> SUFFICES ASSUME NoRace, PriceInv, [Next]_vars
             PROVE  PriceInv'
  OBVIOUS
<1>1. Inv' /\ WeightInv' /\ AnyStep
  BY InvStep, WeightInvStep, NextKinds DEF PriceInv, Inv
<1> QED
  BY <1>1, PricedOutStep DEF PriceInv, Inv, ColumnsInv, WeightInv

(* A variable is added only for a path that prices out under the duals of  *)
(* the round, up to what the tolerance hides, and once in a round.         *)
THEOREM NewColumnsAllPriceOut ==
  ASSUME NoRace
  PROVE  Spec => []ColumnsPriceOut
<1>1. PriceInv => ColumnsPriceOut
  BY NewColumnsPriceOut DEF PriceInv, Inv, ColumnsInv
<1>2. PriceInv /\ [Next]_vars => PriceInv'
  BY PriceInvStep
<1> QED
  BY <1>1, <1>2, PriceInvInit, PTL DEF Spec

(* If SCIP ignores no small number: as long as no SCIP call has failed,    *)
(* generate_columns is never called for a path that is a variable.         *)
THEOREM NoPathTwice ==
  ASSUME NoRace, Epsilon = 0
  PROVE  Spec => [](scip_errors = 0 => NoDuplicateColumn)
<1> DEFINE I == PriceInv /\ (scip_errors = 0 => LpInv /\ NoDuplicateColumn)
<1>1. Init => I
  BY PriceInvInit, LpInvInit DEF Init, NoDuplicateColumn
<1>2. I /\ [Next]_vars => I'
  <2> SUFFICES ASSUME I, [Next]_vars
               PROVE  I'
    OBVIOUS
  <2>1. PriceInv' /\ AnyStep
    BY PriceInvStep, NextKinds DEF PriceInv, Inv
  <2>2. ASSUME scip_errors' = 0
        PROVE  LpInv' /\ NoDuplicateColumn'
    BY <2>1, <2>2, ErrorsKept, LpInvStep, NoDuplicateStep DEF PriceInv, Inv, ColumnsInv
  <2> QED
    BY <2>1, <2>2
<1> QED
  BY <1>1, <1>2, PTL DEF Spec

-----------------------------------------------------------------------------
(* Optimality.  As long as no SCIP call fails, each network that has been  *)
(* processed and has a path of negative length is about to get a column or *)
(* has got it.                                                             *)

Handled(g) ==
  \/ \E t \in Workers : InFlight(t) /\ path[t] = cached[g].path
  \/ \E i \in DOMAIN columns : i > solved /\ columns[i].path = cached[g].path

Justified(p) ==
  /\ cached[PathGroup[p]].path = p
  /\ IsNegative(Cost(cached[PathGroup[p]].length))

HandledInv ==
  phase = "cg" =>
    /\ \A g \in Groups \ pending : fresh[g] /\ (IsNegative(Cost(cached[g].length)) => Handled(g))
    /\ \A t \in Workers : InFlight(t) => Justified(path[t])
    /\ \A i \in DOMAIN columns : i > solved => Justified(columns[i].path)

LEMMA HandledStart ==
  ASSUME TypeInv, RoundInv, StartTasks
  PROVE  HandledInv'
<1>1. /\ phase = "set" /\ pending' = pending \cup Groups
      /\ \A t \in Workers : pc'[t] = "idle"
      /\ UNCHANGED <<columns, solved>>
  BY DEF StartTasks, StartShortestPaths, AllWaited, Post, scipVars
<1>2. \A i \in DOMAIN columns : ~(i > solved)
  BY <1>1, NamesAreNumbers DEF RoundInv
<1> QED
  BY <1>1, <1>2 DEF HandledInv, InFlight

LEMMA HandledTask ==
  ASSUME TypeInv, CacheInv, RoundInv, HandledInv, NEW t \in Workers, PriceNetwork(t)
  PROVE  HandledInv'
<1>1. /\ phase = "cg" /\ pc[t] = "idle"
      /\ UNCHANGED <<phase, solved, columns>>
  BY DEF PriceNetwork, scipVars, sharedVars
<1>2. PICK g \in pending : \E r \in ShortestPaths(g) :
        /\ pending' = pending \ {g}
        /\ CacheShortestPath(g, r)
        /\ IF IsNegative(Cost(r.length)) THEN BeginColumn(t, r.path) ELSE UNCHANGED <<pc, path>>
  BY DEF PriceNetwork
<1>3. PICK r \in ShortestPaths(g) :
        /\ pending' = pending \ {g}
        /\ CacheShortestPath(g, r)
        /\ IF IsNegative(Cost(r.length)) THEN BeginColumn(t, r.path) ELSE UNCHANGED <<pc, path>>
  BY <1>2
<1>4. g \in Groups
  BY <1>1 DEF TypeInv, QueueOK
<1>5. r.path \in Paths /\ PathGroup[r.path] = g
  BY <1>4, ShortestPathsShortest DEF PathsOf
<1>6. /\ fresh'[g] /\ cached'[g] = r
      /\ \A h \in Groups \ {g} : fresh'[h] = fresh[h] /\ cached'[h] = cached[h]
  BY <1>3, <1>4 DEF CacheShortestPath, TypeInv, TypeOK
<1>7. \A u \in Workers \ {t} : pc'[u] = pc[u] /\ path'[u] = path[u]
  BY <1>3 DEF BeginColumn, TypeInv, TypeOK
<1>8. \/ IsNegative(Cost(r.length)) /\ pc'[t] = "name" /\ path'[t] = r.path
      \/ ~IsNegative(Cost(r.length)) /\ pc'[t] = "idle"
  BY <1>1, <1>3 DEF BeginColumn, TypeInv, TypeOK
<1>9. ASSUME NEW h \in Groups \ pending'
      PROVE  fresh'[h] /\ (IsNegative(Cost(cached'[h].length)) => Handled(h)')
  <2>1. CASE h = g
    BY <1>6, <1>8, <2>1 DEF Handled, InFlight
  <2>2. CASE h # g
    <3>1. h \in Groups \ pending /\ fresh'[h] = fresh[h] /\ cached'[h] = cached[h]
      BY <1>3, <1>6, <2>2
    <3>2. Handled(h) => Handled(h)'
      BY <1>1, <1>7, <3>1 DEF Handled, InFlight
    <3> QED
      BY <1>1, <3>1, <3>2 DEF HandledInv
  <2> QED
    BY <2>1, <2>2
<1>10. \A p \in Paths : Justified(p) /\ PathGroup[p] # g => Justified(p)'
  BY <1>6, DataAssumption DEF Justified
<1>11. ASSUME NEW u \in Workers, InFlight(u)'
       PROVE  Justified(path[u])'
  <2>1. CASE u = t
    BY <1>5, <1>6, <1>8, <1>11, <2>1 DEF Justified, InFlight
  <2>2. CASE u # t
    <3>1. InFlight(u) /\ path'[u] = path[u] /\ path[u] \in Paths
      BY <1>7, <1>11, <2>2 DEF InFlight, TypeInv, TaskOK, InColumn
    <3>2. PathGroup[path[u]] # g
      BY <3>1 DEF RoundInv, GroupOfTask
    <3> QED
      BY <1>1, <1>10, <3>1, <3>2 DEF HandledInv, Justified
  <2> QED
    BY <2>1, <2>2
<1>12. ASSUME NEW i \in DOMAIN columns, i > solved
       PROVE  Justified(columns[i].path)'
  <2>1. columns[i].path \in Paths /\ PathGroup[columns[i].path] # g
    BY <1>12, NamesAreNumbers DEF RoundInv, GroupOfColumn
  <2> QED
    BY <1>1, <1>10, <1>12, <2>1 DEF HandledInv, Justified
<1> QED
  BY <1>1, <1>9, <1>11, <1>12 DEF HandledInv

LEMMA HandledColumn ==
  ASSUME TypeInv, ColumnInv, HandledInv, NEW t \in Workers, ColumnStep(t), scip_errors' = 0
  PROVE  HandledInv'
<1>1. /\ phase = "cg" /\ UNCHANGED <<phase, pending, solved>>
      /\ \A u \in Workers \ {t} : pc'[u] = pc[u] /\ path'[u] = path[u]
  BY ColumnStepFrame
<1>2. UNCHANGED <<fresh, cached>>
  BY DEF ColumnStep, NameVariable, CreateVariable, CreateVariableFails, AddCoefficient,
     AddCoefficientFails, RegisterPath, CountPath, networkVars
<1>3. \A p : Justified(p)' = Justified(p)
  BY <1>2 DEF Justified
<1>4. CASE CreateVariable(t)
  <2>1. /\ pc[t] = "create" /\ pc'[t] \in {"register", "coeff"}
        /\ \A i \in DOMAIN columns : columns'[i] = columns[i]
        /\ \A i : i \in DOMAIN columns' <=> i \in DOMAIN columns \/ i = NewIndex
        /\ columns'[NewIndex] = [name |-> varname[t], path |-> path[t], coeffs |-> {}]
    BY <1>4, CreatedColumn
  <2>2. columns'[NewIndex].path = path[t]
    BY <2>1
  <2>3. NewIndex > solved
    BY DEF ColumnInv, NewIndex, TypeInv, TypeOK
  <2>4. \A g \in Groups : Handled(g) => Handled(g)'
    BY <1>1, <1>2, <2>1, <2>2, <2>3 DEF Handled, InFlight
  <2>5. \A u \in Workers : InFlight(u)' => InFlight(u) /\ path'[u] = path[u]
    BY <1>1, <2>1 DEF InFlight
  <2>6. Justified(path[t])
    BY <1>1, <2>1 DEF HandledInv, InFlight
  <2>7. \A i \in DOMAIN columns' : i > solved => Justified(columns'[i].path)
    BY <1>1, <2>1, <2>2, <2>6 DEF HandledInv
  <2> QED
    BY <1>1, <1>2, <1>3, <2>4, <2>5, <2>7 DEF HandledInv
<1>5. CASE ~CreateVariable(t)
  <2>1. /\ DOMAIN columns' = DOMAIN columns
        /\ \A i \in DOMAIN columns : columns'[i].path = columns[i].path
    BY <1>5, ColumnsKept
  <2>2. ~CreateVariableFails(t)
    BY DEF CreateVariableFails, ScipFails, TypeInv, TypeOK
  <2>3. (InFlight(t) <=> InFlight(t)') /\ (InFlight(t) => path'[t] = path[t])
    BY <1>5, <2>2 DEF ColumnStep, NameVariable, AddCoefficient, AddCoefficientFails,
       RegisterPath, CountPath, InFlight, TypeInv, TypeOK
  <2>4. \A u \in Workers : (InFlight(u) <=> InFlight(u)') /\ (InFlight(u) => path'[u] = path[u])
    BY <1>1, <2>3 DEF InFlight
  <2>5. \A g \in Groups : Handled(g) => Handled(g)'
    BY <1>1, <1>2, <2>1, <2>4 DEF Handled
  <2> QED
    BY <1>1, <1>2, <1>3, <2>1, <2>4, <2>5 DEF HandledInv
<1> QED
  BY <1>4, <1>5

LEMMA HandledInvStep ==
  ASSUME Inv, HandledInv, [Next]_vars, scip_errors' = 0
  PROVE  HandledInv'
<1> USE DEF Inv, ColumnsInv
<1>1. CASE MainStep
  BY <1>1 DEF MainStep, ScipRedcost, ScipFarkas, StartPricing, SetArcWeights, PricingReturns, Final, HandledInv
<1>2. CASE StartTasks
  BY <1>2, HandledStart
<1>3. ASSUME NEW t \in Workers, PriceNetwork(t)
      PROVE  HandledInv'
  BY <1>3, HandledTask
<1>4. ASSUME NEW t \in Workers, WorkerStep(t), ~ColumnStep(t)
      PROVE  HandledInv'
  <2>1. phase' # "cg"
    BY <1>4 DEF WorkerStep, ColumnStep, ResetEdgeWeights, StartConstraint, LoadWeight, StoreWeight,
       TypeInv, TaskOK, InSet
  <2> QED
    BY <2>1 DEF HandledInv
<1>5. ASSUME NEW t \in Workers, ColumnStep(t)
      PROVE  HandledInv'
  BY <1>5, HandledColumn
<1>6. CASE UNCHANGED vars
  BY <1>6 DEF vars, scipVars, networkVars, columnVars, sharedVars, HandledInv, Handled, Justified, InFlight
<1> QED
  BY <1>1, <1>2, <1>3, <1>4, <1>5, <1>6 DEF Next, Stopped

LEMMA HandledInvInit == Init => HandledInv
BY DEF Init, HandledInv

(* A round without a new column has computed every network's shortest path *)
(* and found none of negative length.                                      *)
LEMMA RoundFoundNothing ==
  ASSUME Inv, WeightInv, HandledInv, phase = "cg", AllWaited, ~(Len(columns) > solved)
  PROVE  NothingLeft
<1>1. \A i \in DOMAIN columns : ~(i > solved)
  <2>1. Len(columns) \in Nat
    BY DEF Inv, TypeInv, TypeOK
  <2> QED
    BY <2>1, NamesAreNumbers DEF Inv
<1>2. ASSUME NEW g \in Groups
      PROVE  \E p \in PathsOf(g) : IsShortest(p) /\ ~IsNegative(Cost(Length(p)))
  <2>1. fresh[g] /\ ~IsNegative(Cost(cached[g].length))
    BY <1>1 DEF HandledInv, Handled, AllWaited, InFlight
  <2>2. /\ cached[g].path \in Paths
        /\ PathGroup[cached[g].path] = g
        /\ IsShortest(cached[g].path)
        /\ cached[g].length = Length(cached[g].path)
    BY <2>1 DEF Inv, TypeInv, CacheOK, PathRecord, CacheInv, CacheCoherent
  <2> QED
    BY <2>1, <2>2 DEF PathsOf
<1> QED
  BY <1>2, NoneLeft DEF NothingLeft, WeightInv, Inv

OptimalInv == PriceInv /\ (scip_errors = 0 => HandledInv /\ OptimalityGuarantee)

LEMMA OptimalInvInit == Init => OptimalInv
BY PriceInvInit, HandledInvInit DEF Init, OptimalInv, OptimalityGuarantee, Final

LEMMA OptimalInvStep == NoRace /\ OptimalInv /\ [Next]_vars => OptimalInv'
<1> SUFFICES ASSUME NoRace, OptimalInv, [Next]_vars
             PROVE  OptimalInv'
  OBVIOUS
<1>1. PriceInv' /\ AnyStep
  BY PriceInvStep, NextKinds DEF OptimalInv, PriceInv, Inv
<1>2. ASSUME scip_errors' = 0
      PROVE  HandledInv' /\ OptimalityGuarantee'
  <2>1. HandledInv /\ OptimalityGuarantee
    BY <1>1, <1>2, ErrorsKept DEF OptimalInv, PriceInv, Inv
  <2>2. HandledInv'
    BY <1>2, <2>1, HandledInvStep DEF OptimalInv, PriceInv
  <2>3. phase = "cg" /\ AllWaited /\ ~(Len(columns) > solved) => NothingLeft
    BY <2>1, RoundFoundNothing DEF OptimalInv, PriceInv
  <2>4. OptimalityGuarantee'
    BY <1>1, <2>1, <2>3, OptimalityStep DEF OptimalInv, PriceInv, Inv
  <2> QED
    BY <2>2, <2>4
<1> QED
  BY <1>1, <1>2 DEF OptimalInv

(* "We can guarantee either a new variable or optimality": as long as no   *)
(* SCIP call has failed, pricing ends only when no path prices out, up to  *)
(* what the tolerance hides.                                               *)
THEOREM EndsAreOptimal ==
  ASSUME NoRace
  PROVE  Spec => [](scip_errors = 0 => OptimalityGuarantee)
<1>1. OptimalInv => (scip_errors = 0 => OptimalityGuarantee)
  BY DEF OptimalInv
<1>2. OptimalInv /\ [Next]_vars => OptimalInv'
  BY OptimalInvStep
<1> QED
  BY <1>1, <1>2, OptimalInvInit, PTL DEF Spec

(* The threads, tasks, locks and caches of FullPricer implement the        *)
(* abstract column generation, in every run in which no SCIP call fails.   *)
THEOREM FullPricerImplements ==
  ASSUME NoRace
  PROVE  Spec /\ [](scip_errors = 0) => ImplementsColumnGeneration
<1>1. OptimalInv /\ OptimalInv' /\ scip_errors = 0 /\ (scip_errors = 0)' /\ [Next]_vars
        => [Abstract!Next]_(Abstract!absVars)
  BY NextKinds, AbstractStep DEF OptimalInv, PriceInv, Inv
<1>2. OptimalInv /\ [Next]_vars => OptimalInv'
  BY OptimalInvStep
<1> QED
  BY <1>1, <1>2, OptimalInvInit, AbstractInit, PTL DEF Spec, ImplementsColumnGeneration, Abstract!Spec

-----------------------------------------------------------------------------
(* Progress *)

LEMMA NextProgress ==
  ASSUME TypeInv, TypeInv', Next
  PROVE  [Progress]_vars
<1>1. CASE MainStep
  BY <1>1, MainStepProgress
<1>2. CASE StartTasks
  BY <1>2, StartShortestPathsProgress DEF StartTasks
<1>3. ASSUME NEW t \in Workers, WorkerStep(t)
      PROVE  Progress
  BY <1>3, WorkerStepProgress
<1>4. ASSUME NEW t \in Workers, PriceNetwork(t)
      PROVE  Progress
  <2>1. PICK g \in pending : pending' = pending \ {g}
    BY <1>4 DEF PriceNetwork
  <2>2. phase = "cg" /\ UNCHANGED <<phase, solved>>
    BY <1>4 DEF PriceNetwork, scipVars
  <2> QED
    BY <2>1, <2>2, TaskProgress
<1> QED
  BY <1>1, <1>2, <1>3, <1>4 DEF Next, Stopped

(* Whatever the threads do, and whatever SCIP call fails, a step brings    *)
(* the solve nearer to its end: a task, the phases of the round, or one    *)
(* more column than the round before had.  What it counts is natural       *)
(* numbers, which do not go down for ever.                                 *)
THEOREM SolveAlwaysProgresses == Spec => SolveProgresses /\ []Measured
<1>1. TypeInv /\ TypeInv' /\ [Next]_vars => [Progress]_vars
  BY NextProgress
<1> QED
  BY <1>1, MeasuresCounted, TypeInvInit, TypeInvStep, PTL DEF Spec, SolveProgresses

(* SolveProgresses has an end: if SCIP ignores no small number then, as    *)
(* long as no SCIP call has failed, there are no more columns than paths.  *)
THEOREM NoMoreColumnsThanPaths ==
  ASSUME NoRace, Epsilon = 0, IsFiniteSet(Paths)
  PROVE  Spec => [](scip_errors = 0 => Len(columns) <= Cardinality(Paths))
<1>1. TypeInv /\ (scip_errors = 0 => NoDuplicateColumn)
        => (scip_errors = 0 => Len(columns) <= Cardinality(Paths))
  BY ColumnsBounded
<1>2. Spec => [](scip_errors = 0 => NoDuplicateColumn)
  BY NoPathTwice
<1> QED
  BY <1>1, <1>2, TypeInvInit, TypeInvStep, PTL DEF Spec

-----------------------------------------------------------------------------

LEMMA NextMutexInv == TypeInv /\ MutexInv /\ [Next]_vars => MutexInv'
<1> SUFFICES ASSUME TypeInv, MutexInv, [Next]_vars
             PROVE  MutexInv'
  OBVIOUS
<1>1. CASE MainStep
  BY <1>1, MainStepMutexInv
<1>2. CASE StartTasks
  BY <1>2, StartShortestPathsMutexInv DEF StartTasks
<1>3. ASSUME NEW t \in Workers, WorkerStep(t)
      PROVE  MutexInv'
  BY <1>3, WorkerStepMutexInv
<1>4. ASSUME NEW t \in Workers, PriceNetwork(t)
      PROVE  MutexInv'
  BY <1>4 DEF PriceNetwork, sharedVars, MutexInv
<1>5. CASE UNCHANGED vars
  BY <1>5 DEF vars, sharedVars, MutexInv
<1> QED
  BY <1>1, <1>2, <1>3, <1>4, <1>5 DEF Next, Stopped

(* With any number of threads and of errors: somebody can go on, or a SCIP *)
(* call has failed between lock() and unlock() and a task wants the mutex. *)
THEOREM HangsOnlyAfterErrors == Spec => []HangsOnlyAfterError
<1>1. TypeInv /\ MutexInv => HangsOnlyAfterError
  BY HangNeedsError
<1> QED
  BY <1>1, TypeInvInit, TypeInvStep, MutexInvInit, NextMutexInv, PTL DEF Spec

=============================================================================
