---------------------------- MODULE Pricers_proofs ----------------------------
(***************************************************************************)
(* Theorems about KShortestPricer and about the pricer that exec_main      *)
(* chooses, for every data, every number of threads, every K and every     *)
(* bound.  The configuration is read once, so a behavior of the program is *)
(* one of FullPricer or one of KShortestPricer, and what is proved about   *)
(* both of them holds.                                                     *)
(***************************************************************************)
EXTENDS Pricers, FullPricer_proofs

(* Once its task is done found holds a path of the network. *)
FoundOK ==
  /\ found \in [Groups -> PathRecord \cup {EmptyPath}]
  /\ \A g \in Groups : phase = "cg" \/ (phase = "paths" /\ g \notin pending) => found[g] \in PathRecord

KTypeInv == TypeInv /\ FoundOK

LEMMA FindPathTypeInv ==
  ASSUME KTypeInv, NEW t \in Workers, FindPath(t)
  PROVE  KTypeInv'
<1>1. /\ phase = "paths"
      /\ UNCHANGED <<phase, pc, scipVars, weight, weightVars, columnVars, sharedVars>>
  BY DEF FindPath
<1>2. PICK g \in pending : \E r \in ShortestPaths(g) :
        pending' = pending \ {g} /\ CacheShortestPath(g, r) /\ found' = [found EXCEPT ![g] = r]
  BY DEF FindPath
<1>3. PICK r \in ShortestPaths(g) :
        pending' = pending \ {g} /\ CacheShortestPath(g, r) /\ found' = [found EXCEPT ![g] = r]
  BY <1>2
<1>4. g \in Groups /\ pending \subseteq Groups
  BY <1>1 DEF KTypeInv, TypeInv, QueueOK
<1>5. r \in PathRecord /\ PathGroup[r.path] = g
  BY <1>4, ShortestPathsType DEF KTypeInv
<1>6. fresh' = [fresh EXCEPT ![g] = TRUE] /\ cached' = [cached EXCEPT ![g] = r]
  BY <1>3 DEF CacheShortestPath
<1>7. TypeOK'
  BY <1>1, <1>3, <1>4, <1>5, <1>6 DEF KTypeInv, TypeInv, TypeOK, scipVars, weightVars, columnVars, sharedVars
<1>8. QueueOK' /\ CacheOK'
  BY <1>1, <1>3, <1>4, <1>5, <1>6 DEF KTypeInv, TypeInv, TypeOK, QueueOK, CacheOK, Final
<1>9. \A u \in Workers : TaskOK(u)'
  BY <1>1 DEF KTypeInv, TypeInv, TaskOK, weightVars, columnVars
<1>10. FoundOK'
  BY <1>1, <1>3, <1>4, <1>5 DEF KTypeInv, FoundOK
<1> QED
  BY <1>7, <1>8, <1>9, <1>10 DEF KTypeInv, TypeInv

(* The selected networks are networks of the pool's next tasks. *)
LEMMA SelectPathsTypeInv ==
  ASSUME KTypeInv, SelectPaths
  PROVE  KTypeInv'
<1>1. PICK S \in Selections : pending' = pending \cup S
  BY DEF SelectPaths, Post
<1>2. S \subseteq Groups
  BY DEF Selections, NegativeLengthPaths
<1>3. /\ phase = "paths" /\ phase' = "cg" /\ pending = {} /\ \A u \in Workers : pc[u] = "idle"
      /\ UNCHANGED <<pc, scipVars, networkVars, weightVars, columnVars, sharedVars, found>>
  BY DEF SelectPaths, AllWaited
<1>4. pending' \subseteq Groups
  BY <1>1, <1>2, <1>3
<1>5. TypeOK'
  BY <1>3, <1>4 DEF KTypeInv, TypeInv, TypeOK, scipVars, networkVars, weightVars, columnVars, sharedVars
<1>6. QueueOK' /\ CacheOK' /\ FoundOK'
  BY <1>3, <1>4 DEF KTypeInv, TypeInv, QueueOK, CacheOK, FoundOK, Final, networkVars
<1>7. \A u \in Workers : TaskOK(u)'
  BY <1>3 DEF TaskOK, InSet, InColumn
<1> QED
  BY <1>5, <1>6, <1>7 DEF KTypeInv, TypeInv

LEMMA PricePathTypeInv ==
  ASSUME KTypeInv, NEW t \in Workers, PricePath(t)
  PROVE  KTypeInv'
<1>1. /\ phase = "cg" /\ pc[t] = "idle"
      /\ UNCHANGED <<phase, scipVars, networkVars, weightVars, varname, var, left, sharedVars, found>>
  BY DEF PricePath
<1>2. PICK g \in pending :
        /\ pending' = pending \ {g}
        /\ \/ pc' = [pc EXCEPT ![t] = "name"] /\ path' = [path EXCEPT ![t] = found[g].path]
           \/ UNCHANGED <<pc, path>>
  BY DEF PricePath, BeginColumn
<1>3. g \in Groups /\ pending \subseteq Groups
  BY <1>1 DEF KTypeInv, TypeInv, QueueOK
<1>4. found[g].path \in Paths
  BY <1>1, <1>3 DEF KTypeInv, FoundOK, PathRecord
<1>5. TypeOK'
  BY <1>1, <1>2, <1>3, <1>4 DEF KTypeInv, TypeInv, TypeOK, scipVars, networkVars, weightVars, sharedVars
<1>6. QueueOK' /\ CacheOK' /\ FoundOK'
  BY <1>1, <1>2, <1>3 DEF KTypeInv, TypeInv, QueueOK, CacheOK, FoundOK, Final, networkVars
<1>7. \A u \in Workers : TaskOK(u)'
  BY <1>1, <1>2, <1>4 DEF KTypeInv, TypeInv, TypeOK, TaskOK, InSet, InColumn, weightVars
<1> QED
  BY <1>5, <1>6, <1>7 DEF KTypeInv, TypeInv

LEMMA WorkerStepFoundOK ==
  ASSUME KTypeInv, NEW t \in Workers, WorkerStep(t), UNCHANGED found
  PROVE  KTypeInv'
<1>1. TypeInv'
  BY WorkerStepTypeInv DEF KTypeInv
<1>2. phase' = phase /\ (phase \notin {"zero", "set"} => pending' = pending)
  BY DEF WorkerStep, ResetEdgeWeights, StartConstraint, LoadWeight, StoreWeight, NameVariable,
     CreateVariable, CreateVariableFails, AddCoefficient, AddCoefficientFails, RegisterPath, CountPath
<1> QED
  BY <1>1, <1>2 DEF KTypeInv, FoundOK

LEMMA MainStepFoundOK ==
  ASSUME KTypeInv, MainStep, UNCHANGED found
  PROVE  KTypeInv'
<1>1. TypeInv'
  BY MainStepTypeInv DEF KTypeInv
<1>2. phase' \notin {"paths", "cg"}
  BY DEF MainStep, ScipRedcost, ScipFarkas, StartPricing, SetArcWeights, PricingReturns, Final
<1> QED
  BY <1>1, <1>2 DEF KTypeInv, FoundOK

LEMMA StartPathTasksFoundOK ==
  ASSUME KTypeInv, StartPathTasks
  PROVE  KTypeInv'
<1>1. TypeInv'
  BY StartShortestPathsTypeInv DEF KTypeInv, StartPathTasks
<1>2. phase' = "paths" /\ Groups \subseteq pending' /\ UNCHANGED found
  BY DEF StartPathTasks, StartShortestPaths, Post
<1> QED
  BY <1>1, <1>2 DEF KTypeInv, FoundOK

LEMMA KTypeInvInit == KInit => KTypeInv
BY DEF KInit, Init, KTypeInv, FoundOK, TypeInv, TypeOK, QueueOK, CacheOK, TaskOK, InSet, InColumn, Final

LEMMA KTypeInvStep == KTypeInv /\ [KNext]_kvars => KTypeInv'
<1> SUFFICES ASSUME KTypeInv, [KNext]_kvars
             PROVE  KTypeInv'
  OBVIOUS
<1>1. CASE Main
  BY <1>1, MainStepFoundOK, StartPathTasksFoundOK, SelectPathsTypeInv DEF Main
<1>2. ASSUME NEW t \in Workers, Worker(t)
      PROVE  KTypeInv'
  BY <1>2, WorkerStepFoundOK, FindPathTypeInv, PricePathTypeInv DEF Worker
<1>3. CASE UNCHANGED kvars
  BY <1>3 DEF kvars, vars, scipVars, networkVars, weightVars, columnVars, sharedVars,
     KTypeInv, FoundOK, TypeInv, TypeOK, QueueOK, CacheOK, TaskOK
<1> QED
  BY <1>1, <1>2, <1>3 DEF KNext, Stopped, kvars

(* Every reachable state of KShortestPricer has the types of KTypeOK.      *)
THEOREM KTypeCorrect == KSpec => []KTypeOK
<1>1. KTypeInv => KTypeOK
  BY DEF KTypeInv, FoundOK, TypeInv, KTypeOK
<1> QED
  BY <1>1, KTypeInvInit, KTypeInvStep, PTL DEF KSpec

-----------------------------------------------------------------------------

LEMMA KWeightInvStep == NoRace /\ KTypeInv /\ WeightInv /\ [KNext]_kvars => WeightInv'
<1> SUFFICES ASSUME NoRace, TypeInv, WeightInv, [KNext]_kvars
             PROVE  WeightInv'
  BY DEF KTypeInv
<1>1. CASE MainStep
  BY <1>1, MainStepWeightInv
<1>2. CASE StartPathTasks
  BY <1>2, StartShortestPathsWeightInv DEF StartPathTasks
<1>3. CASE SelectPaths
  <2>1. phase = "paths" /\ phase' = "cg" /\ UNCHANGED <<dual, weight>>
    BY <1>3 DEF SelectPaths, scipVars, networkVars
  <2> QED
    BY <2>1 DEF WeightInv, WeightsComplete
<1>4. ASSUME NEW t \in Workers, WorkerStep(t)
      PROVE  WeightInv'
  BY <1>4, WorkerStepWeightInv
<1>5. ASSUME NEW t \in Workers, FindPath(t) \/ PricePath(t)
      PROVE  WeightInv'
  <2>1. phase \in {"paths", "cg"} /\ UNCHANGED <<phase, dual, weight>>
    BY <1>5 DEF FindPath, PricePath, scipVars, networkVars
  <2> QED
    BY <2>1, WeightKept
<1>6. CASE UNCHANGED kvars
  <2>1. UNCHANGED <<phase, dual, weight, pending, pc, job, pos, loaded>>
    BY <1>6 DEF kvars, vars, scipVars, networkVars, weightVars
  <2> QED
    BY <2>1, WeightKept
<1> QED
  BY <1>1, <1>2, <1>3, <1>4, <1>5, <1>6 DEF KNext, Main, Worker, Stopped, kvars

LEMMA KWeightInvInit == KInit => WeightInv
BY DEF KInit, Init, WeightInv, WeightsComplete

(* With one thread, or if no y-variable is in two constraints, every edge  *)
(* has the contribution of each of its constraints when the shortest paths *)
(* are computed and compared.                                              *)
THEOREM KWeightsAreComplete ==
  ASSUME NoRace
  PROVE  KSpec => []WeightsComplete
<1>1. WeightInv => WeightsComplete
  BY DEF WeightInv
<1>2. KTypeInv /\ WeightInv /\ [KNext]_kvars => WeightInv'
  BY KWeightInvStep
<1> QED
  BY <1>1, <1>2, KTypeInvInit, KTypeInvStep, KWeightInvInit, PTL DEF KSpec

-----------------------------------------------------------------------------
(* The cached paths *)

LEMMA KCacheInvInit == KInit => CacheInv
BY DEF KInit, Init, CacheInv, CacheCoherent

LEMMA FindPathCacheInv ==
  ASSUME TypeInv, CacheInv, NEW t \in Workers, FindPath(t)
  PROVE  CacheInv'
<1>1. PICK g \in pending : \E r \in ShortestPaths(g) : CacheShortestPath(g, r)
  BY DEF FindPath
<1>2. PICK r \in ShortestPaths(g) : CacheShortestPath(g, r)
  BY <1>1
<1>3. g \in Groups /\ phase = "paths" /\ UNCHANGED <<weight, pc, job, pos>>
  BY DEF FindPath, TypeInv, QueueOK, weightVars
<1>4. CacheCoherent'
  BY <1>2, <1>3, CachedIsShortest
<1>5. \A u \in Workers : pc'[u] # "store"
  BY <1>3 DEF TypeInv, TaskOK, InSet
<1> QED
  BY <1>4, <1>5 DEF CacheInv

(* A step that touches neither weights nor caches. *)
LEMMA CacheInvKept ==
  ASSUME TypeInv, CacheInv, UNCHANGED <<fresh, cached, weight, job, pos>>,
         \A t \in Workers : pc'[t] = "store" => pc[t] = "store"
  PROVE  CacheInv'
<1>1. CacheCoherent'
  BY CoherentKept DEF CacheInv
<1> QED
  BY <1>1 DEF CacheInv, ArcAt

LEMMA KCacheInvStep == KTypeInv /\ CacheInv /\ [KNext]_kvars => CacheInv'
<1> SUFFICES ASSUME TypeInv, CacheInv, [KNext]_kvars
             PROVE  CacheInv'
  BY DEF KTypeInv
<1>1. CASE MainStep
  BY <1>1, MainStepCacheInv
<1>2. CASE StartPathTasks
  BY <1>2, StartShortestPathsCacheInv DEF StartPathTasks
<1>3. CASE SelectPaths
  <2>1. UNCHANGED <<fresh, cached, weight, job, pos, pc>>
    BY <1>3 DEF SelectPaths, networkVars, weightVars
  <2> QED
    BY <2>1, CacheInvKept
<1>4. ASSUME NEW t \in Workers, WorkerStep(t)
      PROVE  CacheInv'
  BY <1>4, WorkerStepCacheInv
<1>5. ASSUME NEW t \in Workers, FindPath(t)
      PROVE  CacheInv'
  BY <1>5, FindPathCacheInv
<1>6. ASSUME NEW t \in Workers, PricePath(t)
      PROVE  CacheInv'
  <2>1. /\ UNCHANGED <<fresh, cached, weight, job, pos>>
        /\ pc' = [pc EXCEPT ![t] = "name"] \/ pc' = pc
    BY <1>6 DEF PricePath, BeginColumn, networkVars, weightVars
  <2>2. \A u \in Workers : pc'[u] = "store" => pc[u] = "store"
    BY <2>1 DEF TypeInv, TypeOK
  <2> QED
    BY <2>1, <2>2, CacheInvKept
<1>7. CASE UNCHANGED kvars
  <2>1. UNCHANGED <<fresh, cached, weight, job, pos, pc>>
    BY <1>7 DEF kvars, vars, networkVars, weightVars
  <2> QED
    BY <2>1, CacheInvKept
<1> QED
  BY <1>1, <1>2, <1>3, <1>4, <1>5, <1>6, <1>7 DEF KNext, Main, Worker, Stopped, kvars

(* With any number of threads, with lost updates and with failing SCIP     *)
(* calls: a path that shortest_path returns from its cache is a shortest   *)
(* one under the current weights, and its length is up to date.            *)
THEOREM KCacheIsCoherent == KSpec => []CacheCoherent
<1>1. KTypeInv /\ CacheInv => CacheCoherent
  BY DEF CacheInv
<1> QED
  BY <1>1, KTypeInvInit, KTypeInvStep, KCacheInvInit, KCacheInvStep, PTL DEF KSpec

-----------------------------------------------------------------------------
(* What the futures of path_futures give stays a shortest path and its     *)
(* length until the round is over: nobody changes a weight.                *)

Found(g) ==
  /\ found[g].path \in PathsOf(g)
  /\ found[g].length = Length(found[g].path)
  /\ IsShortest(found[g].path)

FoundInv == \A g \in Groups : phase = "cg" \/ (phase = "paths" /\ g \notin pending) => Found(g)

LEMMA FoundKept ==
  ASSUME UNCHANGED <<weight, found>>
  PROVE  \A g : Found(g) => Found(g)'
BY DEF Found, IsShortest, Length

LEMMA FindPathFoundInv ==
  ASSUME KTypeInv, CacheInv, FoundInv, NEW t \in Workers, FindPath(t)
  PROVE  FoundInv'
<1>1. phase = "paths" /\ UNCHANGED <<phase, weight>>
  BY DEF FindPath
<1>2. PICK g \in pending : \E r \in ShortestPaths(g) :
        pending' = pending \ {g} /\ found' = [found EXCEPT ![g] = r]
  BY DEF FindPath
<1>3. PICK r \in ShortestPaths(g) :
        pending' = pending \ {g} /\ found' = [found EXCEPT ![g] = r]
  BY <1>2
<1>4. g \in Groups
  BY <1>1 DEF KTypeInv, TypeInv, QueueOK
<1>5. r.path \in PathsOf(g) /\ r.length = Length(r.path) /\ IsShortest(r.path)
  BY <1>4, ShortestPathsShortest DEF KTypeInv
<1>6. found'[g] = r /\ \A h \in Groups \ {g} : found'[h] = found[h]
  BY <1>3, <1>4 DEF KTypeInv, FoundOK
<1>7. \A p : Length(p)' = Length(p) /\ IsShortest(p)' = IsShortest(p)
  BY <1>1 DEF Length, IsShortest
<1>8. Found(g)'
  BY <1>5, <1>6, <1>7 DEF Found
<1>9. \A h \in Groups \ {g} : Found(h) => Found(h)'
  BY <1>6, <1>7 DEF Found
<1> QED
  BY <1>1, <1>3, <1>8, <1>9 DEF FoundInv

LEMMA FoundInvStep == KTypeInv /\ CacheInv /\ FoundInv /\ [KNext]_kvars => FoundInv'
<1> SUFFICES ASSUME KTypeInv, CacheInv, FoundInv, [KNext]_kvars
             PROVE  FoundInv'
  OBVIOUS
<1>1. CASE MainStep
  BY <1>1 DEF MainStep, ScipRedcost, ScipFarkas, StartPricing, SetArcWeights, PricingReturns, Final, FoundInv
<1>2. CASE StartPathTasks
  BY <1>2 DEF StartPathTasks, StartShortestPaths, Post, FoundInv
<1>3. CASE SelectPaths
  <2>1. phase = "paths" /\ pending = {} /\ UNCHANGED <<weight, found>>
    BY <1>3 DEF SelectPaths, AllWaited, networkVars
  <2> QED
    BY <2>1, FoundKept DEF FoundInv
<1>4. ASSUME NEW t \in Workers, WorkerStep(t), UNCHANGED found
      PROVE  FoundInv'
  <2>1. CASE phase \in {"zero", "set"}
    <3>1. phase' = phase
      BY <1>4 DEF WorkerStep, ResetEdgeWeights, StartConstraint, LoadWeight, StoreWeight, NameVariable,
         CreateVariable, CreateVariableFails, AddCoefficient, AddCoefficientFails, RegisterPath, CountPath
    <3> QED
      BY <2>1, <3>1 DEF FoundInv
  <2>2. CASE phase \notin {"zero", "set"}
    <3>1. ColumnStep(t)
      BY <1>4, <2>2 DEF WorkerStep, ColumnStep, ResetEdgeWeights, StartConstraint, LoadWeight, StoreWeight,
         KTypeInv, TypeInv, TaskOK, InSet
    <3>2. UNCHANGED <<phase, pending, weight>>
      BY <3>1 DEF ColumnStep, NameVariable, CreateVariable, CreateVariableFails, AddCoefficient,
         AddCoefficientFails, RegisterPath, CountPath, networkVars
    <3> QED
      BY <1>4, <3>2, FoundKept DEF FoundInv
  <2> QED
    BY <2>1, <2>2
<1>5. ASSUME NEW t \in Workers, FindPath(t)
      PROVE  FoundInv'
  BY <1>5, FindPathFoundInv
<1>6. ASSUME NEW t \in Workers, PricePath(t)
      PROVE  FoundInv'
  <2>1. phase = "cg" /\ UNCHANGED <<phase, weight, found>>
    BY <1>6 DEF PricePath, networkVars
  <2> QED
    BY <2>1, FoundKept DEF FoundInv
<1>7. CASE UNCHANGED kvars
  <2>1. UNCHANGED <<phase, pending, weight, found>>
    BY <1>7 DEF kvars, vars, networkVars
  <2> QED
    BY <2>1, FoundKept DEF FoundInv
<1> QED
  BY <1>1, <1>2, <1>3, <1>4, <1>5, <1>6, <1>7 DEF KNext, Main, Worker, Stopped, kvars

LEMMA FoundInvInit == KInit => FoundInv
BY DEF KInit, Init, FoundInv

-----------------------------------------------------------------------------
(* The columns *)

LEMMA PricePathTakesTask ==
  ASSUME KTypeInv, FoundInv, NEW t \in Workers, PricePath(t)
  PROVE  TakeTask(t)
<1>1. /\ phase = "cg" /\ pc[t] = "idle"
      /\ UNCHANGED <<phase, scipVars, networkVars, weightVars, varname, var, left, sharedVars, found>>
  BY DEF PricePath
<1>2. PICK g \in pending :
        /\ pending' = pending \ {g}
        /\ IF IsNegative(LengthFound(g)) THEN BeginColumn(t, found[g].path) ELSE UNCHANGED <<pc, path>>
  BY DEF PricePath
<1>3. g \in Groups
  BY <1>1 DEF KTypeInv, TypeInv, QueueOK
<1>4. found[g].path \in PathsOf(g) /\ LengthFound(g) = Cost(Length(found[g].path))
  BY <1>1, <1>3 DEF FoundInv, Found, LengthFound
<1> QED
  BY <1>1, <1>2, <1>4 DEF TakeTask, scipVars, sharedVars

LEMMA KNextKinds ==
  ASSUME KTypeInv, FoundInv, [KNext]_kvars
  PROVE  AnyStep
<1>1. CASE MainStep
  BY <1>1, MainStepKinds DEF AnyStep
<1>2. CASE StartPathTasks
  BY <1>2, StartShortestPathsKind DEF StartPathTasks, AnyStep
<1>3. CASE SelectPaths
  BY <1>3 DEF SelectPaths, AnyStep, QuietStep, scipVars, columnVars, sharedVars, Final
<1>4. ASSUME NEW t \in Workers, WorkerStep(t)
      PROVE  AnyStep
  BY <1>4, WorkerStepKinds DEF AnyStep, KTypeInv
<1>5. ASSUME NEW t \in Workers, FindPath(t)
      PROVE  AnyStep
  BY <1>5 DEF FindPath, AnyStep, QuietStep, scipVars, columnVars, sharedVars
<1>6. ASSUME NEW t \in Workers, PricePath(t)
      PROVE  AnyStep
  BY <1>6, PricePathTakesTask DEF AnyStep
<1>7. CASE UNCHANGED kvars
  BY <1>7, StutterKind DEF AnyStep, kvars
<1> QED
  BY <1>1, <1>2, <1>3, <1>4, <1>5, <1>6, <1>7 DEF KNext, Main, Worker, Stopped, kvars

(* The invariant of every instance. *)
KInv == KTypeInv /\ CacheInv /\ FoundInv /\ ColumnsInv

LEMMA KInvInit == KInit => KInv
BY KTypeInvInit, KCacheInvInit, FoundInvInit, ColumnsInvInit DEF KInv, KInit

LEMMA KInvStep == KInv /\ [KNext]_kvars => KInv'
<1> SUFFICES ASSUME KInv, [KNext]_kvars
             PROVE  KInv'
  OBVIOUS
<1>1. KTypeInv' /\ CacheInv' /\ FoundInv' /\ AnyStep
  BY KTypeInvStep, KCacheInvStep, FoundInvStep, KNextKinds DEF KInv
<1> QED
  BY <1>1, ColumnsInvStep DEF KInv, KTypeInv

(* SCIP never solves an LP with a half-built column, but one for each SCIP *)
(* call that failed.                                                       *)
THEOREM KColumnsAreComplete == KSpec => []ColumnsComplete
<1>1. KInv => ColumnsComplete
  BY CoefficientsOfColumns DEF KInv, KTypeInv, ColumnsInv
<1> QED
  BY <1>1, KInvInit, KInvStep, PTL DEF KSpec

(* A new variable has no name of an earlier round. *)
THEOREM KNamesStayFresh == KSpec => []NamesFreshAcrossRounds
<1>1. KInv => NamesFreshAcrossRounds
  BY NamesOfRounds DEF KInv, KTypeInv, ColumnsInv
<1> QED
  BY <1>1, KInvInit, KInvStep, PTL DEF KSpec

(* When the solve is over, get_path finds for each variable a path, that   *)
(* of a variable of the same name.                                         *)
THEOREM KStoredPathsFit == KSpec => []StoredPathFits
<1>1. KInv => StoredPathFits
  BY StoredPaths DEF KInv, KTypeInv, ColumnsInv
<1> QED
  BY <1>1, KInvInit, KInvStep, PTL DEF KSpec

(* With one thread it finds the variable's own path. *)
THEOREM KOwnPathsStored ==
  ASSUME OneThread
  PROVE  KSpec => []PathOfVariable
<1>1. KInv /\ UniqueInv => PathOfVariable
  BY OwnPaths DEF KInv, KTypeInv, ColumnsInv
<1>2. KInv /\ UniqueInv /\ [KNext]_kvars => UniqueInv'
  BY KNextKinds, UniqueInvStep DEF KInv, KTypeInv, ColumnsInv
<1>3. KInit => UniqueInv
  BY UniqueInvInit DEF KInit
<1> QED
  BY <1>1, <1>2, <1>3, KInvInit, KInvStep, PTL DEF KSpec

-----------------------------------------------------------------------------
(* Prices.  The weights have to be complete: no lost update.               *)

KPriceInv == KInv /\ WeightInv /\ PricedOutInv

LEMMA KPriceInvInit == KInit => KPriceInv
BY KInvInit, KWeightInvInit, PricedOutInit DEF KPriceInv, KInit

LEMMA KPriceInvStep == NoRace /\ KPriceInv /\ [KNext]_kvars => KPriceInv'
<1> SUFFICES ASSUME NoRace, KPriceInv, [KNext]_kvars
             PROVE  KPriceInv'
  OBVIOUS
<1>1. KInv' /\ WeightInv' /\ AnyStep
  BY KInvStep, KWeightInvStep, KNextKinds DEF KPriceInv, KInv
<1> QED
  BY <1>1, PricedOutStep DEF KPriceInv, KInv, KTypeInv, ColumnsInv, WeightInv

(* A variable is added only for a path that prices out under the duals of  *)
(* the round, up to what the tolerance hides, and once in a round.         *)
THEOREM KNewColumnsAllPriceOut ==
  ASSUME NoRace
  PROVE  KSpec => []ColumnsPriceOut
<1>1. KPriceInv => ColumnsPriceOut
  BY NewColumnsPriceOut DEF KPriceInv, KInv, KTypeInv, ColumnsInv
<1>2. KPriceInv /\ [KNext]_kvars => KPriceInv'
  BY KPriceInvStep
<1> QED
  BY <1>1, <1>2, KPriceInvInit, PTL DEF KSpec

(* If SCIP ignores no small number: as long as no SCIP call has failed,    *)
(* generate_columns is never called for a path that is a variable.         *)
THEOREM KNoPathTwice ==
  ASSUME NoRace, Epsilon = 0
  PROVE  KSpec => [](scip_errors = 0 => NoDuplicateColumn)
<1> DEFINE I == KPriceInv /\ (scip_errors = 0 => LpInv /\ NoDuplicateColumn)
<1>1. KInit => I
  BY KPriceInvInit, LpInvInit DEF KInit, Init, NoDuplicateColumn
<1>2. I /\ [KNext]_kvars => I'
  <2> SUFFICES ASSUME I, [KNext]_kvars
               PROVE  I'
    OBVIOUS
  <2>1. KPriceInv' /\ AnyStep
    BY KPriceInvStep, KNextKinds DEF KPriceInv, KInv
  <2>2. ASSUME scip_errors' = 0
        PROVE  LpInv' /\ NoDuplicateColumn'
    BY <2>1, <2>2, ErrorsKept, LpInvStep, NoDuplicateStep DEF KPriceInv, KInv, KTypeInv, ColumnsInv
  <2> QED
    BY <2>1, <2>2
<1> QED
  BY <1>1, <1>2, PTL DEF KSpec

-----------------------------------------------------------------------------
(* The selection.  A network is chosen if its task of phase "cg" has not   *)
(* started, is on its way to SCIPaddPricedVar or has added a column.  As   *)
(* long as no SCIP call fails the chosen ones remain what SelectPaths took.*)

Chosen ==
  {g \in Groups : \/ g \in pending
                  \/ \E t \in Workers : InFlight(t) /\ GroupOfTask(t) = g
                  \/ \E i \in DOMAIN columns : i > solved /\ GroupOfColumn(i) = g}

SelectedInv == phase = "cg" => Chosen \in Selections

LEMMA SelectionsKept ==
  ASSUME UNCHANGED found
  PROVE  Selections' = Selections /\ NegativeLengthPaths' = NegativeLengthPaths
BY DEF Selections, NegativeLengthPaths, LengthFound

LEMMA SelectedNegative ==
  ASSUME NEW S \in Selections
  PROVE  S \subseteq NegativeLengthPaths
BY DEF Selections

LEMMA SelectedStart ==
  ASSUME KTypeInv, RoundInv, SelectPaths
  PROVE  SelectedInv'
<1>1. /\ phase = "paths" /\ pending = {} /\ \A t \in Workers : pc[t] = "idle"
      /\ UNCHANGED <<pc, path, columns, solved, found>>
  BY DEF SelectPaths, AllWaited, scipVars, columnVars, sharedVars
<1>2. PICK S \in Selections : pending' = pending \cup S
  BY DEF SelectPaths, Post
<1>3. S \subseteq Groups
  BY SelectedNegative DEF NegativeLengthPaths
<1>4. \A i \in DOMAIN columns : ~(i > solved)
  BY <1>1, NamesAreNumbers DEF RoundInv, KTypeInv
<1>5. Chosen' = S
  BY <1>1, <1>2, <1>3, <1>4 DEF Chosen, InFlight
<1> QED
  BY <1>1, <1>5, SelectionsKept DEF SelectedInv

LEMMA SelectedTask ==
  ASSUME KTypeInv, FoundInv, SelectedInv, NEW t \in Workers, PricePath(t)
  PROVE  SelectedInv'
<1>1. /\ phase = "cg" /\ pc[t] = "idle"
      /\ UNCHANGED <<phase, columns, solved, found>>
  BY DEF PricePath, scipVars, sharedVars
<1>2. PICK g \in pending :
        /\ pending' = pending \ {g}
        /\ IF IsNegative(LengthFound(g)) THEN BeginColumn(t, found[g].path) ELSE UNCHANGED <<pc, path>>
  BY DEF PricePath
<1>3. g \in Groups /\ pending \subseteq Groups
  BY <1>1 DEF KTypeInv, TypeInv, QueueOK
<1>4. Chosen \in Selections
  BY <1>1 DEF SelectedInv
<1>5. IsNegative(LengthFound(g))
  <2>1. g \in Chosen
    BY <1>3 DEF Chosen
  <2> QED
    BY <1>4, <2>1, SelectedNegative DEF NegativeLengthPaths
<1>6. PathGroup[found[g].path] = g
  BY <1>1, <1>3 DEF FoundInv, Found, PathsOf
<1>7. /\ pc'[t] = "name" /\ path'[t] = found[g].path
      /\ \A u \in Workers \ {t} : pc'[u] = pc[u] /\ path'[u] = path[u]
  BY <1>2, <1>5 DEF BeginColumn, KTypeInv, TypeInv, TypeOK
<1>8. /\ InFlight(t)' /\ GroupOfTask(t)' = g /\ ~InFlight(t)
      /\ \A u \in Workers \ {t} : InFlight(u)' = InFlight(u) /\ GroupOfTask(u)' = GroupOfTask(u)
  BY <1>1, <1>6, <1>7 DEF InFlight, GroupOfTask
<1>9. \A i : GroupOfColumn(i)' = GroupOfColumn(i)
  BY <1>1 DEF GroupOfColumn
<1>10. Chosen' = Chosen
  BY <1>1, <1>2, <1>8, <1>9 DEF Chosen
<1> QED
  BY <1>1, <1>4, <1>10, SelectionsKept DEF SelectedInv

LEMMA SelectedColumn ==
  ASSUME KTypeInv, ColumnInv, SelectedInv, NEW t \in Workers, ColumnStep(t), UNCHANGED found, scip_errors' = 0
  PROVE  SelectedInv'
<1>0. TypeInv
  BY DEF KTypeInv
<1>1. /\ phase = "cg" /\ UNCHANGED <<phase, pending, solved>>
      /\ \A u \in Workers \ {t} : pc'[u] = pc[u] /\ path'[u] = path[u]
  BY <1>0, ColumnStepFrame
<1>2. \A u \in Workers \ {t} : InFlight(u)' = InFlight(u) /\ GroupOfTask(u)' = GroupOfTask(u)
  BY <1>1 DEF InFlight, GroupOfTask
<1>3. CASE CreateVariable(t)
  <2>1. /\ pc[t] = "create" /\ pc'[t] \in {"register", "coeff"}
        /\ \A i \in DOMAIN columns : columns'[i] = columns[i]
        /\ \A i : i \in DOMAIN columns' <=> i \in DOMAIN columns \/ i = NewIndex
        /\ columns'[NewIndex] = [name |-> varname[t], path |-> path[t], coeffs |-> {}]
    BY <1>0, <1>3, CreatedColumn
  <2>2. InFlight(t) /\ ~InFlight(t)'
    BY <2>1 DEF InFlight
  <2>3. NewIndex > solved
    BY <1>0 DEF ColumnInv, NewIndex, TypeInv, TypeOK
  <2>4. /\ \A i \in DOMAIN columns : GroupOfColumn(i)' = GroupOfColumn(i)
        /\ \A i : i = NewIndex => GroupOfColumn(i)' = GroupOfTask(t)
    BY <2>1 DEF GroupOfColumn, GroupOfTask
  <2>5. \A g \in Groups : g \in Chosen <=> g \in Chosen'
    BY <1>1, <1>2, <2>1, <2>2, <2>3, <2>4 DEF Chosen
  <2>6. Chosen' = Chosen
    BY <2>5 DEF Chosen
  <2> QED
    BY <1>1, <2>6, SelectionsKept DEF SelectedInv
<1>4. CASE ~CreateVariable(t)
  <2>1. /\ DOMAIN columns' = DOMAIN columns
        /\ \A i \in DOMAIN columns : columns'[i].path = columns[i].path
    BY <1>0, <1>4, ColumnsKept
  <2>2. ~CreateVariableFails(t)
    BY <1>0 DEF CreateVariableFails, ScipFails, TypeInv, TypeOK
  <2>3. (InFlight(t) <=> InFlight(t)') /\ (InFlight(t) => path'[t] = path[t])
    BY <1>0, <1>4, <2>2 DEF ColumnStep, NameVariable, AddCoefficient, AddCoefficientFails,
       RegisterPath, CountPath, InFlight, TypeInv, TypeOK
  <2>4. \A u \in Workers : (InFlight(u) <=> InFlight(u)') /\ (InFlight(u) => GroupOfTask(u)' = GroupOfTask(u))
    BY <1>2, <2>3 DEF GroupOfTask
  <2>5. \A i \in DOMAIN columns : GroupOfColumn(i)' = GroupOfColumn(i)
    BY <2>1 DEF GroupOfColumn
  <2>6. \A g \in Groups : g \in Chosen <=> g \in Chosen'
    BY <1>1, <2>1, <2>4, <2>5 DEF Chosen
  <2>7. Chosen' = Chosen
    BY <2>6 DEF Chosen
  <2> QED
    BY <1>1, <2>7, SelectionsKept DEF SelectedInv
<1> QED
  BY <1>3, <1>4

LEMMA SelectedInvStep ==
  ASSUME KInv, SelectedInv, [KNext]_kvars, scip_errors' = 0
  PROVE  SelectedInv'
<1> USE DEF KInv, ColumnsInv
<1>1. CASE MainStep
  BY <1>1 DEF MainStep, ScipRedcost, ScipFarkas, StartPricing, SetArcWeights, PricingReturns, Final, SelectedInv
<1>2. CASE StartPathTasks
  BY <1>2 DEF StartPathTasks, StartShortestPaths, SelectedInv
<1>3. CASE SelectPaths
  BY <1>3, SelectedStart
<1>4. ASSUME NEW t \in Workers, WorkerStep(t), ~ColumnStep(t)
      PROVE  SelectedInv'
  <2>1. phase' # "cg"
    BY <1>4 DEF WorkerStep, ColumnStep, ResetEdgeWeights, StartConstraint, LoadWeight, StoreWeight,
       KTypeInv, TypeInv, TaskOK, InSet
  <2> QED
    BY <2>1 DEF SelectedInv
<1>5. ASSUME NEW t \in Workers, ColumnStep(t), UNCHANGED found
      PROVE  SelectedInv'
  BY <1>5, SelectedColumn
<1>6. ASSUME NEW t \in Workers, FindPath(t)
      PROVE  SelectedInv'
  BY <1>6 DEF FindPath, SelectedInv
<1>7. ASSUME NEW t \in Workers, PricePath(t)
      PROVE  SelectedInv'
  BY <1>7, SelectedTask
<1>8. CASE UNCHANGED kvars
  <2>1. UNCHANGED <<phase, pending, pc, path, columns, solved, found>>
    BY <1>8 DEF kvars, vars, scipVars, columnVars, sharedVars
  <2>2. Chosen' = Chosen
    BY <2>1 DEF Chosen, InFlight, GroupOfTask, GroupOfColumn
  <2> QED
    BY <2>1, <2>2, SelectionsKept DEF SelectedInv
<1> QED
  BY <1>1, <1>2, <1>3, <1>4, <1>5, <1>6, <1>7, <1>8 DEF KNext, Main, Worker, Stopped, kvars

-----------------------------------------------------------------------------

LEMMA SelectedInvInit == KInit => SelectedInv
BY DEF KInit, Init, SelectedInv

SelectionInv == KInv /\ (scip_errors = 0 => SelectedInv)

LEMMA SelectionInvInit == KInit => SelectionInv
BY KInvInit, SelectedInvInit DEF SelectionInv

LEMMA SelectionInvStep == SelectionInv /\ [KNext]_kvars => SelectionInv'
<1> SUFFICES ASSUME SelectionInv, [KNext]_kvars
             PROVE  SelectionInv'
  OBVIOUS
<1>1. KInv' /\ AnyStep
  BY KInvStep, KNextKinds DEF SelectionInv, KInv
<1>2. ASSUME scip_errors' = 0
      PROVE  SelectedInv'
  BY <1>1, <1>2, ErrorsKept, SelectedInvStep DEF SelectionInv, KInv, KTypeInv
<1> QED
  BY <1>1, <1>2 DEF SelectionInv

(* No two new columns have one network. *)
LEMMA OneColumnEach ==
  ASSUME TypeInv, RoundInv
  PROVE  Cardinality({GroupOfColumn(i) : i \in NewColumns}) = Cardinality(NewColumns)
<1> DEFINE N == NewColumns
           A == {GroupOfColumn(i) : i \in N}
           f == [i \in N |-> GroupOfColumn(i)]
<1>1. columns \in Seq(Column)
  BY DEF TypeInv, TypeOK
<1>2. DOMAIN columns = 1 .. Len(columns) /\ Len(columns) \in Nat
  BY <1>1
<1>3. N \subseteq 1 .. Len(columns)
  BY <1>2 DEF NewColumns
<1>4. IsFiniteSet(N)
  <2>1. IsFiniteSet(1 .. Len(columns))
    BY <1>2, FS_Interval
  <2> QED
    BY <1>3, <2>1, FS_Subset
<1>5. f \in Surjection(N, A)
  BY DEF Surjection
<1>6. f \in Injection(N, A)
  <2>1. \A i, j \in N : f[i] = f[j] => i = j
    BY DEF RoundInv, NewColumns
  <2> QED
    BY <2>1 DEF Injection, IsInjective
<1> HIDE DEF N, A, f
<1>7. Cardinality(A) = Cardinality(N)
  BY <1>4, <1>5, <1>6, FS_Surjection
<1> QED
  BY <1>7 DEF A, N

(* What a selection is, with or without more than K negative paths. *)
LEMMA SelectionSize ==
  ASSUME NEW S \in Selections
  PROVE  /\ Cardinality(S) = K \/ (Cardinality(S) < K /\ S = NegativeLengthPaths)
         /\ \A g \in NegativeLengthPaths \ S, h \in S : LengthFound(h) <= LengthFound(g)
<1>1. IsFiniteSet(NegativeLengthPaths)
  BY DataAssumption, FS_Subset DEF NegativeLengthPaths
<1>2. Cardinality(NegativeLengthPaths) \in Nat /\ K \in Nat
  BY <1>1, FS_CardinalityType, KAssumption
<1>3. CASE K < Cardinality(NegativeLengthPaths)
  BY <1>3 DEF Selections
<1>4. CASE ~(K < Cardinality(NegativeLengthPaths))
  <2>1. S = NegativeLengthPaths
    BY <1>4 DEF Selections
  <2> QED
    BY <1>2, <1>4, <2>1
<1> QED
  BY <1>3, <1>4

LEMMA SelectionAdded ==
  ASSUME SelectionInv, scip_errors = 0
  PROVE  KShortestAdded
<1> SUFFICES ASSUME phase = "cg", pending = {}, \A t \in Workers : pc[t] = "idle",
                    NEW added, added = {PathGroup[columns[i].path] : i \in NewColumns}
             PROVE  /\ Cardinality(NewColumns) = Cardinality(added)
                    /\ \/ Cardinality(added) = K
                       \/ Cardinality(added) < K /\ added = NegativeLengthPaths
                    /\ \A g \in Groups \ added :
                         IsNegative(LengthFound(g)) => \A h \in added : LengthFound(h) <= LengthFound(g)
  BY DEF KShortestAdded
<1>1. added = {GroupOfColumn(i) : i \in NewColumns}
  BY DEF GroupOfColumn
<1>2. TypeInv /\ RoundInv
  BY DEF SelectionInv, KInv, KTypeInv, ColumnsInv
<1>3. Cardinality(NewColumns) = Cardinality(added)
  BY <1>1, <1>2, OneColumnEach
<1>4. \A i \in NewColumns : GroupOfColumn(i) \in Groups
  BY <1>2, NamesAreNumbers, DataAssumption DEF NewColumns, GroupOfColumn
<1>5. added = Chosen
  BY <1>1, <1>4 DEF Chosen, InFlight, NewColumns
<1>6. added \in Selections
  BY <1>5 DEF SelectionInv, SelectedInv
<1> QED
  BY <1>3, <1>6, SelectionSize DEF NegativeLengthPaths

(* "Adds only the k shortest negative-length paths as variables": as long  *)
(* as no SCIP call has failed, with any number of threads and even if      *)
(* weights are lost, a round adds the K shortest of the negative paths, or *)
(* all of them if there are no more.                                       *)
THEOREM KShortest == KSpec => [](scip_errors = 0 => KShortestAdded)
<1>1. SelectionInv => (scip_errors = 0 => KShortestAdded)
  BY SelectionAdded
<1> QED
  BY <1>1, SelectionInvInit, SelectionInvStep, PTL DEF KSpec

-----------------------------------------------------------------------------
(* A round without a new column has found a shortest path of each network, *)
(* and none of negative length: K is positive.                             *)
LEMMA KRoundFoundNothing ==
  ASSUME KInv, WeightInv, SelectedInv, phase = "cg", AllWaited, ~(Len(columns) > solved)
  PROVE  NothingLeft
<1>1. \A i \in DOMAIN columns : ~(i > solved)
  <2>1. Len(columns) \in Nat
    BY DEF KInv, KTypeInv, TypeInv, TypeOK
  <2> QED
    BY <2>1, NamesAreNumbers DEF KInv, KTypeInv
<1>2. Chosen = {}
  BY <1>1 DEF Chosen, AllWaited, InFlight
<1>3. {} \in Selections
  BY <1>2 DEF SelectedInv
<1>4. NegativeLengthPaths = {}
  <2>1. Cardinality({}) = 0 /\ K \in Nat \ {0}
    BY FS_EmptySet, KAssumption
  <2> QED
    BY <1>3, <2>1, SelectionSize
<1>5. ASSUME NEW g \in Groups
      PROVE  \E p \in PathsOf(g) : IsShortest(p) /\ ~IsNegative(Cost(Length(p)))
  <2>1. Found(g)
    BY DEF KInv, FoundInv
  <2>2. ~IsNegative(LengthFound(g))
    BY <1>4 DEF NegativeLengthPaths
  <2> QED
    BY <2>1, <2>2 DEF Found, LengthFound
<1> QED
  BY <1>5, NoneLeft DEF NothingLeft, WeightInv, KInv, KTypeInv

KOptimalInv == KPriceInv /\ (scip_errors = 0 => SelectedInv /\ OptimalityGuarantee)

LEMMA KOptimalInvInit == KInit => KOptimalInv
BY KPriceInvInit, SelectedInvInit DEF KInit, Init, KOptimalInv, OptimalityGuarantee, Final

LEMMA KOptimalInvStep == NoRace /\ KOptimalInv /\ [KNext]_kvars => KOptimalInv'
<1> SUFFICES ASSUME NoRace, KOptimalInv, [KNext]_kvars
             PROVE  KOptimalInv'
  OBVIOUS
<1>1. KPriceInv' /\ AnyStep
  BY KPriceInvStep, KNextKinds DEF KOptimalInv, KPriceInv, KInv
<1>2. ASSUME scip_errors' = 0
      PROVE  SelectedInv' /\ OptimalityGuarantee'
  <2>1. SelectedInv /\ OptimalityGuarantee
    BY <1>1, <1>2, ErrorsKept DEF KOptimalInv, KPriceInv, KInv, KTypeInv
  <2>2. SelectedInv'
    BY <1>2, <2>1, SelectedInvStep DEF KOptimalInv, KPriceInv
  <2>3. phase = "cg" /\ AllWaited /\ ~(Len(columns) > solved) => NothingLeft
    BY <2>1, KRoundFoundNothing DEF KOptimalInv, KPriceInv
  <2>4. OptimalityGuarantee'
    BY <1>1, <2>1, <2>3, OptimalityStep DEF KOptimalInv, KPriceInv, KInv, KTypeInv
  <2> QED
    BY <2>2, <2>4
<1> QED
  BY <1>1, <1>2 DEF KOptimalInv

(* Taking only the K shortest paths costs no optimality: as long as no     *)
(* SCIP call has failed, pricing ends only when no path prices out, up to  *)
(* what the tolerance hides.                                               *)
THEOREM KEndsAreOptimal ==
  ASSUME NoRace
  PROVE  KSpec => [](scip_errors = 0 => OptimalityGuarantee)
<1>1. KOptimalInv => (scip_errors = 0 => OptimalityGuarantee)
  BY DEF KOptimalInv
<1>2. KOptimalInv /\ [KNext]_kvars => KOptimalInv'
  BY KOptimalInvStep
<1> QED
  BY <1>1, <1>2, KOptimalInvInit, PTL DEF KSpec

(* KShortestPricer implements the abstract column generation, in every run *)
(* in which no SCIP call fails.                                            *)
THEOREM KShortestPricerImplements ==
  ASSUME NoRace
  PROVE  KSpec /\ [](scip_errors = 0) => ImplementsColumnGeneration
<1>1. KOptimalInv /\ KOptimalInv' /\ scip_errors = 0 /\ (scip_errors = 0)' /\ [KNext]_kvars
        => [Abstract!Next]_(Abstract!absVars)
  BY KNextKinds, AbstractStep DEF KOptimalInv, KPriceInv, KInv, KTypeInv
<1>2. KOptimalInv /\ [KNext]_kvars => KOptimalInv'
  BY KOptimalInvStep
<1>3. KInit => Abstract!Init
  BY AbstractInit DEF KInit
<1> QED
  BY <1>1, <1>2, <1>3, KOptimalInvInit, PTL DEF KSpec, ImplementsColumnGeneration, Abstract!Spec

-----------------------------------------------------------------------------
(* Progress *)

LEMMA KNextProgress ==
  ASSUME TypeInv, TypeInv', [KNext]_kvars
  PROVE  [Progress]_vars
<1>1. CASE MainStep
  BY <1>1, MainStepProgress
<1>2. CASE StartPathTasks
  BY <1>2, StartShortestPathsProgress DEF StartPathTasks
<1>3. CASE SelectPaths
  BY <1>3, PhaseProgress DEF SelectPaths, scipVars
<1>4. ASSUME NEW t \in Workers, WorkerStep(t)
      PROVE  Progress
  BY <1>4, WorkerStepProgress
<1>5. ASSUME NEW t \in Workers, FindPath(t) \/ PricePath(t)
      PROVE  Progress
  <2>1. PICK g \in pending : pending' = pending \ {g}
    BY <1>5 DEF FindPath, PricePath
  <2>2. phase # "lp" /\ UNCHANGED <<phase, solved>>
    BY <1>5 DEF FindPath, PricePath, scipVars
  <2> QED
    BY <2>1, <2>2, TaskProgress
<1>6. CASE UNCHANGED kvars
  BY <1>6 DEF kvars
<1> QED
  BY <1>1, <1>2, <1>3, <1>4, <1>5, <1>6 DEF KNext, Main, Worker, Stopped

(* Every step of the KShortestPricer brings the solve nearer to its end,   *)
(* in natural numbers.                                                     *)
THEOREM KSolveAlwaysProgresses == KSpec => SolveProgresses /\ []Measured
<1>1. KTypeInv /\ KTypeInv' /\ [KNext]_kvars => [Progress]_vars
  BY KNextProgress DEF KTypeInv
<1>2. KTypeInv => Measured
  BY MeasuresCounted DEF KTypeInv
<1> QED
  BY <1>1, <1>2, KTypeInvInit, KTypeInvStep, PTL DEF KSpec, SolveProgresses

(* And as long as no SCIP call has failed, and SCIP ignores no small       *)
(* number, there are no more columns than paths.                           *)
THEOREM KNoMoreColumnsThanPaths ==
  ASSUME NoRace, Epsilon = 0, IsFiniteSet(Paths)
  PROVE  KSpec => [](scip_errors = 0 => Len(columns) <= Cardinality(Paths))
<1>1. KTypeInv /\ (scip_errors = 0 => NoDuplicateColumn)
        => (scip_errors = 0 => Len(columns) <= Cardinality(Paths))
  BY ColumnsBounded DEF KTypeInv
<1>2. KSpec => [](scip_errors = 0 => NoDuplicateColumn)
  BY KNoPathTwice
<1> QED
  BY <1>1, <1>2, KTypeInvInit, KTypeInvStep, PTL DEF KSpec

LEMMA KNextMutexInv == KTypeInv /\ MutexInv /\ [KNext]_kvars => MutexInv'
<1> SUFFICES ASSUME KTypeInv, MutexInv, [KNext]_kvars
             PROVE  MutexInv'
  OBVIOUS
<1>1. CASE MainStep
  BY <1>1, MainStepMutexInv
<1>2. CASE StartPathTasks
  BY <1>2, StartShortestPathsMutexInv DEF StartPathTasks
<1>3. ASSUME NEW t \in Workers, WorkerStep(t)
      PROVE  MutexInv'
  BY <1>3, WorkerStepMutexInv DEF KTypeInv
<1>4. CASE SelectPaths \/ \E t \in Workers : FindPath(t) \/ PricePath(t)
  <2>1. UNCHANGED sharedVars
    BY <1>4 DEF SelectPaths, FindPath, PricePath
  <2> QED
    BY <2>1 DEF sharedVars, MutexInv
<1>5. CASE UNCHANGED vars
  BY <1>5 DEF vars, sharedVars, MutexInv
<1> QED
  BY <1>1, <1>2, <1>3, <1>4, <1>5 DEF KNext, Main, Worker, Stopped, kvars

(* Nor does a KShortestPricer hang without an error of SCIP.               *)
THEOREM KHangsOnlyAfterErrors == KSpec => []HangsOnlyAfterError
<1>1. KTypeInv /\ MutexInv => HangsOnlyAfterError
  BY HangNeedsError DEF KTypeInv
<1>2. KInit => MutexInv
  BY MutexInvInit DEF KInit
<1> QED
  BY <1>1, <1>2, KTypeInvInit, KTypeInvStep, KNextMutexInv, PTL DEF KSpec

-----------------------------------------------------------------------------
(* The pricer that is chosen *)

LEMMA FullStep ==
  ASSUME pricing_strategy = 0, [PNext]_pvars
  PROVE  [Next]_vars /\ UNCHANGED <<found, pricing_strategy>>
<1>1. CASE ChosenMain
  BY <1>1 DEF ChosenMain, Next
<1>2. ASSUME NEW t \in Workers, ChosenWorker(t)
      PROVE  Next /\ UNCHANGED <<found, pricing_strategy>>
  BY <1>2 DEF ChosenWorker, Next
<1>3. CASE Stopped /\ UNCHANGED <<found, pricing_strategy>>
  BY <1>3 DEF Next
<1>4. CASE UNCHANGED pvars
  BY <1>4 DEF pvars, kvars
<1> QED
  BY <1>1, <1>2, <1>3, <1>4 DEF PNext

LEMMA KStep ==
  ASSUME pricing_strategy = K, [PNext]_pvars
  PROVE  [KNext]_kvars /\ UNCHANGED pricing_strategy
<1>1. pricing_strategy > 0
  BY KAssumption
<1>2. CASE ChosenMain
  BY <1>1, <1>2 DEF ChosenMain, KNext
<1>3. ASSUME NEW t \in Workers, ChosenWorker(t)
      PROVE  KNext /\ UNCHANGED pricing_strategy
  BY <1>1, <1>3 DEF ChosenWorker, KNext
<1>4. CASE Stopped /\ UNCHANGED <<found, pricing_strategy>>
  BY <1>4 DEF KNext
<1>5. CASE UNCHANGED pvars
  BY <1>5 DEF pvars
<1> QED
  BY <1>2, <1>3, <1>4, <1>5 DEF PNext

(* exec_main makes one pricer for the whole solve: a behavior is one of    *)
(* FullPricer or one of KShortestPricer.                                   *)
LEMMA OneOfTwo == PSpec => Spec \/ KSpec
<1>1. PInit => (pricing_strategy = 0 /\ Init) \/ (pricing_strategy = K /\ KInit)
  BY DEF PInit, KInit
<1>2. pricing_strategy = 0 /\ [PNext]_pvars => [Next]_vars /\ (pricing_strategy = 0)'
  BY FullStep
<1>3. pricing_strategy = K /\ [PNext]_pvars => [KNext]_kvars /\ (pricing_strategy = K)'
  BY KStep
<1> QED
  BY <1>1, <1>2, <1>3, PTL DEF PSpec, Spec, KSpec

(* Whichever pricer is chosen implements the abstract column generation,   *)
(* in every run in which no SCIP call fails.                               *)
THEOREM PricersImplement ==
  ASSUME NoRace
  PROVE  PSpec /\ [](scip_errors = 0) => ImplementsColumnGeneration
BY OneOfTwo, FullPricerImplements, KShortestPricerImplements, PTL

(* Whichever pricer is chosen, a step brings the solve nearer to its end,  *)
(* and only an error of SCIP makes everybody wait.                         *)
THEOREM PricersProgress == PSpec => SolveProgresses /\ []Measured /\ []HangsOnlyAfterError
BY OneOfTwo, SolveAlwaysProgresses, KSolveAlwaysProgresses, HangsOnlyAfterErrors, KHangsOnlyAfterErrors, PTL

-----------------------------------------------------------------------------

(* Every reachable state has the types of KTypeOK.                         *)
THEOREM PTypeCorrect == PSpec => []KTypeOK
<1> DEFINE F == pricing_strategy = 0 /\ TypeInv /\ found \in [Groups -> PathRecord \cup {EmptyPath}]
           S == pricing_strategy = K /\ KTypeInv
<1>1. PInit => F \/ S
  BY TypeInvInit, KTypeInvInit DEF PInit, KInit
<1>2. (F \/ S) /\ [PNext]_pvars => (F \/ S)'
  BY FullStep, KStep, TypeInvStep, KTypeInvStep
<1>3. F \/ S => KTypeOK
  BY DEF TypeInv, KTypeInv, FoundOK, KTypeOK
<1> QED
  BY <1>1, <1>2, <1>3, PTL DEF PSpec

-----------------------------------------------------------------------------
(* What a round of each pricer has added in the end *)

LEMMA FullPricerAdded ==
  ASSUME Inv, HandledInv, phase = "cg", AllWaited, NEW g \in Groups
  PROVE  IsNegative(Cost(cached[g].length)) <=> \E i \in NewColumns : columns[i].path = cached[g].path
<1>1. fresh[g] /\ (IsNegative(Cost(cached[g].length)) => Handled(g))
  BY DEF HandledInv, AllWaited
<1>2. Handled(g) => \E i \in NewColumns : columns[i].path = cached[g].path
  BY DEF Handled, AllWaited, InFlight, NewColumns
<1>3. ASSUME NEW i \in NewColumns, columns[i].path = cached[g].path
      PROVE  IsNegative(Cost(cached[g].length))
  <2>1. Justified(cached[g].path)
    BY <1>3 DEF HandledInv, NewColumns
  <2>2. PathGroup[cached[g].path] = g
    BY <1>1 DEF Inv, TypeInv, CacheOK
  <2> QED
    BY <2>1, <2>2 DEF Justified
<1> QED
  BY <1>1, <1>2, <1>3

StrategyInv ==
  \/ pricing_strategy = 0 /\ Inv /\ (scip_errors = 0 => HandledInv)
  \/ pricing_strategy = K /\ SelectionInv

LEMMA StrategyInvInit == PInit => StrategyInv
BY InvInit, HandledInvInit, SelectionInvInit DEF PInit, KInit, StrategyInv

LEMMA StrategyInvStep == StrategyInv /\ [PNext]_pvars => StrategyInv'
<1> SUFFICES ASSUME StrategyInv, [PNext]_pvars
             PROVE  StrategyInv'
  OBVIOUS
<1>1. CASE pricing_strategy = 0 /\ Inv /\ (scip_errors = 0 => HandledInv)
  <2>1. [Next]_vars /\ pricing_strategy' = 0
    BY <1>1, FullStep
  <2>2. Inv' /\ AnyStep
    BY <1>1, <2>1, InvStep, NextKinds DEF Inv
  <2>3. ASSUME scip_errors' = 0
        PROVE  HandledInv'
    BY <1>1, <2>1, <2>2, <2>3, ErrorsKept, HandledInvStep DEF Inv
  <2> QED
    BY <2>1, <2>2, <2>3 DEF StrategyInv
<1>2. CASE pricing_strategy = K /\ SelectionInv
  BY <1>2, KStep, SelectionInvStep DEF StrategyInv
<1> QED
  BY <1>1, <1>2 DEF StrategyInv

(* As long as no SCIP call has failed: if the configuration asks for it a  *)
(* round adds only the K shortest negative paths, and otherwise a network  *)
(* gets a new variable if and only if its shortest path is negative.       *)
THEOREM StrategyIsFollowed == PSpec => [](scip_errors = 0 => StrategyFollowed)
<1>1. ASSUME StrategyInv, scip_errors = 0
      PROVE  StrategyFollowed
  <2>1. CASE pricing_strategy = 0
    <3>1. Inv /\ HandledInv /\ ~(pricing_strategy > 0)
      BY <1>1, <2>1, KAssumption DEF StrategyInv
    <3> QED
      BY <3>1, FullPricerAdded DEF StrategyFollowed
  <2>2. CASE pricing_strategy = K
    <3>1. SelectionInv /\ pricing_strategy > 0
      BY <1>1, <2>2, KAssumption DEF StrategyInv
    <3> QED
      BY <1>1, <3>1, SelectionAdded DEF StrategyFollowed
  <2> QED
    BY <1>1, <2>1, <2>2 DEF StrategyInv
<1> QED
  BY <1>1, StrategyInvInit, StrategyInvStep, PTL DEF PSpec

=============================================================================
