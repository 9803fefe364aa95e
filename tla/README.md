# halligalli: TLA+ models, model checking and proofs

halligalli solves linear programs whose y-variables are the arcs of a set of
acyclic networks. It removes the y-variables from the LP, and lets SCIP generate
columns instead: in every pricing round the dual values of the constraints become
edge weights of the networks, the shortest path of each network is computed on a
thread pool, and a path of negative length enters the LP as a new variable.

This directory holds TLA+ modules of that program, TLC configurations that check
them on small instances, and TLAPS proofs for all instances. `PROJECT.json` lists
the runs, the source lines each definition stands for, the findings, the hazards
and the theorems. Paths below are relative to the repository root.

## 1. The system

| component | state | operations | interacts with |
|---|---|---|---|
| `ObjPricerGFCG` (`src/lib/ObjPricerGFCG.cpp`) | `n_generated_paths_`, the phase a round is in | `scip_init`, `scip_redcost`, `scip_farkas`, `pricing`, `zero_arc_weights`, `set_arc_weights`, `generate_columns`, `add_variable`, `update_constraint_pointers` | called by SCIP; posts tasks to the pool and waits for their futures; calls SCIP from the tasks |
| `FullPricer`, `KShortestPricer` | `k_` | `shortest_path_cg` | derived classes: which paths a round adds |
| `Network` | edge weights, `shortest_path_`, `shortest_path_is_fresh_`, the arc/edge maps | constructor (XML), `shortest_path`, `reset_edge_weights`, `add_to_edge_weight`, `set_edge_weight`, `get_edge_weight` | called by the tasks; its mutex is commented out |
| `DataManager` | networks, constraints, arc-to-constraint map, arc-to-network map, variable-to-path map, one mutex for each | getters and adders | shared by everything |
| `initialize` | (fills `DataManager`, changes SCIP's problem) | `generate_networks` (one task per file), `generate_maps` | runs before the solve |
| `parse_lp` | none | name of a y-variable to `Arc` | called by `generate_maps` |
| `reporting` | none | writes the solution's paths to `results.csv` | reads `DataManager` and SCIP after the solve |
| application (`src/app/halligalli.cpp`) | configuration, exit code | reads `config.json`, starts the pool, picks the pricer, runs the stages, reports | calls everything above |
| loguru (`src/lib/loguru.cpp`, vendored) | sinks, indentation counters, a recursive mutex | `init`, `add_file`, `LOG_F`, `LOG_SCOPE_F`, `ABORT_F`, `flush`, the signal handler | called by every thread; interrupted by signals; ends the program |
| `Arc`, `Node`, `Path`, `Constraint` | value types | comparison, hash | |
| SCIP, `boost::asio::thread_pool`, Boost.Graph | external | | |

What is hard about it. A round is four phases of tasks with a barrier after each
one. The tasks of a phase run on any thread in any order; they share the edge
weights (no lock), SCIP (`scip_mutex`, local to a round), the counter that makes
the names of variables (`counter_mutex`, local to a round) and the map from
variables to paths (its own mutex). SCIP calls can fail in the middle of a task.
SCIP trusts the pricer: a round that reports `SCIP_SUCCESS` and adds no variable
ends the solve. What must be right:

* the weights a shortest path reads are those of this round's duals, complete;
* a cached path is returned only when it is still a shortest one;
* the solve ends only when no path prices out, and it does end;
* SCIP never solves an LP with a half-built column, nor gets a column twice;
* each variable can be mapped back to its path when the results are written;
* before the first round, every constraint of the LP has been checked once, the maps of
  `DataManager` are inverse to each other and point into the transformed problem, and
  every arc leads to a network (which has the arc if no other file competes for it);
* an error that SCIP reports is not lost;
* a name parses to the arc it stands for or not at all, and `results.csv` adds up to
  the flow of the solution;
* the program ends, and reports success only if nothing failed that `main` checks;
* what a thread was told is logged is in the files when another thread, or a signal,
  ends the program; the last message is the reason.

`PROJECT.json` lists every hazard at its line, with the properties that cover it,
or the reason why none does.

## 2. Modules

| module | what it is |
|---|---|
| `PricingData` | the data a round only reads (networks as sets of paths, constraints, duals) and the arithmetic of reduced costs |
| `ColumnGeneration` | abstract specification: SCIP's price-and-solve loop without threads |
| `ObjPricerGFCG` | state, actions and properties that the two pricers share; refinement mapping to `ColumnGeneration` (`Abstract`) |
| `FullPricer` | EXTENDS `ObjPricerGFCG`; next-state relation and fairness |
| `KShortestPricer` | EXTENDS `ObjPricerGFCG`; phase of paths, selection of the k shortest, phase of columns |
| `Initialize` | what happens between `SCIPreadProb` and the first round: the tasks of `generate_networks`, the loop of `generate_maps`, `scip_init` |
| `WeightedPaths` | abstract specification: a network as fixed paths with weights, no graph, map or cache |
| `Network` | class `Network`: the constructor over the elements of a graph file, its methods in any order, refinement of `WeightedPaths` |
| `Pricers` | EXTENDS `FullPricer`, `KShortestPricer`: the pricer that `pricing_strategy` asks for |
| `ParseLp` | `parse_lp_var` as operators on sequences of tokens |
| `Application` | EXTENDS `ParseLp`: `exec_main` and `main`, stage by stage, with the report |
| `Loguru` | the logging library: calls, sinks, scopes, aborts, signals |
| `MCData` | the instances of the pricers: three networks, five paths, two constraints |
| `MCFullPricer`, `MCPricers` | specification + instance + symmetry of the threads |
| `MCInitialize` | specification + graph files and an LP of five constraints |
| `MCNetwork` | specification + fourteen graph files |
| `MCApplication` | specification + configurations, arguments, names, solutions |
| `MCLoguru` | specification + the log files |
| `Sums_proofs` | what `SumFunction` of the community modules computes, by induction over finite sets |
| `ObjPricerGFCG_proofs` | types and costs of the data; the kinds of steps of a pricer; the invariants the two pricers share |
| `FullPricer_proofs` | theorems about `FullPricer` |
| `Pricers_proofs` | theorems about `KShortestPricer` and about the pricer that is chosen |
| `Initialize_proofs`, `Network_proofs`, `Application_proofs`, `Loguru_proofs` | invariants of these four modules and theorems about them |

`Initialize` and the pricers are two stages of one program and share no step. What the
first must leave behind for the second is stated as its invariants `MapsInverse`,
`ReadyForPricing` and `ArcInItsNetwork`; the pricers take the maps as constants.

`Network` is the part below both. `Initialize` reduces its constructor to an outcome for each
file ("reads", "throws", "aborts"); the pricers reduce a network to the set of its paths.
The second reduction is what `WeightedPaths` states and `network` checks: whatever was called before,
`shortest_path` gives a path that no other undercuts under the weights last set for the arcs. The last call and its
arguments (`call`) are part of what `WeightedPaths` sees, so that a call changes the weight of its own arc, by its own value, and no other.

`Application` is the frame around them: its step `Preprocess` stands for `Initialize`, its step
`Solve` for a behaviour of `Pricers`, and what it takes from them is named there: a
solution is any of `Solutions`, `SCIPsolve` returns. What `Initialize` makes of a reader task is there too: one that
aborts ends the program, one that throws does not. `Loguru` is used by all threads of
all the others, which shows in them only as the end of a behaviour (`ABORT_F`).

### State and actions of a pricing round

The main thread is the variable `phase`; each wait on a vector of futures is the
guard `AllWaited`. Tasks that were posted and not started are in `pending` (a set
of networks or constraints); a worker `t` takes any of them when `pc[t] = "idle"`.

| code | action |
|---|---|
| SCIP solves the LP and calls `scip_redcost` / `scip_farkas`; `pricing` posts the tasks of `zero_arc_weights` | `ScipRedcost`, `ScipFarkas` |
| `Network::reset_edge_weights` (one task per network) | `ResetEdgeWeights` |
| barrier, `set_arc_weights` posts one task per constraint | `SetArcWeights` |
| that task: `SCIPisZero` or first arc | `StartConstraint` |
| `add_to_edge_weight`: clear flag and `get` / `put` of the weight | `LoadWeight`, `StoreWeight` |
| barrier, `shortest_path_cg` posts one task per network | `StartTasks` (Full), `StartPathTasks` (KShortest) |
| `Network::shortest_path`, the test for a negative length | `PriceNetwork` (Full), `FindPath` (KShortest) |
| barrier, sort and cut, second loop of posts | `SelectPaths` |
| task for a chosen path | `PricePath` |
| `generate_columns`: name; `SCIPcreateVarBasic` + `SCIPaddPricedVar` under the mutex; `SCIPaddCoefLinear` under the mutex, once per coefficient; `add_var_path_pair` + `SCIPreleaseVar`; counter under its mutex | `NameVariable`, `CreateVariable`, `AddCoefficient`, `RegisterPath`, `CountPath` |
| the same calls returning an error | `CreateVariableFails`, `AddCoefficientFails`, second case of `RegisterPath` |
| barrier, `shortest_path_cg` and `pricing` return; SCIP goes on or stops | `PricingReturns` |

A step is a piece of code that no other thread can see halfway. So "lock, one
SCIP call, unlock" is one step, and the read-modify-write of an edge weight, which
has no lock, is two. `reset_edge_weights` and `shortest_path` are one step each: only
one task of a phase touches a network then.

### State and actions of the initialisation

`stage` says where the main thread is. Workers are the threads of the pool; SCIP's problem
is the array behind `SCIPgetConss` (`conss`, `nconss`) and what each constraint still contains.

| code | action |
|---|---|
| a task of `generate_networks`: constructor of `Network` | `ReadNetwork`: it reads the file, throws, or aborts |
| `add_network`, `add_arcs_of_network`, each under its mutex | `AddNetwork`, `AddArcsOfNetwork` |
| `wait()` on every future; test for an empty directory | `NetworksRead` |
| one turn of the loop of `generate_maps` | `DeleteConstraint` or `MapConstraint` |
| `initialize_container` returns | `InitializeReturns` |
| `scip_init`, `update_constraint_pointers` | `ScipInit` |
| `ABORT_F` of the main thread | `MainAborts` |

`SCIPdelCons` is modelled as SCIP's `SCIPprobDelCons` does it: the last constraint takes the
place of the deleted one and the slot it came from keeps its pointer. The loop fetched the
array and its length before the first deletion; that it still sees every constraint exactly once
depends on this, and on nothing in this repository. A turn of the loop is one step because the pool has
nothing to do then. SCIP calls `scip_init` once, after it has transformed the problem and before
presolving, so every original constraint has its transformed one.

### State and actions of a network

| code | action |
|---|---|
| constructor, one turn of the loop over the elements | `ReadNode`, `ReadEdge`; `EdgeWithoutNode`, `ReadMalformed` when it fails |
| the test behind the loop | `FileRead` |
| `reset_edge_weights`, `set_edge_weight`, `add_to_edge_weight` | `ResetEdgeWeights`, `SetEdgeWeight`, `AddToEdgeWeight` |
| a method is called for an arc the network does not have | `ForeignArc` |
| `shortest_path` | `ShortestPath`; `SinkNotReached` if there is no path |

A file is a sequence of elements; the seven data of a node are one value. A node that lacks some
gets, as in the code, whatever the uninitialized variables held: any value of the element's
set. The lookup of an id tests the id it found and not the iterator, so id 0 aborts and a missing id dereferences
`end()`; the model stops there ("undefined"). `dag_shortest_paths` is external and modelled by its
contract, a shortest walk from the source to the sink with ties left open; the walk back over the predecessors,
the translation of edges to arcs and the cache are the code's. Graphs are acyclic, weights are integers;
`get_edge_weight` only reads (for logs and tests) and is left out, and so is a distance of `INT_MAX` and above.

### State and actions of the application

`stage` is what the main thread does next; "exited" and "killed" are its ends.

| code | action |
|---|---|
| `config.json`, the paths from it or from the arguments | `ReadConfig`, `ConfigRejected` |
| `loguru::init`, log level, log files | `InitLogging` |
| `SCIPcreate`, the pool; `SCIPreadProb` | `CreateScip`, `ReadProblem` |
| `initialize_container` | `Preprocess`, `PreprocessAborts` |
| a pricer is made, included and activated | `IncludePricer` |
| `SCIPsolve` | `Solve`, `SolveAborts` |
| the two reports | `ReportScip`, `SkipCsv`, `ReportResultsCsv` |
| `SCIPfree`, the exit | `Free` |
| `SCIP_CALL` returns the error from `exec_main` | `ScipFails` |

A missing key of the configuration throws where it is read and nobody catches it. `init` looks for
`-v` in the arguments whether or not the paths come from them, so an argument `-v` without a
verbosity ends the program. The name of a variable is a sequence of tokens (delimiters, digits,
words); `ParseLp` keeps the code's order of searches and the wraparound of positions that are `-1`.
`std::stoi` is modelled for digits in front; signs, blanks and numbers beyond 32 bits are not in the instance.

### State and actions of the logging

Each thread has a stack of calls (`stack`); a signal pushes a call of the handler on top of whatever
its thread does. A step is what happens between two points where the mutex, a sink or another thread
can be noticed.

Besides `s_mutex` there are two locks of the C library, one for each arena of the allocator and one in `localtime_r`. They are held
for the time of one library call, so no thread waits for one unless a signal interrupted such a call: `in_libc` in the frame of the
handler is the lock that was held. `LibcLocks` says where a thread calls them: text and preamble before `log_message` (`Format`), the
stack trace under the mutex (`Trace`), the handler's preamble, and the allocator also outside the library. `ArenaOf` gives threads the same arena
or different ones.

| code | action |
|---|---|
| `LOG_F`, `ABORT_F` and `CHECK_F`, `LOG_SCOPE_F`, end of a block | `LogF`, `AbortF`, `OpenScope`, `CloseScope` |
| `vtextprintf` and `print_preamble`, before the mutex (in the handler: after `flush`) | `Format` |
| `log_message`: mutex, stack trace, one sink after the other, end | `LockMessage`, `Trace`, `Write`, `Flush`, `LogReturns`, `FatalEnds` |
| constructor and destructor of `LogScopeRAII` | `OpenBrace`, `OpenIndent`, `CloseIndent`, `CloseReturns` |
| a signal; `signal_handler` | `Signal`, `HandlerFlushes`, `HandlerFlushesAgain`, `CallDefaultHandler` |
| `init`, the log level, `add_file`, the pool is made, `on_atexit` | `InitLoguru`, `SetLoglevel`, `AddFile`, `StartThreads`, `Exit` |

The sinks are stderr and the files; the few lines that `init` and `add_file` log at once are one
message. A message is its thread, its kind and its verbosity.

### Abstractions of the pricing round

* A network is its set of source-sink paths, and an arc is one edge. `Network`
  shows when this is sound: for files without parallel edges and equal nodes, and with a path.
* A weight is a *set* of summands (entry of a constraint, dual) and not their sum.
  A lost or doubled contribution is then visible even if numbers happen to cancel;
  `Cost` adds them up where the code compares. Integers stand for doubles: rounding is
  not modelled, a tolerance is (`Epsilon`, for SCIP's `numerics/epsilon`).
* SCIP's duals or Farkas ray of a solved LP: any vector of `DualVectors` that prices
  every column of that LP at zero or above. This allows more than an LP solver
  returns, never less. An LP that is feasible once stays feasible, since columns are
  only added. The pricer's callbacks at one node of SCIP's tree are modelled: the
  variables are continuous (`ObjPricerGFCG.cpp:168`).
* The posts of one phase are one step: a task posted later is a task started later.
* `n_iterations_`, the counters of a round and all logging are left out: they are only
  printed. The return code of the tasks is left out too: it is the constant
  `SCIP_OKAY`, so the `ABORT_F` after the waits cannot be reached.
* An error of a SCIP call inside the lock leaves `scip_mutex` locked; a worker that
  wants it afterwards waits for ever. A worker that locks it twice itself is undefined
  behaviour, here it waits as well.
* `KShortestPricer.cpp:69` copies a network into an unused local; it changes nothing.

## 3. What is checked

Instances are in `MCData`: network `north` has two paths with a common arc, `south`
two disjoint ones, `east` one; constraints `c` and `d`. In `SharedEntries` arc `n2`
is in both constraints (so two tasks write one weight), in `PrivateEntries` no arc is.
Coefficients have both signs, arc `s2` is in no constraint. Duals are from -1..1;
`pricers` takes six of these nine vectors, with every combination of signs.

| run | instance | shows |
|---|---|---|
| `full_sequential` | FullPricer, 1 thread, shared arc, duals -3..3, `Epsilon` = 1 | types; only paths that price out become columns, each once in a round; at the end no path prices out, up to what `SCIPisZero` drops (`Hidden`); each variable has its path; implements `ColumnGeneration` |
| `pricers` | both strategies, K = 2, 2 threads, private arcs | complete weights, no column twice, exactly the paths of the strategy, refinement and termination in every interleaving |
| `full_racing` | FullPricer, 2 threads, shared arc, one SCIP error | what survives lost updates and an error: coherent cache, complete columns, names not reused in later rounds, a stored path that fits one of the variables of its name; every step brings the solve nearer to its end; only the error can make it hang |
| `initialize` | 2 threads, 4 files, each readable, rejected or fatal: two of one group that have different arcs, and a netzwerk in two groups; 5 constraints, every subset of them unneeded | types; the loop never reads a deleted constraint and checks each one once; the maps are inverse and ready for pricing; every arc of a file that was read leads to a network built from one of the files that compete for it; preprocessing ends |
| `network` | 14 files: three simple ones (`SimpleFile`: two to three paths, edges out of order, dead ends) and eleven others; weights -1..1 | types; the unique ends of a usable network; for simple files, implements `WeightedPaths`, call by call |
| `application` | 13 configurations, 6 argument lists, 2 machines, 4 states of the graphs; two names with each edit of one token; 7 solutions | types; a wrong name never parses to shifted components; the rows of `results.csv` add up to the flow; exit code 0 only if nothing failed that `main` checks; the program ends |
| `loguru` | the main thread and one of the pool, stderr and one file, three calls, one signal | types; no message lost, doubled or reordered; indentation equals nesting in each sink, up to fifty levels; the last words are in every file; each step brings a call nearer to its end; calls return, unless a signal interrupted the allocator or `localtime_r` |
| `false_optimum`, `same_name`, `lost_error`, `lost_network`, `tested_names` | expected violations | the findings below |

Bounds. `MaxColumns` stops new rounds. `pricers` never reaches its 6, because at most five
paths exist and each is added once. `full_sequential`, where the tolerance hides weights, and `full_racing`, where they are lost,
add paths again and stop at 6 and 4; a round adds three at most, one for each network. `MaxScipErrors` = 1: one error loses a
result and leaks the mutex, and its round never ends unless it was the last task.
Two threads are enough for every race found here: each race is between two tasks, and a
third thread only adds tasks that are in neither. Two constraints and three networks
give a phase more tasks than threads. K = 2 lies below the number of networks,
and rounds with fewer negative paths than K occur as well.

`Initialize` has no bound. Two files of one group are the smallest case in which two tasks
compete for a network, two groups with one netzwerk the smallest for `arc_to_network_`; five constraints with any subset unneeded contain every order of kept and
deleted ones at the front, the middle and the end of the array; constraints have no y-variable, several, and one
arc twice.

`Network` has one bound, `MaxWeight` = 1: three values of a weight make paths longer, equal or
shorter than others in every combination. Eleven files that are not simple cover each abort of the
constructor, each undefined case, parallel edges, equal nodes and ids, missing data and a sink without a path.

`Application` has no bound: every name that is one insertion, deletion or replacement of a token
away from a correct one, every key missing once, and solutions in which columns share an
arc, a column is not used, two columns share a name, and there is none; the graphs are sound or missing, or one throws or aborts.

`Loguru`: `MaxCalls` = 3 calls of all threads together are enough for a scope with a message of the
other thread in it, and for an abort during either; `MaxSignals` = 1, as the handler ends the program. The threads have one arena, so that a signal in the allocator can stop both.

Fairness. `FairSpec`, `KFairSpec` and `PFairSpec` assume weak fairness of the main thread (it runs,
and SCIP finishes an LP solve) and of each worker (a pool thread that has a step of a
task to take takes it: the pool runs every handler that is posted, and no task blocks
except at a mutex). No fairness is assumed between tasks, nor strong fairness at
the mutex: its critical sections are single steps, so in a run without SCIP errors it is
always free between two steps. With SCIP errors the program can hang, and termination
is not claimed: `HangsOnlyAfterError` says that nothing else stops it, and `GuardsAreExact` that who can go on in its sense has a step. `Initialize`'s `FairSpec` assumes the same of its main thread and workers.
`Application` assumes that its one thread runs, and that `SCIPsolve` returns (`Termination` of
the pricers). `Loguru` assumes weak fairness of each thread inside a call, and nothing of new calls
or signals; a thread that waits for the mutex gets it since the other makes finitely many calls. `CallsReturn` has one exception: a signal
that interrupted the allocator or `localtime_r` while it held its lock, and from some time on always a thread in a call that waits
for that lock (`[]Stuck`). The comment at `loguru.cpp:1895` names the first of the two ("for example").

### Findings

1. `add_to_edge_weight` is an unlocked read-modify-write; with a y-variable in two
   constraints a contribution can be lost. As a consequence a solve can stop at a solution that
   is not optimal, or report an LP infeasible that is not (`false_optimum`).
2. Two variables of one round can have one name, and the path of the second is never
   stored; `results.csv` then gives the first path's arcs for both (`same_name`).
3. The results of `generate_columns` and `add_variable` are dropped, so the check for SCIP
   errors after the waits never fires (`lost_error`).
4. `parse_indices` reads the first two indices with `std::stoi`: the names with words in
   `src/src/test/test_parse_lp.cpp` and in the example problem abort the program (`tested_names`).
5. The exception of a task that cannot parse its file stays in its future; the program goes
   on without that network (`lost_network`).

Three more have no run of their own. `src/README.md` documents a key `report_results`, but
the code reads `report_results_scip` and `report_results_csv`, after the solve; a
configuration written from the README dies with its solution (`ReportScip` in `Application`). `Arc::to_string`, "as presented in LP files", prints `ausbildung` as 0 or 1, which `parse_bool` rejects. And
"Map an arc to the network group id it is included in" (`DataManager.hpp:75`) is not what `arc_to_network_` does: its key is only the netzwerk of an arc's
source and the first insert stays. If files of two groups have arcs of one netzwerk, all these arcs lead to the network of the faster
task, and `add_to_edge_weight` then aborts for an arc that it lacks; in the same way only one file of a group gets into
`networks_`. The instance of `initialize` has both cases. What the code does guarantee is `ArcInItsNetwork`: `get_network` finds
a network, built from one of the files that compete for the arc (`Rivals`); it has the arc if they all have it.

## 4. What is proved

TLAPS proves the following for all values of the constants that satisfy the named assumptions, which TLC
evaluates on the instances: any number of threads, networks, paths, constraints and duals for the pricers, any directory and
LP for `Initialize`, any graph files and calls for `Network`, any configurations and solutions for
`Application`, any threads, sinks and calls for `Loguru`.

| property | `FullPricer_proofs` | `Pricers_proofs` | if |
|---|---|---|---|
| `TypeOK`, `KTypeOK` | `TypeCorrect` | `KTypeCorrect` | |
| `CacheCoherent` | `CacheIsCoherent` | `KCacheIsCoherent` | |
| `ColumnsComplete` | `ColumnsAreComplete` | `KColumnsAreComplete` | |
| `NamesFreshAcrossRounds` | `NamesStayFresh` | `KNamesStayFresh` | |
| `StoredPathFits` | `StoredPathsFit` | `KStoredPathsFit` | |
| `PathOfVariable` | `OwnPathsStored` | `KOwnPathsStored` | one thread |
| `WeightsComplete` | `WeightsAreComplete` | `KWeightsAreComplete` | `NoRace` |
| `ColumnsPriceOut` | `NewColumnsAllPriceOut` | `KNewColumnsAllPriceOut` | `NoRace` |
| `NoDuplicateColumn` | `NoPathTwice` | `KNoPathTwice` | `NoRace`, `Epsilon = 0`, no SCIP error so far |
| `OptimalityGuarantee` | `EndsAreOptimal` | `KEndsAreOptimal` | `NoRace`, no SCIP error so far |
| `ImplementsColumnGeneration` | `FullPricerImplements` | `KShortestPricerImplements` | `NoRace`, no SCIP error |
| `KShortestAdded` | | `KShortest` | no SCIP error so far |
| `SolveProgresses`, `Measured` | `SolveAlwaysProgresses` | `KSolveAlwaysProgresses` | |
| at most as many columns as paths | `NoMoreColumnsThanPaths` | `KNoMoreColumnsThanPaths` | `NoRace`, `Epsilon = 0`, finitely many paths, no SCIP error so far |
| `HangsOnlyAfterError` | `HangsOnlyAfterErrors` | `KHangsOnlyAfterErrors` | |

| theorem | statement |
|---|---|
| `Pricers_proofs!PTypeCorrect`, `PricersImplement`, `StrategyIsFollowed` | `KTypeOK`; `ImplementsColumnGeneration` under the conditions above; `StrategyFollowed` while no SCIP call has failed |
| `Pricers_proofs!PricersProgress` | `SolveProgresses` and `HangsOnlyAfterError` with either pricer |
| `Initialize_proofs!TypeCorrect`, `LoopIsSafe`, `EachConstraintChecked`, `MapsAreInverse` | `TypeOK`, `LoopReadsAlive`, `AllConstraintsChecked`, `MapsInverse` |
| `Initialize_proofs!PricingIsLegal` | `ReadyForPricing` |
| `Initialize_proofs!LoopReadsPresent` | the constraint the loop is at is among those SCIP has, so that `SCIPdelCons` finds it |
| `Initialize_proofs!PreprocessingGoesOn` | every step ends a stage, goes on to the next slot of the loop, or starts, continues or ends a task: the safety half of `Starts` |
| `Initialize_proofs!ArcsLeadHome` | `ArcInItsNetwork`, for any files |
| `Network_proofs!TypeCorrect`, `EndsStayUnique`, `NetworkImplements` | `TypeOK`, `EndsAreUnique`, `ImplementsWeightedPaths` |
| `Application_proofs!TypeCorrect`, `ExitCodeIsTruthful`, `FlowIsReported` | `TypeOK`, `ExitCodeTruthful`, `FlowReported` |
| `Loguru_proofs!TypeCorrect`, `NothingIsLost`, `LastWordsArrive`, `LinesAreNested`, `CallsAlwaysProgress` | `TypeOK`, `NothingLost`, `LastWords`, `IndentedByNesting`, `CallsProgress` |

### The hypotheses

* `NoRace`: there is one thread, or no arc is in two constraints. It is what the missing lock of
  `add_to_edge_weight` asks for; `false_optimum` and the weaker properties of `full_racing` show that without it the
  statements are false. Whether the program is used that way depends on the LP file.
* No SCIP error (`scip_errors = 0`): a failed call drops a path of the round and nobody is told (`lost_error`), so the round may end
  the solve with a path left, and a half-built column stays in the LP. What holds in spite of errors has no such hypothesis.
* One thread, for `PathOfVariable`: with two, two variables get one name (`same_name`).
* `Epsilon = 0`, for `NoDuplicateColumn` and the bound of the columns: a dual that `SCIPisZero` drops makes a path of the LP look negative, and it is added
  again, as `full_sequential` does.

`DataAssumption` says of the data that there are finitely many networks and constraints (they are read from files), that each network
has a path and each stored constraint an entry, and that the null vector is among the duals; `BoundAssumption` that the pool has finitely many threads.
`ApplicationAssumption` says of a solution that a variable with a path is not negative, as `create_var` gives it the lower bound 0
(`ObjPricerGFCG.cpp:165`), and that a path visits an arc once.

### The pricers

*Kinds of steps.* What the two pricers do differently is which path a task gets. `ObjPricerGFCG_proofs` therefore splits the steps
not by action but by what they do to the columns (`AnyStep`): nothing (`QuietStep`), a new round (`StartPricing`), a worker takes a task with a
negative path (`TakeTask`), and a worker goes on building its column (`ColumnStep`). Each pricer shows
once that its steps are of these kinds; the invariants below are proved for the kinds.

*Invariants.* In the order in which they build on each other:

* `TypeInv` strengthens `TypeOK`, which is not inductive: a worker in the middle of a
  task has the locals that task needs (`TaskOK`: an index inside `columns`, a position
  inside the constraint), and what is in `pending` fits the phase (`QueueOK`).
* `CacheInv` adds to `CacheCoherent` that in the phases that write weights no cache is
  fresh where a write is still to come: `LoadWeight` clears the flag before
  `StoreWeight` writes, and nothing computes a path between the two.
* `WeightInv` says, for the phases "zero" and "set", which contributions an arc already
  has (`Done`) and which are still due (`Due`).
* `ColumnsInv` has five parts. `ColumnInv`: workers build different columns, each with the locals its column needs.
  `CoefficientInv`: no more columns lack a coefficient that no worker still has to add than SCIP calls have failed. `NameInv`:
  the counter is ahead of every name but those of the variables being built, and of every name of an earlier round. `StoredInv`: a name has a stored path unless
  its variable is being built, and what is stored is the path of a variable of that name. `RoundInv`: each network has at most one task or new column in a round.
* `PricedOutInv`: the paths in flight and the new columns price out under the duals of the round.
* `HandledInv` (Full): a network that has been priced and whose path is negative is being built or was added. `FoundInv`, `SelectedInv` (KShortest):
  the path found in the phase "paths" is a shortest one, and what is to be built, is being built and was added is together one selection of the k shortest.
* `LpInv`: a column of the LP does not price out under the round's duals, since they come from an LP that has it. This excludes duplicates.
* `UniqueInv`, for one thread: a name is used once.

*Optimality and refinement.* A round that adds nothing has handled every network (`HandledInv`, `SelectedInv`) and found no negative
length; lengths are the complete reduced costs up to the hidden summands (`WeightsComplete`, `LengthNearCost`), and each is the least of its network. So `AbstractStep` maps `PricingReturns`
to a step of `ColumnGeneration` and everything else to a stutter.

*Sums.* `SumFunction` of the community modules is a fold; its induction needs no theorem with an operator parameter when it is
stated as the choice of a smallest set for which a claim fails (`MinimalSubset`, from the well-foundedness of strict inclusion).

*The end of a solve.* `SolveProgresses` orders the states of a solve by four numbers, compared one after the other: the columns SCIP had in this round's LP (the more
the nearer to the end), the phases the round has left, the tasks posted and not started, and the steps the workers have left in
their tasks (`Effort`, a sum over the pool). Every step of either pricer goes down in this order, also with lost updates and errors, and all four are natural numbers (`Measured`). Only the first number could go on for ever, and
`NoMoreColumnsThanPaths` bounds it: columns are different paths (`NoDuplicateColumn`). So there is no infinite behaviour of steps, and where a behaviour may stop before the end is what
`HangsOnlyAfterError` says; it needs `MutexInv`, that a mutex held between two steps is one that an error leaked in the phase "cg". What is left to TLC for
`Termination` is that a thread which may go on has a step (`GuardsAreExact`) and takes it (fairness).

### Initialize

`LoopInv` has two parts. `SlotInv`: the slots the loop still has to
read hold what they held at the start, because a deletion writes only into the slot of the
constraint being deleted, which is the slot at the index or, if that constraint was moved before, one the
loop has passed. `StoredInv`: what has been deleted and stored is exactly what the passed
part of the original array calls for. `NetworkFirst`: a group that `arc_to_network_` names has its network, because
a worker about to add arcs has its group in `networks`. `PreparedInv` follows a constraint through
deletion, marking and the change of the pointers. `ArcInv` says that each entry of `arc_to_network_` was made for the arcs of some file of its
group, and each of `networks_` from some file of its own that was read: whichever task won, it was one of the rivals.
`GoesOn` orders the steps as for a solve, by stage, slot of the loop, tasks not started and steps of a task; none of these comes back.

### Network

`EndsInv` counts the source and sink nodes among the elements read. For a simple file `SimpleInv` says what the constructor has
built after each element (`VerticesRead`, `EndsRead`, `EdgesRead`; `Progress`: it does not abort). From there walks in the graph and the paths of
`WeightedPaths` correspond one to one (`WalkIsPath`, `PathHasWalk`), lengths included, and the cache holds a shortest one (`CacheInv`). A simple file
(`SimpleFile`) is one that the constructor reads and whose graph has neither parallel edges nor equal nodes, and has a topological
order; TLC compares `FilePaths` with paths written down by hand.

### Application

`CheckedInv`: a stage is only reached with what the stages before it ask of the inputs. `SolvedInv`: from the return of `SCIPsolve` to the exit the solution is one SCIP left, and no rows are written before. `FlowReported` is about sums over
different sets: the rows of an arc by place, its columns by index. If names are unique, each variable finds its own path (`OwnPath`), a path has an
arc once, and a column without a row is 0; so the rows are the columns renamed by an injection, up to zeros, and the sums are equal (`SumRenamed`).

### Loguru

The depth of the recursive mutex is the number of calls in its owner's stack that hold it (`MutexInv`); other threads hold none. `StackOK`
says which call may be on top of which: a signal handler on anything, a stack trace, the message of an abort. `WordsInv` follows the last
message: between `Write` and the end of the program the owner keeps the mutex, or dies in its handler, so that nothing gets behind it.

`NestingInv` relates the counter of a sink to two things. `DepthInv`: it is the number of scopes, of all threads, that the sink sees and
whose brace is open (`Opened`: those in `scopes`, and the one that has left them but not yet the counters); this is why a counter
is never decremented at zero. `NestInv`: it is the number of opening braces less the closing ones in the sink's own lines, less one while a
scope is between its brace and the counters (`Pending`). Only the outermost call of a stack can be there (`LastInv`), and only the
owner's, so that no line of another thread is written meanwhile.

`NothingLost` counts places instead of filtering sequences: the message that is the i-th of its thread among those a sink accepts is the i-th
of that thread in the sink. `ToldInv` is that for each thread and sink, flushed or not, and says what else the sink may have of the thread: one message, the
last, if a call on the stack has been written there but not returned (`Voice`); only that one may be unflushed, and then the call is about to
flush it (`Busy`). No stack has two such calls (`SoleVoice`, from `StackOK`). Sinks come, and change their verbosity, only while nobody has said anything (`SilentInv`).

*The end of a call.* `CallsProgress` counts the steps that the calls of a thread have left, added up over its stack (`ThreadSteps`): a call pays in advance for the
calls it makes, a fatal message for its stack trace, a scope for the message of its brace, the handler for its message. Each step of a call then leaves fewer (`Shrinks`),
whatever other threads do, since sinks come only before there are threads. The sums stay natural numbers (`StepsInv`: a call is at a sink there is). So only
signals can keep a thread in its calls.

### Only model-checked

* `Termination` of the pricers (run `pricers`), `Ends` of the application, `Starts` of `Initialize`, and `CallsReturn` of `Loguru`: liveness under fairness.
  `GuardsAreExact` is about ENABLED. Both are out of the prover's reach.
* `ParsedArc` of `Application`: `parse_indices` folds over digits, and what a fold gives for every name is an induction over data.

Each inductive invariant was an invariant of a TLC run before it was proved.

## 5. Plan

Every safety property of a passing run is proved, but for `ParsedArc` and `GuardsAreExact` (above). What is worth adding:

* For `CallsReturn`, that where `Stuck` is false the owner of the mutex has a step whose guard holds (from `MutexInv` and `StackOK`),
  as `HangsOnlyAfterError` says it of the solve.
* `EndsAreUnique` and `PricingIsLegal` combined: that the `Network` which `Initialize` hands to the pricers is one that `Network` builds, as a
  theorem instead of the common constants of the two modules.

## 6. Not modelled

* Tests and build files; SCIP beyond what the code uses of it; the branch-and-bound tree.
* Rounding, and an LP solver's own tolerance: the duals of the models price every column of the LP at
  zero or above exactly, and only SCIP's `epsilon` is modelled.
* Memory: the writes behind the end of an empty vector (`reporting.cpp:64`), and what concurrent calls
  of `SCIPreleaseVar` outside the mutex do to SCIP (`ObjPricerGFCG.cpp:186`).
* Hashing, ordering and printing of arcs and nodes.
* The parts of loguru the program does not use: `remove_callback`, `shutdown`, syslog, streams, error
  contexts, user handlers, the flush thread, thread names; and file reopening, which is compiled out.
* `Network::get_edge_weight`, for logs and tests only.
