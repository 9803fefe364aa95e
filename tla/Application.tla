------------------------------ MODULE Application ------------------------------
(***************************************************************************)
(* The reference application, from config.json to the exit code.  The      *)
(* stages are named after what the main thread does next; "exited" and     *)
(* "killed" (ABORT_F, CHECK_F, an exception nobody catches) are the ends.  *)
(*                                                                         *)
(* What the networks and the LP are made into is modelled in Initialize,   *)
(* the solve in the pricers' modules.  Here the LP is a variable with the  *)
(* name that generate_maps parses, and SCIPsolve returns some solution.    *)
(***************************************************************************)
EXTENDS ParseLp, FiniteSets, Functions

CONSTANTS
  Runs,        \* the inputs: [config, argv, hardware, problem, graphs]
  Solutions,   \* what SCIPsolve may leave: [vars, feasible]
  Verbosities  \* the values that -v accepts

(* SCIP_Real is an integer here.  The variables of paths have a lower bound *)
(* of 0 (create_var), and a path of a graph without cycles visits an arc    *)
(* once.                                                                    *)
ASSUME ApplicationAssumption ==
  /\ \A r \in Runs : /\ DOMAIN r = {"config", "argv", "hardware", "problem", "graphs"}
                     /\ r.config.threadcount \in Int /\ r.config.pricing_strategy \in Int
                     /\ r.hardware \in Nat
  /\ \A s \in Solutions :
       /\ s.vars \in Seq(Range(s.vars))
       /\ \A v \in Range(s.vars) :
            /\ v.val \in Int
            /\ v.path.arcs # << >> => v.val >= 0
            /\ v.path.arcs \in Seq(Range(v.path.arcs)) /\ IsInjective(v.path.arcs)

VARIABLES
  run,        \* the inputs: config.json (the keys it has and their values), the
              \* arguments, hardware_concurrency() (0 if unknown), the problem
              \* (the name of a variable, the arc it was made from) and what
              \* reading the graphs comes to: they are "sound", "missing", one
              \* "throws" in its task or one "aborts" the program
  stage,
  exit_code,
  paths,      \* <<lp_path, graphs_path>>
  threads,    \* the size of tpool
  parsed,     \* what the name was parsed to: a sequence of at most one set
  pricer,     \* max_paths_per_iteration of the active pricer, 0 for FullPricer
  solution,
  results     \* the rows of results.csv: a sequence of at most one table

setup   == <<run, paths, threads, pricer>>
outcome == <<exit_code, solution, results>>
vars    == <<setup, outcome, stage, parsed>>

NoProblem  == [name |-> << >>]
NoSolution == [vars |-> << >>]

TypeOK ==
  /\ stage \in {"config", "logging", "scip", "read", "preprocess", "pricer", "solve",
                "report scip", "report csv", "free", "exited", "killed"}
  /\ exit_code \in {0, 1}
  /\ threads \in Nat
  /\ pricer \in Nat
  /\ Len(parsed) <= 1
  /\ solution \in Solutions \cup {NoSolution}
  /\ Len(results) <= 1

Init ==
  /\ run \in Runs
  /\ stage = "config"
  /\ exit_code = 0
  /\ paths = <<"", "">>
  /\ threads = 0
  /\ parsed = << >>
  /\ pricer = 0
  /\ solution = NoSolution
  /\ results = << >>

config == run.config

Goto(s, t) == stage = s /\ stage' = t

HasKeys(keys) == keys \subseteq config.keys

-----------------------------------------------------------------------------
(* Before the solve *)

PathsInConfig == config.lp # "" /\ config.graphs # ""

PathsGiven == PathsInConfig \/ Len(run.argv) = 2

ReadConfig ==
  /\ Goto("config", "logging")
  /\ HasKeys({"lp", "graphs", "threadcount", "pricing_strategy"})
  /\ PathsGiven
  /\ paths' = IF PathsInConfig THEN <<config.lp, config.graphs>> ELSE run.argv
  /\ UNCHANGED <<run, threads, pricer, parsed, outcome>>

(* A missing key throws, LOG_F(FATAL) aborts. *)
ConfigRejected ==
  /\ Goto("config", "killed")
  /\ ~HasKeys({"lp", "graphs", "threadcount", "pricing_strategy"}) \/ ~PathsGiven
  /\ UNCHANGED <<setup, parsed, outcome>>

(* One of the names of a verbosity, or an integer. *)
IsVerbosity(arg) == arg \in Verbosities

(* parse_args: -v needs a value, in arguments that are not used as well. *)
VerbosityArgs ==
  \A i \in DOMAIN run.argv :
    run.argv[i] = "-v" => i < Len(run.argv) /\ IsVerbosity(run.argv[i + 1])

(* logfiles may be missing, and a file that cannot be opened is skipped. *)
InitLogging ==
  /\ Goto("logging", IF VerbosityArgs /\ HasKeys({"loglevel"}) THEN "scip" ELSE "killed")
  /\ UNCHANGED <<setup, parsed, outcome>>

(* Mutant: hardware_concurrency() is 0 where it is unknown. *)
PoolOfProcessors == IF config.threadcount <= 0 THEN run.hardware ELSE config.threadcount

PoolSize ==
  IF config.threadcount > 0 THEN config.threadcount
  ELSE IF run.hardware > 0 THEN run.hardware ELSE 1

CreateScip ==
  /\ Goto("scip", "read")
  /\ threads' = PoolSize
  /\ UNCHANGED <<run, paths, pricer, parsed, outcome>>

ReadProblem == Goto("read", "preprocess") /\ UNCHANGED <<setup, parsed, outcome>>

(* Mutant: main takes the error for success. *)
ScipFailsQuietly ==
  /\ stage \in {"scip", "read", "pricer", "solve", "report scip", "free"}
  /\ stage' = "exited"
  /\ UNCHANGED <<setup, parsed, outcome>>

(* SCIP_CALL returns from exec_main with the error, main returns 1. *)
ScipFails ==
  /\ stage \in {"scip", "read", "pricer", "solve", "report scip", "free"}
  /\ stage' = "exited"
  /\ exit_code' = 1
  /\ UNCHANGED <<setup, parsed, solution, results>>

(* initialize_container: the graphs are read by the pool.  main waits for  *)
(* the tasks but does not ask for their results: where one threw, the      *)
(* program goes on without its network.  A y-variable whose name does not  *)
(* parse aborts.                                                           *)
Preprocess ==
  /\ stage = "preprocess"
  /\ HasKeys({"unneeded_constraints_substrings"})
  /\ run.graphs \in {"sound", "throws"}
  /\ threads > 0
  /\ parsed' = <<ParseLpVar(run.problem.name)>>
  /\ stage' = IF IsLpVar(run.problem.name) /\ parsed' = <<{}>> THEN "killed" ELSE "pricer"
  /\ UNCHANGED <<setup, outcome>>

PreprocessAborts ==
  /\ Goto("preprocess", "killed")
  /\ \/ ~HasKeys({"unneeded_constraints_substrings"})
     \/ run.graphs = "missing"
     \/ threads > 0   \* a graph that aborts, or a SCIP call that fails
  /\ UNCHANGED <<setup, parsed, outcome>>

(* Mutant: the strategy is not compared with 0. *)
IncludeKShortestPricer ==
  /\ Goto("pricer", "solve")
  /\ pricer' = config.pricing_strategy
  /\ run' = [run EXCEPT !.problem = NoProblem]
  /\ parsed' = << >>
  /\ UNCHANGED <<paths, threads, outcome>>

(* From here on the problem is SCIP's: what the model keeps of it is reset. *)
IncludePricer ==
  /\ Goto("pricer", "solve")
  /\ pricer' = IF config.pricing_strategy > 0 THEN config.pricing_strategy ELSE 0
  /\ run' = [run EXCEPT !.problem = NoProblem]
  /\ parsed' = << >>
  /\ UNCHANGED <<paths, threads, outcome>>

-----------------------------------------------------------------------------
(* The solve and after *)

Solve ==
  /\ Goto("solve", "report scip")
  /\ solution' \in Solutions
  /\ UNCHANGED <<setup, parsed, exit_code, results>>

(* set_arc_weights aborts over an arc whose network is missing or lacks it. *)
SolveAborts == Goto("solve", "killed") /\ UNCHANGED <<setup, parsed, outcome>>

(* The keys of the reports are read after the solve: a missing one throws. *)
ReportScip ==
  /\ Goto("report scip", IF HasKeys({"report_results_scip"}) THEN "report csv" ELSE "killed")
  /\ UNCHANGED <<setup, parsed, outcome>>

SkipCsv ==
  /\ \/ Goto("report csv", "killed") /\ ~HasKeys({"report_results_csv"})
     \/ Goto("report csv", "free") /\ HasKeys({"report_results_csv"}) /\ ~config.report_results_csv
  /\ UNCHANGED <<setup, parsed, outcome>>

(* DataManager::get_path, as a set of at most one path: the map keeps the  *)
(* first path inserted with a name; a variable of the LP has no arcs.      *)
GetPath(name) ==
  LET stored == {i \in DOMAIN solution.vars :
                   solution.vars[i].name = name /\ solution.vars[i].path.arcs # << >>}
  IN  {solution.vars[i].path : i \in {j \in stored : \A k \in stored : j <= k}}

(* Mutant: one row for each path. *)
WriteFirstArc(path, val) == IF val > 0 THEN {1} ELSE {}

(* The arcs that get a row, by their place in the path. *)
WritePath(path, val) == IF val > 0 THEN DOMAIN path.arcs ELSE {}

(* Without a feasible solution SCIPgetSolVals returns the values of some   *)
(* LP, here 0 or 1, or fails, which aborts.                                *)
SolVals ==
  IF solution.feasible
  THEN {[i \in DOMAIN solution.vars |-> solution.vars[i].val]}
  ELSE [DOMAIN solution.vars -> {0, 1}]

(* The row of the j-th arc of the i-th variable is at <<i, j>>: the rows    *)
(* are written in the order of these pairs.                                *)
Rows(vals) ==
  LET PathsOf(i) == GetPath(solution.vars[i].name)
      PathOf(i)  == CHOOSE path \in PathsOf(i) : TRUE
      columns    == {i \in DOMAIN solution.vars : PathsOf(i) # {}}
      places     == UNION {{i} \X WritePath(PathOf(i), vals[i]) : i \in columns}
  IN  [p \in places |-> [arc   |-> PathOf(p[1]).arcs[p[2]],
                         group |-> PathOf(p[1]).network_group, val |-> vals[p[1]]]]

(* That the file could not be opened is not noticed. *)
ReportResultsCsv ==
  /\ HasKeys({"report_results_csv"}) /\ config.report_results_csv
  /\ \/ Goto("report csv", "free") /\ \E vals \in SolVals : results' \in {<<Rows(vals)>>, << >>}
     \/ Goto("report csv", "killed") /\ ~solution.feasible /\ UNCHANGED results
  /\ UNCHANGED <<setup, parsed, exit_code, solution>>

Free == Goto("free", "exited") /\ UNCHANGED <<setup, parsed, outcome>>

Next ==
  \/ ReadConfig \/ ConfigRejected \/ InitLogging
  \/ CreateScip \/ ReadProblem \/ ScipFails
  \/ Preprocess \/ PreprocessAborts \/ IncludePricer
  \/ Solve \/ SolveAborts \/ ReportScip \/ SkipCsv \/ ReportResultsCsv \/ Free

(* The main thread runs; SCIPsolve returns: its rounds end, see Termination *)
(* of the pricers.                                                          *)
Spec == Init /\ [][Next]_vars /\ WF_vars(Next)

-----------------------------------------------------------------------------
(* Properties *)

(* A name that the LP gives an arc parses to that arc.  A name with one    *)
(* token too many, too few or wrong never parses with its components       *)
(* shifted, although a missing delimiter wraps the positions around: it    *)
(* is no y-variable, aborts the program, or yields an arc that differs in  *)
(* one component, or in the two next to the "," (source.netzwerk and       *)
(* target.laufbahngruppe).                                                 *)
ParsedArc ==
  \A result \in Range(parsed) : \A arc \in result :
    LET wrong == Differences(arc, run.problem.arc)
    IN  /\ Cardinality(wrong) <= 1 \/ wrong = {7, 8}
        /\ run.problem.exact => wrong = {}

(* The names that the tests of the repository use for arcs parse to them. *)
TestedNamesParse ==
  parsed # << >> /\ run.problem.exact => parsed = <<{run.problem.arc}>>

Flow(cols, a) == SumFunction([i \in {j \in DOMAIN cols : a \in Range(cols[j].path.arcs)} |-> cols[i].val])

Written(rows, a) == SumFunction([p \in {q \in DOMAIN rows : rows[q].arc = a} |-> rows[p].val])

OwnNames(cols) == \A i, j \in DOMAIN cols : cols[i].name = cols[j].name => i = j

(* results.csv adds up: if the solution is feasible and no two columns     *)
(* share a name, the values of the rows of an arc sum to the flow that the *)
(* columns of the solution send over it.                                   *)
FlowReported ==
  results # << >> /\ solution.feasible /\ OwnNames(solution.vars) =>
    \A a \in UNION {Range(v.path.arcs) : v \in Range(solution.vars)} :
      Written(results[1], a) = Flow(solution.vars, a)

Keys == {"lp", "graphs", "threadcount", "pricing_strategy", "loglevel",
         "unneeded_constraints_substrings", "report_results_scip", "report_results_csv"}

(* Exit code 0 tells the caller that nothing failed that main checks or    *)
(* lets fall through to the end: every key but logfiles was there, both    *)
(* paths were given, the arguments were accepted, there were graphs and    *)
(* none aborted, no call of SCIP by main failed, and SCIPsolve returned.   *)
(* It tells no more than that: the solution may be infeasible, a graph     *)
(* whose task threw is not missed, an error that generate_columns drops    *)
(* goes unnoticed, and so does a results.csv that cannot be opened.        *)
ExitCodeTruthful ==
  stage = "exited" /\ exit_code = 0 =>
    /\ HasKeys(Keys) /\ PathsGiven /\ VerbosityArgs
    /\ run.graphs \in {"sound", "throws"}
    /\ solution \in Solutions

(* Whatever the configuration and the machine, the program comes to an     *)
(* end: in particular the pool has a thread for the tasks that main awaits. *)
Ends == <>(stage \in {"exited", "killed"})
================================================================================
