-------------------------- MODULE Application_proofs --------------------------
(***************************************************************************)
(* Theorems about the application, for every set of inputs and solutions.  *)
(***************************************************************************)
EXTENDS Application, Sums_proofs

Early == {"config", "logging", "scip", "read", "preprocess", "pricer"}

BeforeCsv == Early \cup {"solve", "report scip", "report csv"}

TypeInv == TypeOK /\ (stage \in Early => run \in Runs)

(* What the stages that are over have found in the inputs. *)
PastLogging == {"scip", "read", "preprocess", "pricer", "solve", "report scip", "report csv", "free"}

PastGraphs == {"pricer", "solve", "report scip", "report csv", "free"}

KeysOfConfig == {"lp", "graphs", "threadcount", "pricing_strategy"}

CheckedInv ==
  /\ stage \in PastLogging \cup {"logging"} => HasKeys(KeysOfConfig) /\ PathsGiven
  /\ stage \in PastLogging => HasKeys({"loglevel"}) /\ VerbosityArgs
  /\ stage \in PastGraphs =>
       HasKeys({"unneeded_constraints_substrings"}) /\ run.graphs \in {"sound", "throws"}
  /\ stage \in {"report csv", "free"} => HasKeys({"report_results_scip"})
  /\ stage = "free" => HasKeys({"report_results_csv"})

(* What SCIPsolve left is reported, after it returned. *)
SolvedInv ==
  /\ stage \in {"report scip", "report csv", "free"} => solution \in Solutions
  /\ stage \in BeforeCsv => results = << >>

LEMMA AtMostOne ==
  ASSUME NEW s, s = << >> \/ \E r : s = <<r>>
  PROVE  Len(s) <= 1
<1>1. s = << >> => Len(s) = 0
  OBVIOUS
<1>2. (\E r : s = <<r>>) => Len(s) = 1
  OBVIOUS
<1>3. 0 <= 1 /\ 1 <= 1
  OBVIOUS
<1> QED
  BY <1>1, <1>2, <1>3, Zenon

LEMMA InitInv == Init => TypeInv /\ CheckedInv /\ SolvedInv /\ ExitCodeTruthful /\ FlowReported
<1> SUFFICES ASSUME Init
             PROVE  TypeInv /\ CheckedInv /\ SolvedInv /\ ExitCodeTruthful /\ FlowReported
  OBVIOUS
<1>1. TypeInv
  <2>1. Len(parsed) <= 1 /\ Len(results) <= 1
    BY AtMostOne, Zenon DEF Init
  <2> QED
    BY <2>1 DEF Init, TypeInv, TypeOK
<1>2. SolvedInv /\ CheckedInv /\ ExitCodeTruthful
  BY DEF Init, SolvedInv, CheckedInv, PastLogging, PastGraphs, ExitCodeTruthful
<1>3. FlowReported
  BY DEF Init, FlowReported
<1> QED
  BY <1>1, <1>2, <1>3

LEMMA PoolType == ASSUME TypeInv, stage = "scip" PROVE PoolSize \in Nat
<1>1. run.config.threadcount \in Int /\ run.hardware \in Nat
  BY ApplicationAssumption DEF TypeInv, Early
<1> QED
  BY <1>1 DEF PoolSize, config

LEMMA StepType == TypeInv /\ [Next]_vars => TypeInv'
<1> SUFFICES ASSUME TypeInv, [Next]_vars
             PROVE  TypeInv'
  OBVIOUS
<1> USE DEF TypeInv, TypeOK, Early, setup, outcome, Goto
<1>1. CASE ReadConfig \/ ConfigRejected
  BY <1>1 DEF ReadConfig, ConfigRejected
<1>2. CASE InitLogging
  BY <1>2 DEF InitLogging
<1>3. CASE CreateScip
  BY <1>3, PoolType DEF CreateScip
<1>4. CASE ReadProblem \/ ScipFails
  BY <1>4 DEF ReadProblem, ScipFails
<1>5. CASE Preprocess
  <2>1. Len(parsed') <= 1
    BY <1>5 DEF Preprocess
  <2> QED
    BY <1>5, <2>1 DEF Preprocess
<1>6. CASE PreprocessAborts
  BY <1>6 DEF PreprocessAborts
<1>7. CASE IncludePricer
  <2>1. run.config.pricing_strategy \in Int
    BY <1>7, ApplicationAssumption DEF IncludePricer
  <2>2. pricer' \in Nat
    BY <1>7, <2>1 DEF IncludePricer, config
  <2>3. Len(parsed') <= 1
    BY <1>7 DEF IncludePricer
  <2> QED
    BY <1>7, <2>2, <2>3 DEF IncludePricer
<1>8. CASE Solve \/ SolveAborts \/ ReportScip \/ SkipCsv \/ Free
  BY <1>8 DEF Solve, SolveAborts, ReportScip, SkipCsv, Free
<1>9. CASE ReportResultsCsv
  <2>1. Len(results') <= 1
    <3>1. results' = results \/ results' = << >> \/ \E r : results' = <<r>>
      BY <1>9 DEF ReportResultsCsv
    <3>2. results' = results => Len(results') <= 1
      BY Zenon
    <3> QED
      BY <3>1, <3>2, AtMostOne, Zenon
  <2> QED
    BY <1>9, <2>1 DEF ReportResultsCsv
<1>10. CASE UNCHANGED vars
  BY <1>10 DEF vars
<1> QED
  BY <1>1, <1>2, <1>3, <1>4, <1>5, <1>6, <1>7, <1>8, <1>9, <1>10 DEF Next

LEMMA StepSolved == TypeInv /\ SolvedInv /\ [Next]_vars => SolvedInv'
<1> SUFFICES ASSUME TypeInv, SolvedInv, [Next]_vars
             PROVE  SolvedInv'
  OBVIOUS
<1> USE DEF SolvedInv, BeforeCsv, Early, setup, outcome, Goto
<1>1. CASE ReadConfig \/ ConfigRejected \/ InitLogging \/ CreateScip \/ ReadProblem \/ ScipFails
  BY <1>1 DEF ReadConfig, ConfigRejected, InitLogging, CreateScip, ReadProblem, ScipFails
<1>2. CASE Preprocess \/ PreprocessAborts \/ IncludePricer
  BY <1>2 DEF Preprocess, PreprocessAborts, IncludePricer
<1>3. CASE Solve \/ SolveAborts \/ ReportScip \/ SkipCsv \/ Free
  BY <1>3 DEF Solve, SolveAborts, ReportScip, SkipCsv, Free
<1>4. CASE ReportResultsCsv
  BY <1>4 DEF ReportResultsCsv
<1>5. CASE UNCHANGED vars
  BY <1>5 DEF vars
<1> QED
  BY <1>1, <1>2, <1>3, <1>4, <1>5 DEF Next

(* What was found stays found: no step changes the inputs but               *)
(* IncludePricer, which drops the problem.                                 *)
LEMMA InputsKept ==
  ASSUME TypeInv, [Next]_vars
  PROVE  run'.config = run.config /\ run'.argv = run.argv /\ run'.graphs = run.graphs
<1>1. CASE IncludePricer
  <2>1. run \in Runs /\ run' = [run EXCEPT !.problem = NoProblem]
    BY <1>1 DEF IncludePricer, Goto, TypeInv, Early
  <2>2. DOMAIN run = {"config", "argv", "hardware", "problem", "graphs"}
    BY <2>1, ApplicationAssumption
  <2> QED
    BY <2>1, <2>2
<1>2. CASE ~ IncludePricer
  <2>1. run' = run
    BY <1>2 DEF Next, vars, setup, ReadConfig, ConfigRejected, InitLogging, CreateScip, ReadProblem, ScipFails,
       Preprocess, PreprocessAborts, Solve, SolveAborts, ReportScip, SkipCsv, ReportResultsCsv, Free
  <2> QED
    BY <2>1
<1> QED
  BY <1>1, <1>2

LEMMA StepChecked == TypeInv /\ CheckedInv /\ [Next]_vars => CheckedInv'
<1> SUFFICES ASSUME TypeInv, CheckedInv, [Next]_vars
             PROVE  CheckedInv'
  OBVIOUS
<1>1. /\ \A keys : HasKeys(keys)' <=> HasKeys(keys)
      /\ PathsGiven' <=> PathsGiven
      /\ VerbosityArgs' <=> VerbosityArgs
      /\ run'.graphs = run.graphs
  BY InputsKept DEF HasKeys, config, PathsGiven, PathsInConfig, VerbosityArgs, IsVerbosity
<1> USE DEF CheckedInv, PastLogging, PastGraphs, KeysOfConfig, Goto
<1>2. CASE ReadConfig \/ ConfigRejected
  BY <1>1, <1>2 DEF ReadConfig, ConfigRejected
<1>3. CASE InitLogging
  BY <1>1, <1>3 DEF InitLogging
<1>4. CASE CreateScip \/ ReadProblem \/ ScipFails
  BY <1>1, <1>4 DEF CreateScip, ReadProblem, ScipFails
<1>5. CASE Preprocess \/ PreprocessAborts \/ IncludePricer
  BY <1>1, <1>5 DEF Preprocess, PreprocessAborts, IncludePricer
<1>6. CASE Solve \/ SolveAborts
  BY <1>1, <1>6 DEF Solve, SolveAborts
<1>7. CASE ReportScip
  BY <1>1, <1>7 DEF ReportScip
<1>8. CASE SkipCsv
  BY <1>1, <1>8 DEF SkipCsv
<1>9. CASE ReportResultsCsv
  BY <1>1, <1>9 DEF ReportResultsCsv
<1>10. CASE Free
  BY <1>1, <1>10 DEF Free
<1>11. CASE UNCHANGED vars
  BY <1>1, <1>11 DEF vars
<1> QED
  BY <1>2, <1>3, <1>4, <1>5, <1>6, <1>7, <1>8, <1>9, <1>10, <1>11 DEF Next

(* The program leaves with exit code 0 from the last stage only. *)
LEMMA StepExit == TypeInv /\ CheckedInv /\ SolvedInv /\ ExitCodeTruthful /\ [Next]_vars => ExitCodeTruthful'
<1> SUFFICES ASSUME TypeInv, CheckedInv, SolvedInv, ExitCodeTruthful, [Next]_vars, (stage = "exited")', (exit_code = 0)'
             PROVE  (HasKeys(Keys) /\ PathsGiven /\ VerbosityArgs)' /\ run'.graphs \in {"sound", "throws"}
                    /\ solution' \in Solutions
  BY DEF ExitCodeTruthful
<1>1. /\ HasKeys(Keys)' <=> HasKeys(Keys)
      /\ PathsGiven' <=> PathsGiven
      /\ VerbosityArgs' <=> VerbosityArgs
      /\ run'.graphs = run.graphs
  BY InputsKept DEF HasKeys, Keys, config, PathsGiven, PathsInConfig, VerbosityArgs, IsVerbosity
<1>2. CASE Free
  <2>1. stage = "free" /\ solution' = solution
    BY <1>2 DEF Free, Goto, outcome
  <2>2. HasKeys(Keys) /\ PathsGiven /\ VerbosityArgs /\ run.graphs \in {"sound", "throws"}
    BY <2>1 DEF CheckedInv, PastLogging, PastGraphs, KeysOfConfig, HasKeys, Keys
  <2>3. solution \in Solutions
    BY <2>1 DEF SolvedInv
  <2> QED
    BY <1>1, <2>1, <2>2, <2>3
<1>3. CASE UNCHANGED vars
  BY <1>1, <1>3 DEF vars, outcome, ExitCodeTruthful
<1>4. CASE ~ Free /\ ~ UNCHANGED vars
  BY <1>4 DEF Next, Goto, outcome, ReadConfig, ConfigRejected, InitLogging, CreateScip, ReadProblem, ScipFails,
     Preprocess, PreprocessAborts, IncludePricer, Solve, SolveAborts, ReportScip, SkipCsv, ReportResultsCsv
<1> QED
  BY <1>2, <1>3, <1>4

(* The stages, the exit code and what the stages leave behind keep their   *)
(* types; the pool gets a size whatever the configuration asks for and     *)
(* hardware_concurrency() knows.                                           *)
THEOREM TypeCorrect == Spec => []TypeOK
<1>1. TypeInv => TypeOK
  BY DEF TypeInv
<1> QED
  BY <1>1, InitInv, StepType, PTL DEF Spec

(* Exit code 0 is for runs in which the inputs that main needs were all    *)
(* there, no call of SCIP by main failed and SCIPsolve returned, whatever  *)
(* the inputs: what is found wrong becomes 1 or kills the program.         *)
THEOREM ExitCodeIsTruthful == Spec => []ExitCodeTruthful
BY InitInv, StepType, StepChecked, StepSolved, StepExit, PTL DEF Spec

-----------------------------------------------------------------------------
(* results.csv *)

Cols == solution.vars

LEMMA ColumnFacts ==
  ASSUME solution \in Solutions
  PROVE  /\ IsFiniteSet(DOMAIN Cols) /\ DOMAIN Cols \subseteq Nat
         /\ \A i \in DOMAIN Cols :
              /\ Cols[i].val \in Int
              /\ Cols[i].path.arcs # << >> => Cols[i].val >= 0
              /\ Cols[i].path.arcs \in Seq(Range(Cols[i].path.arcs)) /\ IsInjective(Cols[i].path.arcs)
<1>1. Cols \in Seq(Range(Cols))
  BY ApplicationAssumption DEF Cols
<1>2. DOMAIN Cols = 1 .. Len(Cols) /\ Len(Cols) \in Nat
  BY <1>1
<1>3. IsFiniteSet(DOMAIN Cols) /\ DOMAIN Cols \subseteq Nat
  BY <1>2, FS_Interval
<1>4. \A i \in DOMAIN Cols : Cols[i] \in Range(Cols)
  BY DEF Range
<1> QED
  BY <1>3, <1>4, ApplicationAssumption DEF Cols

(* A name of its own leads to the path of its variable. *)
LEMMA OwnPath ==
  ASSUME solution \in Solutions, OwnNames(Cols), NEW i \in DOMAIN Cols
  PROVE  GetPath(Cols[i].name) = IF Cols[i].path.arcs # << >> THEN {Cols[i].path} ELSE {}
<1> DEFINE stored == {j \in DOMAIN Cols : Cols[j].name = Cols[i].name /\ Cols[j].path.arcs # << >>}
           first  == {j \in stored : \A k \in stored : j <= k}
<1>1. stored = IF Cols[i].path.arcs # << >> THEN {i} ELSE {}
  BY DEF OwnNames
<1>2. i \in Nat
  BY ColumnFacts
<1>3. first = stored
  <2>1. \A j, k \in stored : j = i /\ k = i
    BY <1>1
  <2> HIDE DEF stored
  <2>2. \A j, k \in stored : j <= k
    BY <1>2, <2>1
  <2> QED
    BY <2>2
<1>4. GetPath(Cols[i].name) = {Cols[j].path : j \in first}
  BY DEF GetPath, Cols
<1> HIDE DEF first, stored
<1> QED
  BY <1>1, <1>3, <1>4

Vals == [i \in DOMAIN Cols |-> Cols[i].val]

(* Each arc of a column that is not 0 has a row. *)
LEMMA RowsFacts ==
  ASSUME solution \in Solutions, OwnNames(Cols), NEW R, R = Rows(Vals)
  PROVE  /\ \A p : p \in DOMAIN R <=> \E i \in DOMAIN Cols : Cols[i].val > 0 /\ \E j \in DOMAIN Cols[i].path.arcs : p = <<i, j>>
         /\ \A p \in DOMAIN R : R[p].arc = Cols[p[1]].path.arcs[p[2]] /\ R[p].val = Cols[p[1]].val
<1> DEFINE PathsOf(i) == GetPath(Cols[i].name)
           PathOf(i)  == CHOOSE path \in PathsOf(i) : TRUE
           columns    == {i \in DOMAIN Cols : PathsOf(i) # {}}
           places     == UNION {{i} \X WritePath(PathOf(i), Vals[i]) : i \in columns}
<1>1. R = [p \in places |-> [arc |-> PathOf(p[1]).arcs[p[2]], group |-> PathOf(p[1]).network_group, val |-> Vals[p[1]]]]
  BY DEF Rows, Cols
<1>2. ASSUME NEW i \in DOMAIN Cols
      PROVE  PathsOf(i) = IF Cols[i].path.arcs # << >> THEN {Cols[i].path} ELSE {}
  BY OwnPath
<1> HIDE DEF PathsOf
<1>3. ASSUME NEW i \in DOMAIN Cols
      PROVE  /\ i \in columns <=> Cols[i].path.arcs # << >>
             /\ i \in columns => PathOf(i) = Cols[i].path
  BY <1>2
<1>4. ASSUME NEW i \in DOMAIN Cols, NEW j \in DOMAIN Cols[i].path.arcs
      PROVE  i \in columns
  <2>1. Cols[i].path.arcs # << >>
    OBVIOUS
  <2> QED
    BY <1>3, <2>1
<1>5. columns \subseteq DOMAIN Cols
  OBVIOUS
<1> HIDE DEF PathOf, columns
<1>6. ASSUME NEW p
      PROVE  p \in places <=> \E i \in DOMAIN Cols : Cols[i].val > 0 /\ \E j \in DOMAIN Cols[i].path.arcs : p = <<i, j>>
  <2>1. p \in places <=> \E i \in columns : \E j \in WritePath(PathOf(i), Vals[i]) : p = <<i, j>>
    OBVIOUS
  <2>2. \A i \in columns : WritePath(PathOf(i), Vals[i]) = IF Cols[i].val > 0 THEN DOMAIN Cols[i].path.arcs ELSE {}
    BY <1>3, <1>5 DEF WritePath, Vals
  <2> HIDE DEF places
  <2> QED
    BY <1>4, <1>5, <2>1, <2>2
<1>7. \A p \in places : p[1] \in columns
  OBVIOUS
<1> HIDE DEF places
<1>8. DOMAIN R = places
  BY <1>1
<1>9. ASSUME NEW p \in places
      PROVE  R[p].arc = Cols[p[1]].path.arcs[p[2]] /\ R[p].val = Cols[p[1]].val
  <2>1. R[p].arc = PathOf(p[1]).arcs[p[2]] /\ R[p].val = Vals[p[1]]
    BY <1>1
  <2>2. p[1] \in DOMAIN Cols /\ PathOf(p[1]) = Cols[p[1]].path
    BY <1>3, <1>5, <1>7
  <2> QED
    BY <2>1, <2>2 DEF Vals
<1> QED
  BY <1>6, <1>8, <1>9

LEMMA RowsAddUp ==
  ASSUME solution \in Solutions, OwnNames(Cols), NEW R, R = Rows(Vals), NEW a
  PROVE  Written(R, a) = Flow(Cols, a)
<1> DEFINE A == {q \in DOMAIN R : R[q].arc = a}
           B == {j \in DOMAIN Cols : a \in Range(Cols[j].path.arcs)}
           f == [p \in A |-> R[p].val]
           g == [i \in B |-> Cols[i].val]
           h == [p \in A |-> p[1]]
<1>1. ASSUME NEW p \in A
      PROVE  /\ p[1] \in B /\ p[2] \in DOMAIN Cols[p[1]].path.arcs /\ p = <<p[1], p[2]>>
             /\ Cols[p[1]].path.arcs[p[2]] = a /\ R[p].val = Cols[p[1]].val
  <2>0. PICK i \in DOMAIN Cols : \E j \in DOMAIN Cols[i].path.arcs : p = <<i, j>>
    BY RowsFacts
  <2>1. PICK j \in DOMAIN Cols[i].path.arcs : p = <<i, j>>
    BY <2>0
  <2>2. R[p].arc = a /\ R[p].arc = Cols[i].path.arcs[j] /\ R[p].val = Cols[i].val
    BY <2>1, RowsFacts
  <2> QED
    BY <2>1, <2>2 DEF Range
<1>2. h \in [A -> B] /\ \A p \in A : h[p] = p[1]
  BY <1>1
<1>3. ASSUME NEW p \in A, NEW q \in A, h[p] = h[q]
      PROVE  p = q
  <2>1. IsInjective(Cols[p[1]].path.arcs)
    BY <1>1, ColumnFacts
  <2>2. p[1] = q[1]
    BY <1>2, <1>3
  <2>3. p[2] = q[2]
    BY <1>1, <2>1, <2>2 DEF IsInjective
  <2> QED
    BY <1>1, <2>2, <2>3
<1>4. IsFiniteSet(B) /\ \A i \in B : Cols[i].val \in Int
  BY ColumnFacts, FS_Subset
<1>5. f \in [A -> Int] /\ g \in [B -> Int] /\ \A p \in A : f[p] = g[h[p]]
  BY <1>1, <1>2, <1>4
<1>6. ASSUME NEW i \in B, \A p \in A : h[p] # i
      PROVE  g[i] = 0
  <2>1. PICK j \in DOMAIN Cols[i].path.arcs : Cols[i].path.arcs[j] = a
    BY DEF Range
  <2>2. CASE Cols[i].val > 0
    <3>1. <<i, j>> \in DOMAIN R
      BY <2>1, <2>2, RowsFacts
    <3>2. R[<<i, j>>].arc = a
      BY <2>1, <3>1, RowsFacts
    <3>3. h[<<i, j>>] = i
      BY <3>1, <3>2
    <3> QED
      BY <1>6, <3>1, <3>2, <3>3
  <2>3. CASE ~ (Cols[i].val > 0)
    <3>1. Cols[i].path.arcs # << >>
      BY <2>1
    <3>2. Cols[i].val \in Int /\ Cols[i].val >= 0
      BY <3>1, ColumnFacts
    <3> QED
      BY <2>3, <3>2
  <2> QED
    BY <2>2, <2>3
<1> HIDE DEF A, B, f, g, h
<1>7. IsFiniteSet(A)
  <2>1. h \in Injection(A, B)
    BY <1>2, <1>3 DEF Injection, IsInjective
  <2> QED
    BY <1>4, <2>1, FS_Injection
<1>8. SumFunction(f) = SumFunction(g)
  <2>1. Renames(h, A, f, B, g)
    BY <1>2, <1>3, <1>4, <1>5, <1>6 DEF Renames
  <2> QED
    BY <1>4, <1>7, <2>1, SumRenamed
<1> QED
  BY <1>8 DEF A, B, f, g, Written, Flow

LEMMA StepFlow == TypeInv /\ SolvedInv /\ FlowReported /\ [Next]_vars => FlowReported'
<1> SUFFICES ASSUME TypeInv, SolvedInv, FlowReported, [Next]_vars
             PROVE  FlowReported'
  OBVIOUS
<1>1. CASE UNCHANGED <<solution, results>>
  <2>1. solution' = solution /\ results' = results
    BY <1>1
  <2> QED
    BY <2>1, Zenon DEF FlowReported
<1>2. CASE Solve
  <2>1. results' = << >>
    BY <1>2 DEF Solve, SolvedInv, BeforeCsv, Goto
  <2> QED
    BY <2>1 DEF FlowReported
<1>3. CASE ReportResultsCsv
  <2>1. solution' = solution /\ solution \in Solutions /\ (stage = "report csv")
    BY <1>3 DEF ReportResultsCsv, SolvedInv, Goto
  <2>2. results = << >>
    BY <2>1 DEF SolvedInv, BeforeCsv
  <2>3. results' = << >> \/ \E vals \in SolVals : results' = <<Rows(vals)>>
    BY <1>3, <2>2 DEF ReportResultsCsv
  <2>4. CASE results' = << >>
    BY <2>4 DEF FlowReported
  <2>5. CASE solution.feasible /\ results' # << >>
    <3>1. SolVals = {Vals}
      BY <2>5 DEF SolVals, Vals, Cols
    <3>2. results' = <<Rows(Vals)>>
      BY <2>3, <2>5, <3>1
    <3>3. results'[1] = Rows(Vals)
      BY <3>2
    <3>4. OwnNames(Cols) => \A a : Written(Rows(Vals), a) = Flow(Cols, a)
      BY <2>1, RowsAddUp
    <3> QED
      BY <2>1, <3>3, <3>4, Zenon DEF FlowReported, Cols
  <2>6. CASE ~ solution.feasible
    BY <2>1, <2>6 DEF FlowReported
  <2> QED
    BY <2>4, <2>5, <2>6
<1>4. CASE ~ Solve /\ ~ ReportResultsCsv
  BY <1>1, <1>4 DEF Next, ReadConfig, ConfigRejected, InitLogging, CreateScip, ReadProblem, ScipFails, Preprocess,
     PreprocessAborts, IncludePricer, SolveAborts, ReportScip, SkipCsv, Free, outcome, vars
<1> QED
  BY <1>2, <1>3, <1>4

(* results.csv adds up, whatever the solution: if no two variables share a *)
(* name, the rows of an arc sum to the flow of the columns over it.        *)
THEOREM FlowIsReported == Spec => []FlowReported
BY InitInv, StepType, StepSolved, StepFlow, PTL DEF Spec

================================================================================
