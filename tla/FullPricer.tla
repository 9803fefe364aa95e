------------------------------ MODULE FullPricer ------------------------------
(***************************************************************************)
(* FullPricer::shortest_path_cg: one task per network computes the         *)
(* shortest path and adds it as a column if its length is negative.        *)
(***************************************************************************)
EXTENDS ObjPricerGFCG

StartTasks == StartShortestPaths("cg")

PriceNetwork(t) ==
  /\ phase = "cg"
  /\ pc[t] = "idle"
  /\ \E g \in pending : \E r \in ShortestPaths(g) :
       /\ pending' = pending \ {g}
       /\ CacheShortestPath(g, r)
       /\ IF IsNegative(Cost(r.length))
          THEN BeginColumn(t, r.path)
          ELSE UNCHANGED <<pc, path>>
  /\ UNCHANGED <<phase, scipVars, weight, weightVars, varname, var, left, sharedVars>>

Next ==
  \/ MainStep
  \/ StartTasks
  \/ \E t \in Workers : WorkerStep(t) \/ PriceNetwork(t)
  \/ Stopped

Spec == Init /\ [][Next]_vars

(* The main thread runs, SCIP finishes an LP solve, and every worker of    *)
(* the pool that can take a step of a task does so.                        *)
Fairness ==
  /\ WF_vars(MainStep \/ StartTasks)
  /\ \A t \in Workers : WF_vars(WorkerStep(t) \/ PriceNetwork(t))

FairSpec == Spec /\ Fairness

-----------------------------------------------------------------------------
(* Properties *)

(* The conditions of SomeoneGoesOn are all that is waited for: whoever     *)
(* they let go on finds a dual solution, a shortest path, a coefficient,   *)
(* and nobody else has a step.                                             *)
GuardsAreExact == SomeoneGoesOn <=> ENABLED Next

=============================================================================
