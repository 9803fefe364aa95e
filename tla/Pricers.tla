------------------------------- MODULE Pricers -------------------------------
(***************************************************************************)
(* exec_main makes one of the two pricers and hands it to SCIP: with a     *)
(* positive pricing_strategy the KShortestPricer with k_ = K, otherwise    *)
(* the FullPricer.  What either does is in its own module.                 *)
(***************************************************************************)
EXTENDS FullPricer, KShortestPricer

VARIABLE pricing_strategy   \* of config.json

pvars == <<kvars, pricing_strategy>>

PInit == KInit /\ pricing_strategy \in {0, K}

ChosenMain ==
  /\ IF pricing_strategy > 0
     THEN Main
     ELSE (MainStep \/ StartTasks) /\ UNCHANGED found
  /\ UNCHANGED pricing_strategy

ChosenWorker(t) ==
  /\ IF pricing_strategy > 0
     THEN Worker(t)
     ELSE (WorkerStep(t) \/ PriceNetwork(t)) /\ UNCHANGED found
  /\ UNCHANGED pricing_strategy

PNext ==
  \/ ChosenMain
  \/ \E t \in Workers : ChosenWorker(t)
  \/ Stopped /\ UNCHANGED <<found, pricing_strategy>>

PSpec == PInit /\ [][PNext]_pvars

PFairSpec ==
  /\ PSpec
  /\ WF_pvars(ChosenMain)
  /\ \A t \in Workers : WF_pvars(ChosenWorker(t))

-----------------------------------------------------------------------------
(* Properties *)

(* "adds only the k shortest negative-length paths as variables" if the    *)
(* configuration asks for it, and otherwise every network's: a network     *)
(* that was passed over had no path of negative length.                    *)
StrategyFollowed ==
  IF pricing_strategy > 0
  THEN KShortestAdded
  ELSE (phase = "cg" /\ AllWaited) =>
         \A g \in Groups :
           IsNegative(Cost(cached[g].length)) <=>
             \E i \in NewColumns : columns[i].path = cached[g].path

=============================================================================
