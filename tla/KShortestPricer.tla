--------------------------- MODULE KShortestPricer ---------------------------
(***************************************************************************)
(* KShortestPricer::shortest_path_cg: all shortest paths first, then one   *)
(* task for each of the k_ shortest ones with negative length.             *)
(*                                                                         *)
(*   "paths"  Network::shortest_path, one task per network                 *)
(*   "cg"     generate_columns, one task per chosen path                   *)
(***************************************************************************)
EXTENDS ObjPricerGFCG

CONSTANT K   \* k_, the constructor asserts that it is positive

ASSUME KAssumption == K \in Nat \ {0}

VARIABLE found   \* group -> what its future in path_futures gives

kvars == <<vars, found>>

KTypeOK == TypeOK /\ found \in [Groups -> PathRecord \cup {EmptyPath}]

KInit == Init /\ found = [g \in Groups |-> EmptyPath]

StartPathTasks == StartShortestPaths("paths") /\ UNCHANGED found

FindPath(t) ==
  /\ phase = "paths"
  /\ pc[t] = "idle"
  /\ \E g \in pending : \E r \in ShortestPaths(g) :
       /\ pending' = pending \ {g}
       /\ CacheShortestPath(g, r)
       /\ found' = [found EXCEPT ![g] = r]
  /\ UNCHANGED <<phase, pc, scipVars, weight, weightVars, columnVars, sharedVars>>

LengthFound(g) == Cost(found[g].length)

(* negative_length_paths: one path per network at most. *)
NegativeLengthPaths == {g \in Groups : IsNegative(LengthFound(g))}

(* Mutant: the paths are not sorted. *)
UnsortedSelections ==
  IF K < Cardinality(NegativeLengthPaths)
  THEN {S \in SUBSET NegativeLengthPaths : Cardinality(S) = K}
  ELSE {NegativeLengthPaths}

(* The first k_ of them after std::sort, which orders ties in any way; all *)
(* of them if there are not more than k_.                                  *)
Selections ==
  IF K < Cardinality(NegativeLengthPaths)
  THEN {S \in SUBSET NegativeLengthPaths :
          /\ Cardinality(S) = K
          /\ \A g \in S, h \in NegativeLengthPaths \ S : LengthFound(g) <= LengthFound(h)}
  ELSE {NegativeLengthPaths}

SelectPaths ==
  /\ phase = "paths"
  /\ AllWaited
  /\ \E S \in Selections : Post(S)
  /\ phase' = "cg"
  /\ UNCHANGED <<pc, scipVars, networkVars, weightVars, columnVars, sharedVars, found>>

(* A task for a selected path; it asks once more whether it is negative. *)
PricePath(t) ==
  /\ phase = "cg"
  /\ pc[t] = "idle"
  /\ \E g \in pending :
       /\ pending' = pending \ {g}
       /\ IF IsNegative(LengthFound(g))
          THEN BeginColumn(t, found[g].path)
          ELSE UNCHANGED <<pc, path>>
  /\ UNCHANGED <<phase, scipVars, networkVars, weightVars, varname, var, left, sharedVars, found>>

Main ==
  \/ MainStep /\ UNCHANGED found
  \/ StartPathTasks
  \/ SelectPaths

Worker(t) ==
  \/ WorkerStep(t) /\ UNCHANGED found
  \/ FindPath(t)
  \/ PricePath(t)

KNext ==
  \/ Main
  \/ \E t \in Workers : Worker(t)
  \/ Stopped /\ UNCHANGED found

KSpec == KInit /\ [][KNext]_kvars

(* As for FullPricer: no thread stops in the middle of its work. *)
KFairness == WF_kvars(Main) /\ \A t \in Workers : WF_kvars(Worker(t))

KFairSpec == KSpec /\ KFairness

-----------------------------------------------------------------------------
(* Properties *)

NewColumns == {i \in DOMAIN columns : i > solved}

(* "adds only the k shortest negative-length paths as variables"           *)
(* (KShortestPricer.hpp): in the end a round has added K paths, or one for *)
(* every network whose shortest path is negative, and no network that was  *)
(* passed over had a shorter one.                                          *)
KShortestAdded ==
  (phase = "cg" /\ pending = {} /\ \A t \in Workers : pc[t] = "idle") =>
    LET added == {PathGroup[columns[i].path] : i \in NewColumns}
    IN  /\ Cardinality(NewColumns) = Cardinality(added)
        /\ \/ Cardinality(added) = K
           \/ Cardinality(added) < K /\ added = NegativeLengthPaths
        /\ \A g \in Groups \ added :
             IsNegative(LengthFound(g)) => \A h \in added : LengthFound(h) <= LengthFound(g)

=============================================================================
