------------------------------ MODULE Initialize ------------------------------
(***************************************************************************)
(* What happens between SCIPreadProb and the first pricing round.          *)
(*                                                                         *)
(*   "networks"  generate_networks: one task per graph file fills two maps *)
(*   "maps"      generate_maps: the main thread walks SCIP's constraints,  *)
(*               deletes the unneeded ones, takes the y-variables out of   *)
(*               the others and remembers them                             *)
(*   "ready"     initialize_container has returned, SCIPsolve starts       *)
(*   "solving"   scip_init has replaced the pointers to constraints        *)
(*   "aborted"   ABORT_F                                                   *)
(*                                                                         *)
(* An iteration of the loop of generate_maps is one step: the pool is idle *)
(* by then.  A file is abstracted to the group in its name and its arcs,   *)
(* an entry of a constraint to its position: <<c, k>> carries the arc and  *)
(* the coefficient of the k-th variable of c.                              *)
(***************************************************************************)
EXTENDS Integers, Sequences, FiniteSets, Functions

CONSTANTS
  Workers,     \* the threads of tpool
  Files,       \* the .xml files at graphs_location
  FileGroup,   \* file -> the group in its name, Network::get_group
  FileArcs,    \* file -> the arcs of its edges, arc_list
  Outcomes,    \* what the Network constructor does for each file, one function for each directory
  Netzwerk,    \* arc -> the netzwerk of its source node
  Conss,       \* the constraints of the LP, in SCIP's order
  ConsVars     \* constraint -> its variables: the arc of a y-variable, or NoArc

Groups == {FileGroup[f] : f \in Files}

Arcs == DOMAIN Netzwerk

Constraints == Range(Conss)

NoArc  == "no arc"
NoFile == "no file"

ASSUME InputAssumption ==
  /\ Workers # {}
  /\ IsFiniteSet(Files)
  /\ NoFile \notin Files
  /\ NoArc \notin Arcs
  /\ FileGroup \in [Files -> Groups]
  /\ FileArcs \in [Files -> SUBSET Arcs]
  /\ Outcomes \subseteq [Files -> {"reads", "throws", "aborts"}]

ASSUME ProblemAssumption ==
  /\ Conss \in Seq(Constraints)
  /\ \A i, j \in DOMAIN Conss : Conss[i] = Conss[j] => i = j
  /\ ConsVars \in [Constraints -> Seq(Arcs \cup {NoArc})]

VARIABLES
  (* the input, constant *)
  outcome,          \* the files that are there
  unneeded,         \* constraints with one of unneeded_constraints_substrings in their name
  stage,
  (* tpool *)
  pending,          \* files whose task has not started
  pc,               \* what each worker does next
  file,             \* the file of its task
  (* DataManager *)
  networks,         \* group -> the file its Network was built from
  arc_to_network,   \* netzwerk -> group
  constraints,      \* [cons, arcs] in the order of add_constraint
  arc_to_scip_constraints,   \* arc -> the set of its [cons, pos]
  (* SCIP's problem *)
  conss,            \* the array behind SCIPgetConss
  nconss,           \* how many of its slots are in use
  vars_of,          \* constraint -> the positions of the variables it still has
  modifiable,       \* constraints SCIPsetConsModifiable was called for
  deleted,          \* constraints SCIPdelCons was called for
  (* generate_maps *)
  i                 \* the loop's index, from 1

inputVars == <<outcome, unneeded>>
poolVars == <<pending, pc, file>>
netVars  == <<networks, arc_to_network>>
mapVars  == <<constraints, arc_to_scip_constraints>>
scipVars == <<conss, nconss, vars_of, modifiable, deleted>>
vars     == <<inputVars, stage, poolVars, netVars, mapVars, scipVars, i>>

(* A pointer to a constraint of the original or of the transformed problem. *)
Original(c)    == [cons |-> c, transformed |-> FALSE]
Transformed(p) == [p EXCEPT !.transformed = TRUE]
Pointer        == [cons : Constraints, transformed : BOOLEAN]

Positions == UNION {DOMAIN ConsVars[c] : c \in Constraints}

YVars(c) == {k \in DOMAIN ConsVars[c] : ConsVars[c][k] # NoArc}

YVarsOfArc(c, a) == {k \in YVars(c) : ConsVars[c][k] = a}

TypeOK ==
  /\ stage \in {"networks", "maps", "ready", "solving", "aborted"}
  /\ outcome \in Outcomes
  /\ unneeded \subseteq Constraints
  /\ pending \subseteq Files
  /\ pc \in [Workers -> {"idle", "add_network", "add_arcs"}]
  /\ file \in [Workers -> Files \cup {NoFile}]
  /\ DOMAIN networks \subseteq Groups
  /\ \A g \in DOMAIN networks : networks[g] \in Files
  /\ \A k \in DOMAIN arc_to_network : arc_to_network[k] \in Groups
  /\ constraints \in Seq([cons : Pointer, arcs : SUBSET Positions])
  /\ arc_to_scip_constraints \in [Arcs -> SUBSET [cons : Pointer, pos : Positions]]
  /\ conss \in Seq(Constraints)
  /\ Len(conss) = Len(Conss)
  /\ nconss \in 0 .. Len(Conss)
  /\ vars_of \in [Constraints -> SUBSET Positions]
  /\ modifiable \subseteq Constraints
  /\ deleted \subseteq Constraints
  /\ i \in 1 .. Len(Conss) + 1

Init ==
  /\ outcome \in Outcomes
  /\ unneeded \in SUBSET Constraints
  /\ stage = "networks"
  /\ pending = Files
  /\ pc = [t \in Workers |-> "idle"]
  /\ file = [t \in Workers |-> NoFile]
  /\ networks = << >>
  /\ arc_to_network = << >>
  /\ constraints = << >>
  /\ arc_to_scip_constraints = [a \in Arcs |-> {}]
  /\ conss = Conss
  /\ nconss = Len(Conss)
  /\ vars_of = [c \in Constraints |-> DOMAIN ConsVars[c]]
  /\ modifiable = {}
  /\ deleted = {}
  /\ i = 1

-----------------------------------------------------------------------------
(* generate_networks: the tasks *)

(* Mutant: a task that threw is posted again. *)
ReadNetworkAgain(t) ==
  /\ stage = "networks"
  /\ pc[t] = "idle"
  /\ \E f \in pending :
       /\ pending' = IF outcome[f] = "throws" THEN pending ELSE pending \ {f}
       /\ stage' = IF outcome[f] = "aborts" THEN "aborted" ELSE stage
       /\ IF outcome[f] # "reads"
          THEN UNCHANGED <<pc, file>>
          ELSE /\ pc' = [pc EXCEPT ![t] = "add_network"]
               /\ file' = [file EXCEPT ![t] = f]
  /\ UNCHANGED <<inputVars, netVars, mapVars, scipVars, i>>

(* The Network constructor.  A packaged_task keeps an exception in its     *)
(* future; ABORT_F ends the program.                                       *)
ReadNetwork(t) ==
  /\ stage = "networks"
  /\ pc[t] = "idle"
  /\ \E f \in pending :
       /\ pending' = pending \ {f}
       /\ stage' = IF outcome[f] = "aborts" THEN "aborted" ELSE stage
       /\ IF outcome[f] # "reads"
          THEN UNCHANGED <<pc, file>>
          ELSE /\ pc' = [pc EXCEPT ![t] = "add_network"]
               /\ file' = [file EXCEPT ![t] = f]
  /\ UNCHANGED <<inputVars, netVars, mapVars, scipVars, i>>

(* unordered_map::insert: a key that is there keeps its value. *)
InsertAll(map, keys, value) ==
  [k \in DOMAIN map \cup keys |-> IF k \in DOMAIN map THEN map[k] ELSE value]

AddNetwork(t) ==
  /\ stage = "networks"
  /\ pc[t] = "add_network"
  /\ networks' = InsertAll(networks, {FileGroup[file[t]]}, file[t])
  /\ pc' = [pc EXCEPT ![t] = "add_arcs"]
  /\ UNCHANGED <<inputVars, stage, pending, file, arc_to_network, mapVars, scipVars, i>>

(* Mutant: an arc leads to its netzwerk instead of the group of the file. *)
AddNetzwerkOfArcs(t) ==
  /\ stage = "networks"
  /\ pc[t] = "add_arcs"
  /\ arc_to_network' = [k \in DOMAIN arc_to_network \cup {Netzwerk[a] : a \in FileArcs[file[t]]} |-> k]
  /\ pc' = [pc EXCEPT ![t] = "idle"]
  /\ file' = [file EXCEPT ![t] = NoFile]
  /\ UNCHANGED <<inputVars, stage, pending, networks, mapVars, scipVars, i>>

(* The loop holds arc_to_network_mutex_ to its end. *)
AddArcsOfNetwork(t) ==
  /\ stage = "networks"
  /\ pc[t] = "add_arcs"
  /\ arc_to_network' = InsertAll(arc_to_network, {Netzwerk[a] : a \in FileArcs[file[t]]},
                                 FileGroup[file[t]])
  /\ pc' = [pc EXCEPT ![t] = "idle"]
  /\ file' = [file EXCEPT ![t] = NoFile]
  /\ UNCHANGED <<inputVars, stage, pending, networks, mapVars, scipVars, i>>

(* Mutant: the tasks are started, not awaited. *)
NetworksStarted ==
  /\ stage = "networks"
  /\ pending = {}
  /\ stage' = "maps"
  /\ UNCHANGED <<inputVars, poolVars, netVars, mapVars, scipVars, i>>

(* wait(), not get(): an exception in a future is never seen. *)
NetworksRead ==
  /\ stage = "networks"
  /\ pending = {}
  /\ \A t \in Workers : pc[t] = "idle"
  /\ stage' = IF Files = {} THEN "aborted" ELSE "maps"
  /\ UNCHANGED <<inputVars, poolVars, netVars, mapVars, scipVars, i>>

-----------------------------------------------------------------------------
(* generate_maps *)

(* SCIP moves the last constraint of the array into the gap and leaves the *)
(* slot it came from as it was.                                            *)
SCIPdelCons(c) ==
  /\ \E k \in 1 .. nconss : conss[k] = c /\ conss' = [conss EXCEPT ![k] = conss[nconss]]
  /\ nconss' = nconss - 1
  /\ deleted' = deleted \cup {c}
  /\ UNCHANGED <<vars_of, modifiable>>

(* Mutant: the loop ends at the length the array has now. *)
LoopingToCurrentLength == stage = "maps" /\ i <= nconss

(* The positions of the array from 1 to the length it had before the loop. *)
Looping == stage = "maps" /\ i <= Len(Conss)

(* Mutant: the slot is looked at again, as if the others had moved up. *)
DeleteAndStay ==
  /\ Looping
  /\ conss[i] \in unneeded
  /\ SCIPdelCons(conss[i])
  /\ UNCHANGED <<inputVars, stage, poolVars, netVars, mapVars, i>>

DeleteConstraint ==
  /\ Looping
  /\ conss[i] \in unneeded
  /\ SCIPdelCons(conss[i])
  /\ i' = i + 1
  /\ UNCHANGED <<inputVars, stage, poolVars, netVars, mapVars>>

(* Mutant: the coefficients of the y-variables stay in the constraint. *)
MapConstraintOnly ==
  /\ Looping
  /\ conss[i] \notin unneeded
  /\ LET c == conss[i]
     IN  /\ arc_to_scip_constraints' = [a \in Arcs |-> arc_to_scip_constraints[a] \cup
              {[cons |-> Original(c), pos |-> k] : k \in YVarsOfArc(c, a)}]
         /\ IF YVars(c) # {}
            THEN /\ modifiable' = modifiable \cup {c}
                 /\ constraints' = Append(constraints, [cons |-> Original(c), arcs |-> YVars(c)])
            ELSE UNCHANGED <<modifiable, constraints>>
  /\ i' = i + 1
  /\ UNCHANGED <<inputVars, stage, poolVars, netVars, conss, nconss, vars_of, deleted>>

(* The entries of both maps, the coefficients taken out of the constraint  *)
(* and the mark that lets a pricer add to it; nothing if it has no y.      *)
MapConstraint ==
  /\ Looping
  /\ conss[i] \notin unneeded
  /\ LET c == conss[i]
     IN  /\ arc_to_scip_constraints' = [a \in Arcs |-> arc_to_scip_constraints[a] \cup
              {[cons |-> Original(c), pos |-> k] : k \in YVarsOfArc(c, a)}]
         /\ vars_of' = [vars_of EXCEPT ![c] = @ \ YVars(c)]
         /\ IF YVars(c) # {}
            THEN /\ modifiable' = modifiable \cup {c}
                 /\ constraints' = Append(constraints, [cons |-> Original(c), arcs |-> YVars(c)])
            ELSE UNCHANGED <<modifiable, constraints>>
  /\ i' = i + 1
  /\ UNCHANGED <<inputVars, stage, poolVars, netVars, conss, nconss, deleted>>

InitializeReturns ==
  /\ stage = "maps"
  /\ ~Looping
  /\ stage' = "ready"
  /\ UNCHANGED <<inputVars, poolVars, netVars, mapVars, scipVars, i>>

(* Mutant: only the constraints are updated. *)
UpdateConstraints ==
  /\ constraints' = [k \in DOMAIN constraints |->
                       [constraints[k] EXCEPT !.cons = Transformed(@)]]
  /\ UNCHANGED arc_to_scip_constraints

UpdateConstraintPointers ==
  /\ constraints' = [k \in DOMAIN constraints |->
                       [constraints[k] EXCEPT !.cons = Transformed(@)]]
  /\ arc_to_scip_constraints' = [a \in Arcs |->
       {[e EXCEPT !.cons = Transformed(@)] : e \in arc_to_scip_constraints[a]}]

(* SCIP has transformed the problem, without any presolving yet. *)
ScipInit ==
  /\ stage = "ready"
  /\ stage' = "solving"
  /\ UpdateConstraintPointers
  /\ UNCHANGED <<inputVars, poolVars, netVars, scipVars, i>>

(* A SCIP call of the main thread fails or parse_lp_var rejects a name.    *)
MainAborts ==
  /\ Looping \/ stage = "ready"
  /\ stage' = "aborted"
  /\ UNCHANGED <<inputVars, poolVars, netVars, mapVars, scipVars, i>>

-----------------------------------------------------------------------------

Main ==
  \/ NetworksRead
  \/ DeleteConstraint
  \/ MapConstraint
  \/ InitializeReturns
  \/ ScipInit
  \/ MainAborts

Worker(t) == ReadNetwork(t) \/ AddNetwork(t) \/ AddArcsOfNetwork(t)

(* The solve has started or the program has ended. *)
Stopped == stage \in {"solving", "aborted"} /\ UNCHANGED vars

Next == Main \/ (\E t \in Workers : Worker(t)) \/ Stopped

Spec == Init /\ [][Next]_vars

(* No thread stops in the middle of its work. *)
FairSpec == Spec /\ WF_vars(Main) /\ \A t \in Workers : WF_vars(Worker(t))

-----------------------------------------------------------------------------
(* Properties *)

(* The loop of generate_maps never looks at a constraint it has deleted,   *)
(* although SCIPdelCons changes the array and its length under the loop.   *)
LoopReadsAlive == Looping => conss[i] \notin deleted

(* "all constraints of the LP will be checked, if a constraint contains a  *)
(* substring of this array, it will be deleted" (README.md): the others    *)
(* that had y-variables are stored once each, with all of them.            *)
AllConstraintsChecked ==
  stage \in {"ready", "solving"} =>
    /\ deleted = unneeded
    /\ {constraints[k].cons.cons : k \in DOMAIN constraints} =
         {c \in Constraints \ unneeded : YVars(c) # {}}
    /\ \A k, l \in DOMAIN constraints :
         constraints[k].cons.cons = constraints[l].cons.cons => k = l

(* The two maps of DataManager are inverse to each other whenever the pool *)
(* or SCIP could read them, pointers included: set_arc_weights prices an   *)
(* arc with exactly the entries that add_variable puts its columns in.     *)
MapsInverse ==
  \A a \in Arcs :
    arc_to_scip_constraints[a] =
      UNION {{[cons |-> constraints[k].cons, pos |-> p] :
                p \in {q \in constraints[k].arcs : ConsVars[constraints[k].cons.cons][q] = a}} :
             k \in DOMAIN constraints}

(* What a pricing round does to a constraint is legal: it is in the        *)
(* transformed problem, still there, without y-variables, and modifiable   *)
(* ("assert( SCIPconsIsModifiable(cons) )", add_variable).                 *)
ReadyForPricing ==
  stage = "solving" =>
    \A a \in Arcs : \A e \in arc_to_scip_constraints[a] :
      LET c == e.cons.cons
      IN  /\ e.cons.transformed
          /\ c \in modifiable \ deleted
          /\ vars_of[c] \cap YVars(c) = {}

(* DataManager::get_network for an arc, which aborts if there is none. *)
GetNetwork(a) ==
  LET groups == {arc_to_network[k] : k \in {Netzwerk[a]} \cap DOMAIN arc_to_network}
  IN  {networks[g] : g \in groups \cap DOMAIN networks}

FilesRead == {f \in Files : outcome[f] = "reads"}

(* The files whose group has a file with the netzwerk of the arc: only     *)
(* the netzwerk is the key of arc_to_network_, and only one file of a      *)
(* group gets into networks_.                                              *)
Rivals(a) ==
  {f \in FilesRead : \E g \in FilesRead : \E b \in FileArcs[g] :
     Netzwerk[b] = Netzwerk[a] /\ FileGroup[g] = FileGroup[f]}

(* However the tasks race, and whichever of them end early, get_network    *)
(* does not abort for an arc of a file that was read, and the network it   *)
(* returns was built from one of the arc's rivals.  So it has the arc if   *)
(* all of them have it: it may lack the arc if the netzwerk is in files of *)
(* two groups or if two files of a group differ.                           *)
ArcInItsNetwork ==
  stage \in {"maps", "ready", "solving"} =>
    \A f \in FilesRead : \A a \in FileArcs[f] : \E net \in GetNetwork(a) : net \in Rivals(a)

(* networks_ holds "all networks that are part of the pricing problem"     *)
(* (DataManager.hpp) when generate_networks has returned.                  *)
AllNetworksLoaded == stage \in {"maps", "ready", "solving"} => Groups = DOMAIN networks

(* Preprocessing ends, whatever the files do to the tasks.                 *)
Starts == <>(stage \in {"solving", "aborted"})

=============================================================================
