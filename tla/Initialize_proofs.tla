-------------------------- MODULE Initialize_proofs --------------------------
(***************************************************************************)
(* Proofs about Initialize, for any files, LP, number of threads and       *)
(* choice of unneeded constraints.                                         *)
(***************************************************************************)
EXTENDS Initialize, FiniteSetTheorems, TLAPS

(* A worker in the middle of a task has a file. *)
TaskOK ==
  /\ stage \in {"networks", "aborted"} \/ \A t \in Workers : pc[t] = "idle"
  /\ \A t \in Workers : pc[t] # "idle" => file[t] \in Files

TypeInv == TypeOK /\ TaskOK

LEMMA ConstraintFacts ==
  /\ Len(Conss) \in Nat
  /\ DOMAIN Conss = 1 .. Len(Conss)
  /\ \A k \in 1 .. Len(Conss) : Conss[k] \in Constraints
  /\ \A c \in Constraints : \E k \in 1 .. Len(Conss) : c = Conss[k]
  /\ \A j, k \in 1 .. Len(Conss) : Conss[j] = Conss[k] => j = k
  /\ \A c \in Constraints : DOMAIN ConsVars[c] \subseteq Positions /\ YVars(c) \subseteq Positions
BY ProblemAssumption DEF Constraints, Range, Positions, YVars

LEMMA InitType == Init => TypeInv
<1> SUFFICES ASSUME Init PROVE TypeInv
  OBVIOUS
<1>1. conss \in Seq(Constraints) /\ Len(conss) = Len(Conss)
  BY ProblemAssumption DEF Init
<1>2. vars_of \in [Constraints -> SUBSET Positions]
  BY ConstraintFacts DEF Init
<1>3. DOMAIN networks = {} /\ DOMAIN arc_to_network = {}
  BY DEF Init
<1>4. QED
  BY <1>1, <1>2, <1>3, ConstraintFacts DEF Init, TypeInv, TypeOK, TaskOK

LEMMA ElementsOfConstraints ==
  ASSUME TypeInv
  PROVE  \A k \in DOMAIN constraints : constraints[k] \in [cons : Pointer, arcs : SUBSET Positions]
<1> DEFINE S == [cons : Pointer, arcs : SUBSET Positions]
<1>1. constraints \in Seq(S)
  BY DEF TypeInv, TypeOK
<1> HIDE DEF S
<1>2. \A k \in DOMAIN constraints : constraints[k] \in S
  BY <1>1
<1>3. QED
  BY <1>2 DEF S

LEMMA WorkerType == ASSUME TypeInv, NEW t \in Workers, Worker(t) PROVE TypeInv'
<1> USE DEF TypeInv, TypeOK, TaskOK
<1>1. CASE ReadNetwork(t)
  BY <1>1 DEF ReadNetwork, netVars, mapVars, scipVars, inputVars
<1>2. CASE AddNetwork(t)
  <2>1. file[t] \in Files /\ FileGroup[file[t]] \in Groups
    BY <1>2, InputAssumption DEF AddNetwork, Groups
  <2>2. DOMAIN networks' = DOMAIN networks \cup {FileGroup[file[t]]}
    BY <1>2 DEF AddNetwork, InsertAll
  <2>3. \A g \in DOMAIN networks' : networks'[g] \in Files
    BY <1>2, <2>1, <2>2 DEF AddNetwork, InsertAll
  <2>4. QED
    BY <1>2, <2>1, <2>2, <2>3 DEF AddNetwork, mapVars, scipVars, inputVars
<1>3. CASE AddArcsOfNetwork(t)
  <2>1. file[t] \in Files /\ FileGroup[file[t]] \in Groups
    BY <1>3, InputAssumption DEF AddArcsOfNetwork, Groups
  <2>2. \A k \in DOMAIN arc_to_network' : arc_to_network'[k] \in Groups
    BY <1>3, <2>1 DEF AddArcsOfNetwork, InsertAll
  <2>3. QED
    BY <1>3, <2>2 DEF AddArcsOfNetwork, mapVars, scipVars, inputVars
<1>4. QED
  BY <1>1, <1>2, <1>3 DEF Worker

LEMMA MainType == ASSUME TypeInv, Main PROVE TypeInv'
<1> USE DEF TypeInv, TypeOK, TaskOK
<1>1. CASE NetworksRead
  BY <1>1 DEF NetworksRead, poolVars, netVars, mapVars, scipVars, inputVars
<1>2. CASE DeleteConstraint
  <2>1. PICK k \in 1 .. nconss : conss' = [conss EXCEPT ![k] = conss[nconss]]
    BY <1>2 DEF DeleteConstraint, SCIPdelCons
  <2>2. i \in 1 .. Len(Conss) /\ i' = i + 1
    BY <1>2 DEF DeleteConstraint, Looping
  <2>3. conss[nconss] \in Constraints /\ conss[i] \in Constraints /\ nconss \in Nat
    <3>1. \A j \in 1 .. Len(Conss) : conss[j] \in Constraints
      BY ConstraintFacts
    <3>2. nconss \in 1 .. Len(Conss)
      BY <2>1, ConstraintFacts
    <3>3. QED
      BY <2>2, <3>1, <3>2
  <2>4. conss' \in Seq(Constraints) /\ Len(conss') = Len(Conss)
    BY <2>1, <2>3
  <2>5. nconss' \in 0 .. Len(Conss)
    BY <1>2, <2>1, ConstraintFacts, SMTT(30) DEF DeleteConstraint, SCIPdelCons
  <2>6. i' \in 1 .. Len(Conss) + 1
    BY <2>2, ConstraintFacts
  <2>7. deleted' \subseteq Constraints
    BY <1>2, <2>3 DEF DeleteConstraint, SCIPdelCons
  <2>8. QED
    BY <1>2, <2>4, <2>5, <2>6, <2>7
       DEF DeleteConstraint, SCIPdelCons, poolVars, netVars, mapVars, inputVars
<1>3. CASE MapConstraint
  <2> DEFINE c == conss[i]
  <2>1. i \in 1 .. Len(Conss) /\ i' = i + 1
    BY <1>3 DEF MapConstraint, Looping
  <2>2. i' \in 1 .. Len(Conss) + 1
    BY <2>1, ConstraintFacts
  <2>3. c \in Constraints /\ Original(c) \in Pointer
    BY <2>1, ConstraintFacts DEF Original, Pointer
  <2>4. YVars(c) \subseteq Positions /\ \A a \in Arcs : YVarsOfArc(c, a) \subseteq Positions
    BY <2>3, ConstraintFacts DEF YVarsOfArc
  <2>5. arc_to_scip_constraints' \in [Arcs -> SUBSET [cons : Pointer, pos : Positions]]
    BY <1>3, <2>3, <2>4 DEF MapConstraint
  <2>6. vars_of' \in [Constraints -> SUBSET Positions]
    BY <1>3, <2>3 DEF MapConstraint
  <2>7. constraints' \in Seq([cons : Pointer, arcs : SUBSET Positions]) /\ modifiable' \subseteq Constraints
    <3>1. CASE YVars(c) = {}
      BY <1>3, <3>1 DEF MapConstraint
    <3>2. CASE YVars(c) # {}
      <4>1. [cons |-> Original(c), arcs |-> YVars(c)] \in [cons : Pointer, arcs : SUBSET Positions]
        BY <2>3, <2>4
      <4>2. modifiable' \subseteq Constraints
        BY <1>3, <2>3, <3>2 DEF MapConstraint
      <4>3. constraints' = Append(constraints, [cons |-> Original(c), arcs |-> YVars(c)])
        BY <1>3, <3>2 DEF MapConstraint
      <4> HIDE DEF c
      <4>4. constraints' \in Seq([cons : Pointer, arcs : SUBSET Positions])
        BY <4>1, <4>3
      <4>5. QED
        BY <4>2, <4>4
    <3>3. QED
      BY <3>1, <3>2
  <2>8. QED
    BY <1>3, <2>2, <2>5, <2>6, <2>7 DEF MapConstraint, poolVars, netVars, inputVars
<1>4. CASE InitializeReturns
  BY <1>4 DEF InitializeReturns, poolVars, netVars, mapVars, scipVars, inputVars
<1>5. CASE ScipInit
  <2>1. \A p \in Pointer : Transformed(p) \in Pointer
    BY DEF Pointer, Transformed
  <2>2. constraints' \in Seq([cons : Pointer, arcs : SUBSET Positions])
    <3> DEFINE S == [cons : Pointer, arcs : SUBSET Positions]
    <3>1. \A r \in S : [r EXCEPT !.cons = Transformed(@)] \in S
      BY <2>1
    <3>2. constraints \in Seq(S)
      OBVIOUS
    <3>3. constraints' = [k \in DOMAIN constraints |-> [constraints[k] EXCEPT !.cons = Transformed(@)]]
      BY <1>5 DEF ScipInit, UpdateConstraintPointers
    <3> HIDE DEF S
    <3>4. constraints' \in [1 .. Len(constraints) -> S]
      BY <3>1, <3>2, <3>3
    <3>5. constraints' \in Seq(S)
      BY <3>2, <3>4
    <3>6. QED
      BY <3>5 DEF S
  <2>3. arc_to_scip_constraints' \in [Arcs -> SUBSET [cons : Pointer, pos : Positions]]
    <3> DEFINE S == [cons : Pointer, pos : Positions]
    <3>1. \A r \in S : [r EXCEPT !.cons = Transformed(@)] \in S
      BY <2>1
    <3>2. arc_to_scip_constraints \in [Arcs -> SUBSET S]
      OBVIOUS
    <3>3. arc_to_scip_constraints' = [a \in Arcs |->
            {[e EXCEPT !.cons = Transformed(@)] : e \in arc_to_scip_constraints[a]}]
      BY <1>5 DEF ScipInit, UpdateConstraintPointers
    <3> HIDE DEF S
    <3>4. arc_to_scip_constraints' \in [Arcs -> SUBSET S]
      BY <3>1, <3>2, <3>3
    <3>5. QED
      BY <3>4 DEF S
  <2>4. QED
    BY <1>5, <2>2, <2>3 DEF ScipInit, poolVars, netVars, scipVars, inputVars
<1>6. CASE MainAborts
  BY <1>6 DEF MainAborts, poolVars, netVars, mapVars, scipVars, inputVars
<1>7. QED
  BY <1>1, <1>2, <1>3, <1>4, <1>5, <1>6 DEF Main

LEMMA StutterType == ASSUME TypeInv, UNCHANGED vars PROVE TypeInv'
BY DEF TypeInv, TypeOK, TaskOK, vars, inputVars, poolVars, netVars, mapVars, scipVars

LEMMA StepType == ASSUME TypeInv, [Next]_vars PROVE TypeInv'
BY WorkerType, MainType, StutterType DEF Next, Stopped

(* Every variable of Initialize keeps its type. *)
THEOREM TypeCorrect == Spec => []TypeOK
<1>1. TypeInv => TypeOK
  BY DEF TypeInv
<1>2. QED
  BY <1>1, InitType, StepType, PTL DEF Spec

-----------------------------------------------------------------------------
(* The loop of generate_maps *)

(* SCIPdelCons writes only behind the loop's index: slots not seen yet     *)
(* hold what they held at first, and those in use are the constraints that *)
(* are left, each once.                                                    *)
SlotInv ==
  /\ \A k \in i .. Len(Conss) : conss[k] = Conss[k]
  /\ deleted = {c \in unneeded : \E k \in 1 .. Len(Conss) : k < i /\ c = Conss[k]}
  /\ \A k \in 1 .. nconss : conss[k] \notin deleted
  /\ \A c \in Constraints \ deleted : \E k \in 1 .. nconss : conss[k] = c
  /\ \A j, k \in 1 .. nconss : conss[j] = conss[k] => j = k

Stored(c) == \E k \in DOMAIN constraints : constraints[k].cons.cons = c

(* Of the constraints seen, those to keep that had a y-variable are stored.*)
StoredInv ==
  /\ \A c \in Constraints :
       Stored(c) <=> /\ c \notin unneeded
                     /\ YVars(c) # {}
                     /\ \E k \in 1 .. Len(Conss) : k < i /\ c = Conss[k]
  /\ \A j, k \in DOMAIN constraints : constraints[j].cons.cons = constraints[k].cons.cons => j = k
  /\ stage \in {"ready", "solving"} => i = Len(Conss) + 1

LoopInv == TypeInv /\ SlotInv /\ StoredInv

LEMMA InitLoop == Init => LoopInv
<1> SUFFICES ASSUME Init PROVE LoopInv
  OBVIOUS
<1>1. SlotInv
  <2>1. conss = Conss /\ nconss = Len(Conss) /\ deleted = {} /\ i = 1
    BY DEF Init
  <2>2. \A k \in i .. Len(Conss) : conss[k] = Conss[k]
    BY <2>1
  <2>3. deleted = {c \in unneeded : \E k \in 1 .. Len(Conss) : k < i /\ c = Conss[k]}
    BY <2>1
  <2>4. \A c \in Constraints \ deleted : \E k \in 1 .. nconss : conss[k] = c
    BY <2>1, ConstraintFacts
  <2>5. \A j, k \in 1 .. nconss : conss[j] = conss[k] => j = k
    BY <2>1, ConstraintFacts
  <2>6. QED
    BY <2>1, <2>2, <2>3, <2>4, <2>5 DEF SlotInv
<1>2. StoredInv
  BY DEF Init, StoredInv, Stored
<1>3. QED
  BY <1>1, <1>2, InitType DEF LoopInv

LEMMA DeleteLoop == ASSUME LoopInv, DeleteConstraint PROVE LoopInv'
<1> USE DEF LoopInv
<1>1. TypeInv'
  BY MainType DEF Main
<1>2. /\ i \in 1 .. Len(Conss) /\ i' = i + 1
      /\ stage = "maps" /\ stage' = stage
      /\ conss[i] \in unneeded /\ unneeded' = unneeded /\ constraints' = constraints
      /\ nconss' = nconss - 1 /\ deleted' = deleted \cup {conss[i]}
  BY DEF DeleteConstraint, SCIPdelCons, Looping, TypeInv, TypeOK, inputVars, mapVars
<1>3. conss[i] = Conss[i] /\ Conss[i] \in Constraints
  BY <1>2, ConstraintFacts DEF SlotInv
<1>4. PICK s \in 1 .. nconss : conss[s] = conss[i] /\ conss' = [conss EXCEPT ![s] = conss[nconss]]
  BY DEF DeleteConstraint, SCIPdelCons
<1>5. /\ Len(Conss) \in Nat /\ nconss \in 1 .. Len(Conss)
      /\ DOMAIN conss = 1 .. Len(Conss)
  BY <1>4, ConstraintFacts DEF TypeInv, TypeOK
<1>6. \A k \in 1 .. Len(Conss) : conss'[k] = IF k = s THEN conss[nconss] ELSE conss[k]
  BY <1>4, <1>5
<1>7. \A k \in i + 1 .. Len(Conss) : conss'[k] = Conss[k]
  <2> SUFFICES ASSUME NEW k \in i + 1 .. Len(Conss) PROVE conss'[k] = Conss[k]
    OBVIOUS
  <2>1. k \in i .. Len(Conss) /\ k \in 1 .. Len(Conss) /\ k # i
    BY <1>2
  <2>2. conss[k] = Conss[k] /\ Conss[k] # Conss[i]
    BY <1>2, <2>1, ConstraintFacts DEF SlotInv
  <2>3. k # s
    BY <1>3, <1>4, <2>2
  <2>4. QED
    BY <1>6, <2>1, <2>2, <2>3
<1>8. deleted' = {c \in unneeded : \E k \in 1 .. Len(Conss) : k < i + 1 /\ c = Conss[k]}
  BY <1>2, <1>3, <1>5 DEF SlotInv
<1>9. \A k \in 1 .. nconss - 1 : conss'[k] \notin deleted'
  <2> SUFFICES ASSUME NEW k \in 1 .. nconss - 1 PROVE conss'[k] \notin deleted'
    OBVIOUS
  <2>1. k \in 1 .. nconss /\ k \in 1 .. Len(Conss) /\ k # nconss /\ nconss \in 1 .. nconss
    BY <1>5
  <2>2. CASE k = s
    BY <1>2, <1>4, <1>6, <2>1, <2>2 DEF SlotInv
  <2>3. CASE k # s
    BY <1>2, <1>4, <1>6, <2>1, <2>3 DEF SlotInv
  <2>4. QED
    BY <2>2, <2>3
<1>10. \A c \in Constraints \ deleted' : \E k \in 1 .. nconss - 1 : conss'[k] = c
  <2> SUFFICES ASSUME NEW c \in Constraints \ deleted' PROVE \E k \in 1 .. nconss - 1 : conss'[k] = c
    OBVIOUS
  <2>1. PICK k \in 1 .. nconss : conss[k] = c
    BY <1>2 DEF SlotInv
  <2>2. k # s /\ s \in 1 .. Len(Conss) /\ k \in 1 .. Len(Conss)
    BY <1>2, <1>4, <1>5, <2>1
  <2>3. CASE k = nconss
    <3>1. s \in 1 .. nconss - 1
      BY <1>5, <2>2, <2>3
    <3>2. conss'[s] = c
      BY <1>6, <2>1, <2>2, <2>3
    <3>3. QED
      BY <3>1, <3>2
  <2>4. CASE k # nconss
    <3>1. k \in 1 .. nconss - 1
      BY <1>5, <2>4
    <3>2. conss'[k] = c
      BY <1>6, <2>1, <2>2
    <3>3. QED
      BY <3>1, <3>2
  <2>5. QED
    BY <2>3, <2>4
<1>11. \A j, k \in 1 .. nconss - 1 : conss'[j] = conss'[k] => j = k
  <2> SUFFICES ASSUME NEW j \in 1 .. nconss - 1, NEW k \in 1 .. nconss - 1, conss'[j] = conss'[k]
               PROVE  j = k
    OBVIOUS
  <2>1. /\ j \in 1 .. nconss /\ j \in 1 .. Len(Conss) /\ j # nconss
        /\ k \in 1 .. nconss /\ k \in 1 .. Len(Conss) /\ k # nconss
        /\ nconss \in 1 .. nconss
    BY <1>5
  <2>2. QED
    BY <1>6, <2>1 DEF SlotInv
<1>12. SlotInv'
  BY <1>2, <1>7, <1>8, <1>9, <1>10, <1>11 DEF SlotInv
<1>13. StoredInv'
  <2>1. \A c \in Constraints : Stored(c)' <=> Stored(c)
    BY <1>2 DEF Stored
  <2>2. \A c \in Constraints \ unneeded : \A k \in 1 .. Len(Conss) :
          c = Conss[k] => (k < i + 1 <=> k < i)
    BY <1>2, <1>3, <1>5
  <2>3. QED
    BY <1>2, <2>1, <2>2 DEF StoredInv
<1>14. QED
  BY <1>1, <1>12, <1>13

LEMMA MapLoop == ASSUME LoopInv, MapConstraint PROVE LoopInv'
<1> USE DEF LoopInv
<1>1. TypeInv'
  BY MainType DEF Main
<1>2. /\ i \in 1 .. Len(Conss) /\ i' = i + 1
      /\ stage = "maps" /\ stage' = stage
      /\ conss[i] \notin unneeded /\ unneeded' = unneeded
      /\ conss' = conss /\ nconss' = nconss /\ deleted' = deleted
  BY DEF MapConstraint, Looping, TypeInv, TypeOK, inputVars
<1>3. conss[i] = Conss[i] /\ Conss[i] \in Constraints /\ Len(Conss) \in Nat
  BY <1>2, ConstraintFacts DEF SlotInv
<1>4. SlotInv'
  <2>1. deleted' = {c \in unneeded : \E k \in 1 .. Len(Conss) : k < i + 1 /\ c = Conss[k]}
    BY <1>2, <1>3 DEF SlotInv
  <2>2. \A k \in i + 1 .. Len(Conss) : conss[k] = Conss[k]
    BY <1>2 DEF SlotInv
  <2>3. QED
    BY <1>2, <2>1, <2>2 DEF SlotInv
<1>5. constraints \in Seq([cons : Pointer, arcs : SUBSET Positions])
  BY DEF TypeInv, TypeOK
<1>6. \A c \in Constraints :
        (\E k \in 1 .. Len(Conss) : k < i + 1 /\ c = Conss[k]) <=>
        (c = Conss[i] \/ \E k \in 1 .. Len(Conss) : k < i /\ c = Conss[k])
  BY <1>2, <1>3
<1>7. ~Stored(Conss[i])
  BY <1>2, <1>3, ConstraintFacts DEF StoredInv
<1>8. CASE YVars(Conss[i]) = {}
  <2>1. constraints' = constraints
    BY <1>3, <1>8 DEF MapConstraint
  <2>2. \A c \in Constraints : Stored(c)' <=> Stored(c)
    BY <2>1 DEF Stored
  <2>3. StoredInv'
    BY <1>2, <1>6, <1>8, <2>1, <2>2 DEF StoredInv
  <2>4. QED
    BY <1>1, <1>4, <2>3
<1>9. CASE YVars(Conss[i]) # {}
  <2> DEFINE new == [cons |-> Original(Conss[i]), arcs |-> YVars(Conss[i])]
  <2>1. constraints' = Append(constraints, new)
    BY <1>3, <1>9 DEF MapConstraint
  <2>2. new.cons.cons = Conss[i]
    BY DEF Original
  <2> HIDE DEF new
  <2>3. /\ DOMAIN constraints = 1 .. Len(constraints)
        /\ Len(constraints) \in Nat
        /\ DOMAIN constraints' = 1 .. Len(constraints) + 1
        /\ \A k \in DOMAIN constraints : constraints'[k] = constraints[k]
        /\ constraints'[Len(constraints) + 1] = new
    BY <1>5, <2>1
  <2>4. \A c \in Constraints : Stored(c)' <=> (Stored(c) \/ c = Conss[i])
    BY <2>2, <2>3 DEF Stored
  <2>5. \A j, k \in DOMAIN constraints' :
          constraints'[j].cons.cons = constraints'[k].cons.cons => j = k
    <3>1. \A k \in DOMAIN constraints : constraints[k].cons.cons # Conss[i]
      BY <1>7 DEF Stored
    <3>2. \A k \in DOMAIN constraints' : k \in DOMAIN constraints \/ k = Len(constraints) + 1
      BY <2>3
    <3>3. QED
      BY <2>2, <2>3, <3>1, <3>2 DEF StoredInv
  <2>6. StoredInv'
    BY <1>2, <1>3, <1>6, <1>9, <2>4, <2>5 DEF StoredInv
  <2>7. QED
    BY <1>1, <1>4, <2>6
<1>10. QED
  BY <1>8, <1>9

LEMMA ScipInitLoop == ASSUME LoopInv, ScipInit PROVE LoopInv'
<1> USE DEF LoopInv
<1>1. TypeInv'
  BY MainType DEF Main
<1>2. SlotInv'
  BY DEF ScipInit, SlotInv, scipVars, inputVars
<1>4. /\ DOMAIN constraints' = DOMAIN constraints
      /\ \A k \in DOMAIN constraints : constraints'[k].cons.cons = constraints[k].cons.cons
  <2>1. constraints' = [k \in DOMAIN constraints |-> [constraints[k] EXCEPT !.cons = Transformed(@)]]
    BY DEF ScipInit, UpdateConstraintPointers
  <2>2. QED
    BY <2>1, ElementsOfConstraints DEF Transformed, Pointer
<1>5. \A c \in Constraints : Stored(c)' <=> Stored(c)
  BY <1>4 DEF Stored
<1>6. StoredInv'
  BY <1>4, <1>5 DEF ScipInit, StoredInv, scipVars, inputVars
<1>7. QED
  BY <1>1, <1>2, <1>6

LEMMA StepLoop == ASSUME LoopInv, [Next]_vars PROVE LoopInv'
<1> USE DEF LoopInv
<1>1. TypeInv'
  BY StepType
<1>2. ASSUME /\ UNCHANGED <<inputVars, mapVars, scipVars, i>>
             /\ stage' \in {"ready", "solving"} => i = Len(Conss) + 1
      PROVE  LoopInv'
  <2>1. SlotInv'
    BY <1>2 DEF SlotInv, scipVars, inputVars
  <2>2. \A c \in Constraints : Stored(c)' <=> Stored(c)
    BY <1>2 DEF Stored, mapVars
  <2>3. StoredInv'
    BY <1>2, <2>2 DEF StoredInv, mapVars, inputVars
  <2>4. QED
    BY <1>1, <2>1, <2>3
<1>3. ASSUME NEW t \in Workers, Worker(t) PROVE LoopInv'
  <2>1. stage' \notin {"ready", "solving"}
    BY <1>3 DEF Worker, ReadNetwork, AddNetwork, AddArcsOfNetwork
  <2>2. UNCHANGED <<inputVars, mapVars, scipVars, i>>
    BY <1>3 DEF Worker, ReadNetwork, AddNetwork, AddArcsOfNetwork
  <2>3. QED
    BY <1>2, <2>1, <2>2
<1>4. CASE NetworksRead
  BY <1>2, <1>4 DEF NetworksRead
<1>5. CASE DeleteConstraint
  BY <1>5, DeleteLoop
<1>6. CASE MapConstraint
  BY <1>6, MapLoop
<1>7. CASE InitializeReturns
  <2>1. i = Len(Conss) + 1
    BY <1>7, ConstraintFacts DEF InitializeReturns, Looping, TypeInv, TypeOK
  <2>2. QED
    BY <1>2, <1>7, <2>1 DEF InitializeReturns
<1>8. CASE ScipInit
  BY <1>8, ScipInitLoop
<1>9. CASE MainAborts
  BY <1>2, <1>9 DEF MainAborts
<1>10. CASE UNCHANGED vars
  BY <1>2, <1>10 DEF vars, StoredInv
<1>11. QED
  BY <1>3, <1>4, <1>5, <1>6, <1>7, <1>8, <1>9, <1>10 DEF Next, Main, Stopped

(* The loop of generate_maps never looks at a constraint it has deleted,   *)
(* whatever constraints are unneeded and wherever they are.                *)
THEOREM LoopIsSafe == Spec => []LoopReadsAlive
<1>1. LoopInv => LoopReadsAlive
  <2> SUFFICES ASSUME LoopInv, Looping PROVE conss[i] \notin deleted
    BY DEF LoopReadsAlive
  <2>1. i \in 1 .. Len(Conss)
    BY ConstraintFacts DEF LoopInv, Looping, TypeInv, TypeOK
  <2>2. conss[i] = Conss[i]
    BY <2>1 DEF LoopInv, SlotInv
  <2>3. \A k \in 1 .. Len(Conss) : k < i => Conss[k] # Conss[i]
    BY <2>1, ConstraintFacts
  <2>4. QED
    BY <2>2, <2>3 DEF LoopInv, SlotInv
<1>2. QED
  BY <1>1, InitLoop, StepLoop, PTL DEF Spec

(* Every constraint is checked: the unneeded ones are deleted, each of the *)
(* others that had a y-variable is stored once.                            *)
THEOREM EachConstraintChecked == Spec => []AllConstraintsChecked
<1>1. LoopInv => AllConstraintsChecked
  <2> SUFFICES ASSUME LoopInv, stage \in {"ready", "solving"}
               PROVE  /\ deleted = unneeded
                      /\ {constraints[k].cons.cons : k \in DOMAIN constraints} =
                           {c \in Constraints \ unneeded : YVars(c) # {}}
                      /\ \A k, l \in DOMAIN constraints :
                           constraints[k].cons.cons = constraints[l].cons.cons => k = l
    BY DEF AllConstraintsChecked
  <2>1. i = Len(Conss) + 1
    BY DEF LoopInv, StoredInv
  <2>2. \A c \in Constraints : \E k \in 1 .. Len(Conss) : k < i /\ c = Conss[k]
    BY <2>1, ConstraintFacts
  <2>3. unneeded \subseteq Constraints
    BY DEF LoopInv, TypeInv, TypeOK
  <2>4. deleted = unneeded
    BY <2>2, <2>3 DEF LoopInv, SlotInv
  <2>5. \A k \in DOMAIN constraints : constraints[k].cons.cons \in Constraints
    BY ElementsOfConstraints DEF LoopInv, Pointer
  <2>6. \A c \in Constraints : Stored(c) <=> c \notin unneeded /\ YVars(c) # {}
    BY <2>2 DEF LoopInv, StoredInv
  <2>7. QED
    BY <2>4, <2>5, <2>6 DEF Stored, LoopInv, StoredInv
<1>2. QED
  BY <1>1, InitLoop, StepLoop, PTL DEF Spec

-----------------------------------------------------------------------------
(* The two maps *)

EntriesOf(k, a) == {[cons |-> constraints[k].cons, pos |-> p] :
                      p \in {q \in constraints[k].arcs : ConsVars[constraints[k].cons.cons][q] = a}}

LEMMA MapsInverseByEntry ==
  MapsInverse <=> \A a \in Arcs : \A e : e \in arc_to_scip_constraints[a] <=>
                    \E k \in DOMAIN constraints : e \in EntriesOf(k, a)
<1>1. \A a : UNION {EntriesOf(k, a) : k \in DOMAIN constraints} =
              UNION {{[cons |-> constraints[k].cons, pos |-> p] :
                        p \in {q \in constraints[k].arcs : ConsVars[constraints[k].cons.cons][q] = a}} :
                     k \in DOMAIN constraints}
  BY DEF EntriesOf
<1>2. MapsInverse <=> \A a \in Arcs : arc_to_scip_constraints[a] =
                         UNION {EntriesOf(k, a) : k \in DOMAIN constraints}
  BY <1>1 DEF MapsInverse
<1>3. \A a : arc_to_scip_constraints[a] = UNION {EntriesOf(k, a) : k \in DOMAIN constraints} <=>
        \A e : e \in arc_to_scip_constraints[a] <=> \E k \in DOMAIN constraints : e \in EntriesOf(k, a)
  OBVIOUS
<1>4. QED
  BY <1>2, <1>3

LEMMA MapsInverseByEntryNext ==
  (MapsInverse <=> \A a \in Arcs : \A e : e \in arc_to_scip_constraints[a] <=>
                     \E k \in DOMAIN constraints : e \in EntriesOf(k, a))'
BY MapsInverseByEntry, PTL

LEMMA MapConstraintInverse == ASSUME TypeInv, MapsInverse, MapConstraint PROVE MapsInverse'
<1> DEFINE c == conss[i]
           new == [cons |-> Original(c), arcs |-> YVars(c)]
<1>1. /\ constraints \in Seq([cons : Pointer, arcs : SUBSET Positions])
      /\ arc_to_scip_constraints' = [a \in Arcs |-> arc_to_scip_constraints[a] \cup
              {[cons |-> Original(c), pos |-> k] : k \in YVarsOfArc(c, a)}]
  BY DEF TypeInv, TypeOK, MapConstraint
<1>2. CASE YVars(c) = {}
  <2>1. \A a \in Arcs : arc_to_scip_constraints'[a] = arc_to_scip_constraints[a]
    BY <1>1, <1>2 DEF YVarsOfArc
  <2>2. constraints' = constraints
    BY <1>2 DEF MapConstraint
  <2>3. QED
    BY <2>1, <2>2 DEF MapsInverse
<1>3. CASE YVars(c) # {}
  <2>1. constraints' = Append(constraints, new)
    BY <1>3 DEF MapConstraint
  <2> PICK last : last = Len(constraints) + 1
    OBVIOUS
  <2>2. /\ DOMAIN constraints = 1 .. Len(constraints)
        /\ Len(constraints) \in Nat
        /\ DOMAIN constraints' = 1 .. last
        /\ \A k \in DOMAIN constraints : constraints'[k] = constraints[k]
        /\ constraints'[last] = new
    <3> HIDE DEF new
    <3>1. QED
      BY <1>1, <2>1
  <2>3. \A a \in Arcs : EntriesOf(last, a)' = {[cons |-> Original(c), pos |-> k] : k \in YVarsOfArc(c, a)}
    BY <2>2 DEF EntriesOf, YVarsOfArc, Original
  <2>4. \A a \in Arcs : \A k \in DOMAIN constraints : EntriesOf(k, a)' = EntriesOf(k, a)
    BY <2>2 DEF EntriesOf
  <2>5. \A a \in Arcs : \A e : (\E k \in DOMAIN constraints' : e \in EntriesOf(k, a)') <=>
          (\E k \in DOMAIN constraints : e \in EntriesOf(k, a)) \/ e \in EntriesOf(last, a)'
    BY <2>2, <2>4
  <2>6. \A a \in Arcs : \A e : e \in arc_to_scip_constraints'[a] <=>
          e \in arc_to_scip_constraints[a] \/ e \in EntriesOf(last, a)'
    BY <1>1, <2>3
  <2>7. \A a \in Arcs : \A e : e \in arc_to_scip_constraints'[a] <=>
          \E k \in DOMAIN constraints' : e \in EntriesOf(k, a)'
    BY <2>5, <2>6, MapsInverseByEntry
  <2>8. QED
    BY <2>7, MapsInverseByEntryNext
<1>4. QED
  BY <1>2, <1>3

LEMMA ScipInitInverse == ASSUME TypeInv, MapsInverse, ScipInit PROVE MapsInverse'
<1>1. /\ constraints' = [k \in DOMAIN constraints |-> [constraints[k] EXCEPT !.cons = Transformed(@)]]
      /\ \A k \in DOMAIN constraints : constraints[k] \in [cons : Pointer, arcs : SUBSET Positions]
      /\ arc_to_scip_constraints' = [a \in Arcs |->
            {[e EXCEPT !.cons = Transformed(@)] : e \in arc_to_scip_constraints[a]}]
  BY ElementsOfConstraints DEF ScipInit, UpdateConstraintPointers
<1>2. \A k \in DOMAIN constraints :
        /\ constraints'[k].cons = Transformed(constraints[k].cons)
        /\ constraints'[k].cons.cons = constraints[k].cons.cons
        /\ constraints'[k].arcs = constraints[k].arcs
  BY <1>1 DEF Transformed, Pointer
<1>3. \A a \in Arcs : \A k \in DOMAIN constraints :
        EntriesOf(k, a)' = {[e EXCEPT !.cons = Transformed(@)] : e \in EntriesOf(k, a)}
  <2> SUFFICES ASSUME NEW a \in Arcs, NEW k \in DOMAIN constraints
               PROVE  EntriesOf(k, a)' = {[e EXCEPT !.cons = Transformed(@)] : e \in EntriesOf(k, a)}
    OBVIOUS
  <2> DEFINE ps == {q \in constraints[k].arcs : ConsVars[constraints[k].cons.cons][q] = a}
  <2>1. EntriesOf(k, a) = {[cons |-> constraints[k].cons, pos |-> p] : p \in ps}
    BY DEF EntriesOf
  <2>2. EntriesOf(k, a)' = {[cons |-> Transformed(constraints[k].cons), pos |-> p] : p \in ps}
    BY <1>2 DEF EntriesOf
  <2>3. \A p : [[cons |-> constraints[k].cons, pos |-> p] EXCEPT !.cons = Transformed(@)] =
               [cons |-> Transformed(constraints[k].cons), pos |-> p]
    OBVIOUS
  <2> DEFINE New(e) == [e EXCEPT !.cons = Transformed(@)]
             Old(p) == [cons |-> constraints[k].cons, pos |-> p]
             Both(p) == [cons |-> Transformed(constraints[k].cons), pos |-> p]
  <2>4. \A p : New(Old(p)) = Both(p)
    BY <2>3
  <2> HIDE DEF New, Old, Both
  <2>5. {New(e) : e \in {Old(p) : p \in ps}} = {Both(p) : p \in ps}
    BY <2>4
  <2>6. QED
    BY <2>1, <2>2, <2>5 DEF New, Old, Both
<1>4. DOMAIN constraints' = DOMAIN constraints
  BY <1>1
<1>5. \A a \in Arcs : \A e : e \in arc_to_scip_constraints'[a] <=>
        \E k \in DOMAIN constraints' : e \in EntriesOf(k, a)'
  BY <1>1, <1>3, <1>4, MapsInverseByEntry
<1>6. QED
  BY <1>5, MapsInverseByEntryNext

LEMMA StepInverse == ASSUME TypeInv, MapsInverse, [Next]_vars PROVE MapsInverse'
<1>1. ASSUME UNCHANGED mapVars PROVE MapsInverse'
  BY <1>1 DEF MapsInverse, mapVars
<1>2. ASSUME NEW t \in Workers, Worker(t) PROVE MapsInverse'
  BY <1>1, <1>2 DEF Worker, ReadNetwork, AddNetwork, AddArcsOfNetwork
<1>3. CASE Main
  BY <1>1, <1>3, MapConstraintInverse, ScipInitInverse
     DEF Main, NetworksRead, DeleteConstraint, InitializeReturns, MainAborts
<1>4. CASE UNCHANGED vars
  BY <1>1, <1>4 DEF vars
<1>5. QED
  BY <1>2, <1>3, <1>4 DEF Next, Stopped

(* The map from constraints to arcs and the map from arcs to constraints   *)
(* hold the same entries at all times, pointers included.                  *)
THEOREM MapsAreInverse == Spec => []MapsInverse
<1>1. Init => MapsInverse
  BY DEF Init, MapsInverse
<1>2. QED
  BY <1>1, InitType, StepType, StepInverse, PTL DEF Spec

-----------------------------------------------------------------------------
(* The tasks of generate_networks *)

(* The network of a group is there before a task adds the group's arcs:    *)
(* get_network finds one for every group that arc_to_network_ names.       *)
NetworkFirst ==
  /\ Range(arc_to_network) \subseteq DOMAIN networks
  /\ \A t \in Workers : pc[t] = "add_arcs" => FileGroup[file[t]] \in DOMAIN networks

LEMMA StepNetworkFirst == ASSUME TypeInv, NetworkFirst, [Next]_vars PROVE NetworkFirst'
<1> USE DEF NetworkFirst
<1>1. ASSUME UNCHANGED <<pc, file, networks, arc_to_network>> PROVE NetworkFirst'
  BY <1>1
<1>2. ASSUME NEW t \in Workers, ReadNetwork(t) PROVE NetworkFirst'
  BY <1>2 DEF ReadNetwork, netVars, TypeInv, TypeOK
<1>3. ASSUME NEW t \in Workers, AddNetwork(t) PROVE NetworkFirst'
  <2>1. DOMAIN networks' = DOMAIN networks \cup {FileGroup[file[t]]}
    BY <1>3 DEF AddNetwork, InsertAll
  <2>2. QED
    BY <1>3, <2>1 DEF AddNetwork, TypeInv, TypeOK
<1>4. ASSUME NEW t \in Workers, AddArcsOfNetwork(t) PROVE NetworkFirst'
  <2>1. Range(arc_to_network') \subseteq Range(arc_to_network) \cup {FileGroup[file[t]]}
    BY <1>4 DEF AddArcsOfNetwork, InsertAll, Range
  <2>2. QED
    BY <1>4, <2>1 DEF AddArcsOfNetwork, TypeInv, TypeOK
<1>5. CASE Main
  BY <1>1, <1>5 DEF Main, NetworksRead, DeleteConstraint, MapConstraint, InitializeReturns,
                    ScipInit, MainAborts, poolVars, netVars
<1>6. CASE UNCHANGED vars
  BY <1>1, <1>6 DEF vars, poolVars, netVars
<1>7. QED
  BY <1>2, <1>3, <1>4, <1>5, <1>6 DEF Next, Worker, Stopped

-----------------------------------------------------------------------------
(* What the pricers find *)

(* A constraint that is stored can get columns and has lost its y-variables.*)
PreparedInv ==
  \A k \in DOMAIN constraints :
    /\ constraints[k].cons.cons \in modifiable
    /\ vars_of[constraints[k].cons.cons] \cap YVars(constraints[k].cons.cons) = {}
    /\ stage = "solving" => constraints[k].cons.transformed

LEMMA MapConstraintPrepared ==
  ASSUME LoopInv, PreparedInv, MapConstraint
  PROVE  PreparedInv'
<1> USE DEF LoopInv, TypeInv, TypeOK
<1>1. /\ i \in 1 .. Len(Conss) /\ stage = "maps" /\ stage' = stage
      /\ constraints \in Seq([cons : Pointer, arcs : SUBSET Positions])
  BY DEF MapConstraint, Looping
<1>2. conss[i] \in Constraints
  BY <1>1, ConstraintFacts DEF SlotInv
<1>3. /\ vars_of' = [vars_of EXCEPT ![conss[i]] = @ \ YVars(conss[i])]
      /\ modifiable \subseteq modifiable'
      /\ \/ constraints' = constraints
         \/ /\ constraints' = Append(constraints, [cons |-> Original(conss[i]), arcs |-> YVars(conss[i])])
            /\ conss[i] \in modifiable'
  BY DEF MapConstraint
<1>4. /\ vars_of'[conss[i]] \cap YVars(conss[i]) = {}
      /\ \A c \in Constraints : vars_of'[c] \subseteq vars_of[c]
  BY <1>2, <1>3
<1>5. \A k \in DOMAIN constraints : constraints[k].cons.cons \in Constraints
  BY ElementsOfConstraints DEF Pointer
<1> HIDE DEF LoopInv, TypeInv, TypeOK
<1>6. CASE constraints' = constraints
  BY <1>1, <1>3, <1>4, <1>5, <1>6 DEF PreparedInv
<1>7. CASE /\ constraints' = Append(constraints, [cons |-> Original(conss[i]), arcs |-> YVars(conss[i])])
           /\ conss[i] \in modifiable'
  <2> DEFINE new == [cons |-> Original(conss[i]), arcs |-> YVars(conss[i])]
  <2>1. new.cons.cons = conss[i]
    BY DEF Original
  <2>2. constraints' = Append(constraints, new)
    BY <1>7
  <2> HIDE DEF new
  <2>3. \A k \in DOMAIN constraints' :
          \/ k \in DOMAIN constraints /\ constraints'[k] = constraints[k]
          \/ constraints'[k] = new
    BY <1>1, <2>2
  <2> QED
    BY <1>1, <1>3, <1>4, <1>5, <1>7, <2>1, <2>3 DEF PreparedInv
<1> QED
  BY <1>3, <1>6, <1>7

LEMMA ScipInitPrepared ==
  ASSUME TypeInv, PreparedInv, ScipInit
  PROVE  PreparedInv'
<1>1. constraints' = [k \in DOMAIN constraints |-> [constraints[k] EXCEPT !.cons = Transformed(@)]]
  BY DEF ScipInit, UpdateConstraintPointers
<1>2. \A k \in DOMAIN constraints :
        constraints'[k].cons.cons = constraints[k].cons.cons /\ constraints'[k].cons.transformed
  BY <1>1, ElementsOfConstraints DEF Transformed, Pointer
<1>3. modifiable' = modifiable /\ vars_of' = vars_of
  BY DEF ScipInit, scipVars
<1>4. DOMAIN constraints' = DOMAIN constraints
  BY <1>1, Zenon
<1>5. ASSUME NEW k \in DOMAIN constraints
      PROVE  /\ constraints'[k].cons.cons \in modifiable'
             /\ vars_of'[constraints'[k].cons.cons] \cap YVars(constraints'[k].cons.cons) = {}
             /\ constraints'[k].cons.transformed
  BY <1>2, <1>3, <1>5 DEF PreparedInv
<1> QED
  BY <1>4, <1>5, Zenon DEF PreparedInv

LEMMA StepPrepared == ASSUME LoopInv, PreparedInv, [Next]_vars PROVE PreparedInv'
<1>1. ASSUME UNCHANGED <<constraints, modifiable, vars_of>>, stage' = "solving" => stage = "solving"
      PROVE  PreparedInv'
  BY <1>1 DEF PreparedInv
<1>2. ASSUME NEW t \in Workers, Worker(t) PROVE PreparedInv'
  BY <1>1, <1>2 DEF Worker, ReadNetwork, AddNetwork, AddArcsOfNetwork, mapVars, scipVars
<1>3. CASE NetworksRead \/ InitializeReturns \/ MainAborts
  BY <1>1, <1>3 DEF NetworksRead, InitializeReturns, MainAborts, mapVars, scipVars
<1>4. CASE DeleteConstraint
  BY <1>1, <1>4 DEF DeleteConstraint, SCIPdelCons, mapVars
<1>5. CASE UNCHANGED vars
  BY <1>1, <1>5 DEF vars, mapVars, scipVars
<1> QED
  BY <1>2, <1>3, <1>4, <1>5, MapConstraintPrepared, ScipInitPrepared DEF Next, Main, Stopped, LoopInv

(* When the solve starts, every entry of the arc-to-constraint map is in   *)
(* a constraint of the transformed problem that is still there, has no     *)
(* y-variable left and may get columns, whatever was deleted.              *)
THEOREM PricingIsLegal == Spec => []ReadyForPricing
<1> DEFINE I == LoopInv /\ MapsInverse /\ PreparedInv
<1>1. Init => I
  BY InitLoop DEF Init, MapsInverse, PreparedInv
<1>2. I /\ [Next]_vars => I'
  BY StepLoop, StepInverse, StepPrepared DEF LoopInv
<1>3. ASSUME I, stage = "solving", NEW a \in Arcs, NEW e \in arc_to_scip_constraints[a]
      PROVE  /\ e.cons.transformed
             /\ e.cons.cons \in modifiable \ deleted
             /\ vars_of[e.cons.cons] \cap YVars(e.cons.cons) = {}
  <2>1. PICK k \in DOMAIN constraints : e \in EntriesOf(k, a)
    BY <1>3, MapsInverseByEntry
  <2>2. e.cons = constraints[k].cons
    BY <2>1 DEF EntriesOf
  <2>3. constraints[k].cons.cons \in Constraints
    BY <1>3, ElementsOfConstraints DEF LoopInv, Pointer
  <2>4. constraints[k].cons.cons \notin deleted
    BY <1>3, <2>3 DEF LoopInv, SlotInv, StoredInv, Stored
  <2> QED
    BY <1>3, <2>2, <2>4 DEF PreparedInv
<1>4. I => ReadyForPricing
  BY <1>3 DEF ReadyForPricing
<1> QED
  BY <1>1, <1>2, <1>4, PTL DEF Spec

-----------------------------------------------------------------------------
(* What the tasks leave behind for get_network *)

ArcInv ==
  /\ stage \in {"maps", "ready", "solving"} => pending = {}
  /\ \A t \in Workers : pc[t] # "idle" => file[t] \in FilesRead
  /\ \A g \in DOMAIN networks : networks[g] \in FilesRead /\ FileGroup[networks[g]] = g
  /\ \A k \in DOMAIN arc_to_network : \E f \in FilesRead : \E a \in FileArcs[f] :
       Netzwerk[a] = k /\ arc_to_network[k] = FileGroup[f]
  /\ \A f \in Files : outcome[f] = "reads" =>
       \/ f \in pending
       \/ \E t \in Workers : pc[t] # "idle" /\ file[t] = f
       \/ \A a \in FileArcs[f] : Netzwerk[a] \in DOMAIN arc_to_network

LEMMA StepArc == ASSUME TypeInv, ArcInv, [Next]_vars PROVE ArcInv'
<1>1. ASSUME NEW t \in Workers, ReadNetwork(t) PROVE ArcInv'
  <2>1. /\ UNCHANGED <<inputVars, networks, arc_to_network>>
        /\ stage = "networks" /\ pc[t] = "idle" /\ stage' \in {"networks", "aborted"}
        /\ FilesRead' = FilesRead
    BY <1>1 DEF ReadNetwork, netVars, inputVars, FilesRead
  <2>2. PICK f \in pending :
          /\ pending' = pending \ {f}
          /\ IF outcome[f] # "reads"
             THEN UNCHANGED <<pc, file>>
             ELSE pc' = [pc EXCEPT ![t] = "add_network"] /\ file' = [file EXCEPT ![t] = f]
    BY <1>1 DEF ReadNetwork
  <2>3. outcome[f] = "reads" => pc'[t] # "idle" /\ file'[t] = f
    BY <2>2 DEF TypeInv, TypeOK
  <2>4. \A u \in Workers : pc[u] # "idle" => pc'[u] # "idle" /\ file'[u] = file[u]
    BY <2>1, <2>2 DEF TypeInv, TypeOK
  <2>5. \A u \in Workers : pc'[u] # "idle" => file'[u] \in FilesRead
    <3> SUFFICES ASSUME NEW u \in Workers, pc'[u] # "idle"
                 PROVE  file'[u] \in FilesRead
      OBVIOUS
    <3>1. pc[u] # "idle" \/ (outcome[f] = "reads" /\ u = t)
      BY <2>2 DEF TypeInv, TypeOK
    <3>2. f \in Files
      BY <2>2 DEF TypeInv, TypeOK
    <3> QED
      BY <2>3, <2>4, <3>1, <3>2 DEF ArcInv, FilesRead
  <2> QED
    BY <2>1, <2>2, <2>3, <2>4, <2>5 DEF ArcInv, inputVars
<1>2. ASSUME NEW t \in Workers, AddNetwork(t) PROVE ArcInv'
  <2>1. /\ UNCHANGED <<inputVars, stage, pending, file, arc_to_network>>
        /\ \A u \in Workers : pc[u] # "idle" <=> pc'[u] # "idle"
        /\ file[t] \in FilesRead /\ FilesRead' = FilesRead
    BY <1>2 DEF AddNetwork, TypeInv, TypeOK, ArcInv, inputVars, FilesRead
  <2>2. \A g \in DOMAIN networks' :
          \/ g \in DOMAIN networks /\ networks'[g] = networks[g]
          \/ g = FileGroup[file[t]] /\ networks'[g] = file[t]
    BY <1>2 DEF AddNetwork, InsertAll
  <2> QED
    BY <2>1, <2>2 DEF ArcInv, inputVars
<1>3. ASSUME NEW t \in Workers, AddArcsOfNetwork(t) PROVE ArcInv'
  <2>1. /\ UNCHANGED <<inputVars, stage, pending, networks>>
        /\ pc[t] = "add_arcs" /\ pc'[t] = "idle" /\ FilesRead' = FilesRead
        /\ \A u \in Workers \ {t} : pc'[u] = pc[u] /\ file'[u] = file[u]
    BY <1>3 DEF AddArcsOfNetwork, TypeInv, TypeOK, inputVars, FilesRead
  <2>2. file[t] \in FilesRead
    BY <2>1 DEF ArcInv
  <2>3. /\ DOMAIN arc_to_network' = DOMAIN arc_to_network \cup {Netzwerk[a] : a \in FileArcs[file[t]]}
        /\ \A k \in DOMAIN arc_to_network' :
             \/ k \in DOMAIN arc_to_network /\ arc_to_network'[k] = arc_to_network[k]
             \/ k \in {Netzwerk[a] : a \in FileArcs[file[t]]} /\ arc_to_network'[k] = FileGroup[file[t]]
    BY <1>3 DEF AddArcsOfNetwork, InsertAll
  <2>4. \A k \in DOMAIN arc_to_network' : \E f \in FilesRead : \E a \in FileArcs[f] :
          Netzwerk[a] = k /\ arc_to_network'[k] = FileGroup[f]
    BY <2>2, <2>3 DEF ArcInv
  <2>5. \A a \in FileArcs[file[t]] : Netzwerk[a] \in DOMAIN arc_to_network'
    BY <2>3
  <2>6. \A f \in Files : outcome[f] = "reads" =>
          \/ f \in pending
          \/ \E u \in Workers : pc'[u] # "idle" /\ file'[u] = f
          \/ \A a \in FileArcs[f] : Netzwerk[a] \in DOMAIN arc_to_network'
    BY <2>1, <2>3, <2>5 DEF ArcInv
  <2> QED
    BY <2>1, <2>4, <2>6 DEF ArcInv, inputVars
<1>4. CASE Main
  BY <1>4 DEF Main, NetworksRead, DeleteConstraint, MapConstraint, InitializeReturns, ScipInit, MainAborts,
     Looping, poolVars, netVars, inputVars, ArcInv, FilesRead
<1>5. CASE UNCHANGED vars
  BY <1>5 DEF vars, poolVars, netVars, inputVars, ArcInv, FilesRead
<1> QED
  BY <1>1, <1>2, <1>3, <1>4, <1>5 DEF Next, Worker, Stopped

(* Whatever the files hold and whatever becomes of their tasks, every arc  *)
(* of a file that was read leads to a network, and to one built from a     *)
(* file of a group that has the arc's netzwerk: the tasks may race for     *)
(* both maps, but they cannot lead get_network out of the arc's rivals.    *)
THEOREM ArcsLeadHome == Spec => []ArcInItsNetwork
<1>1. Init => NetworkFirst /\ ArcInv
  BY DEF Init, NetworkFirst, Range, ArcInv
<1>2. ASSUME TypeInv, NetworkFirst, ArcInv, stage \in {"maps", "ready", "solving"},
             NEW f \in FilesRead, NEW a \in FileArcs[f]
      PROVE  \E net \in GetNetwork(a) : net \in Rivals(a)
  <2> DEFINE k == Netzwerk[a]
             g == arc_to_network[k]
  <2>1. k \in DOMAIN arc_to_network
    BY <1>2 DEF ArcInv, TypeInv, TaskOK, FilesRead
  <2>2. PICK h \in FilesRead : \E b \in FileArcs[h] : Netzwerk[b] = k /\ g = FileGroup[h]
    BY <1>2, <2>1 DEF ArcInv
  <2>3. g \in DOMAIN networks
    BY <1>2, <2>1 DEF NetworkFirst, Range
  <2>4. networks[g] \in FilesRead /\ FileGroup[networks[g]] = g
    BY <1>2, <2>3 DEF ArcInv
  <2>5. networks[g] \in Rivals(a)
    BY <2>2, <2>4 DEF Rivals
  <2>6. networks[g] \in GetNetwork(a)
    BY <2>1, <2>3 DEF GetNetwork
  <2> QED
    BY <2>5, <2>6
<1>3. TypeInv /\ NetworkFirst /\ ArcInv => ArcInItsNetwork
  BY <1>2 DEF ArcInItsNetwork
<1> QED
  BY <1>1, <1>3, InitType, StepType, StepNetworkFirst, StepArc, PTL DEF Spec

-----------------------------------------------------------------------------
(* Preprocessing goes on *)

(* The constraint that the loop looks at is among those SCIP has, so that  *)
(* SCIPdelCons, or the calls of the other branch, find it: whatever was    *)
(* deleted before, and whatever was moved.                                 *)
THEOREM LoopReadsPresent == Spec => [](Looping => \E k \in 1 .. nconss : conss[k] = conss[i])
<1>1. LoopInv => (Looping => \E k \in 1 .. nconss : conss[k] = conss[i])
  <2> SUFFICES ASSUME LoopInv, Looping
               PROVE  \E k \in 1 .. nconss : conss[k] = conss[i]
    OBVIOUS
  <2>1. i \in 1 .. Len(Conss)
    BY ConstraintFacts DEF LoopInv, Looping, TypeInv, TypeOK
  <2>2. conss[i] = Conss[i] /\ Conss[i] \in Constraints
    BY <2>1, ConstraintFacts DEF LoopInv, SlotInv
  <2>3. \A k \in 1 .. Len(Conss) : k < i => Conss[k] # Conss[i]
    BY <2>1, ConstraintFacts
  <2>4. conss[i] \in Constraints \ deleted
    BY <2>2, <2>3 DEF LoopInv, SlotInv
  <2> QED
    BY <2>4 DEF LoopInv, SlotInv
<1> QED
  BY <1>1, InitLoop, StepLoop, PTL DEF Spec

StagesLeft ==
  CASE stage = "networks" -> 3
    [] stage = "maps"     -> 2
    [] stage = "ready"    -> 1
    [] OTHER              -> 0

TaskStepsLeft(t) ==
  CASE pc[t] = "add_network" -> 2
    [] pc[t] = "add_arcs"    -> 1
    [] OTHER                 -> 0

(* A stage ends, or in the same one the loop goes on to the next of its    *)
(* slots, or a task starts, or one that has started gets nearer to its end.*)
GoesOn ==
  \/ StagesLeft' < StagesLeft
  \/ stage' = stage /\ i' = i + 1 /\ i <= Len(Conss)
  \/ UNCHANGED <<stage, i>> /\ Cardinality(pending') < Cardinality(pending)
  \/ /\ UNCHANGED <<stage, i, pending>>
     /\ \E t \in Workers :
          /\ TaskStepsLeft(t)' < TaskStepsLeft(t)
          /\ \A u \in Workers \ {t} : pc'[u] = pc[u]

LEMMA StageCases ==
  /\ stage = "networks" => StagesLeft = 3
  /\ stage = "maps" => StagesLeft = 2
  /\ stage = "ready" => StagesLeft = 1
  /\ stage \in {"solving", "aborted"} => StagesLeft = 0
BY Zenon DEF StagesLeft

LEMMA NextStage ==
  ASSUME \/ stage = "networks" /\ stage' \in {"maps", "aborted"}
         \/ stage = "maps" /\ stage' \in {"ready", "aborted"}
         \/ stage = "ready" /\ stage' \in {"solving", "aborted"}
  PROVE  GoesOn
<1>1. /\ stage' = "maps" => StagesLeft' = 2
      /\ stage' = "ready" => StagesLeft' = 1
      /\ stage' \in {"solving", "aborted"} => StagesLeft' = 0
  BY Zenon DEF StagesLeft
<1>2. StagesLeft' < StagesLeft
  BY <1>1, StageCases
<1> QED
  BY <1>2 DEF GoesOn

LEMMA TaskGoesOn ==
  ASSUME TypeInv, NEW t \in Workers, UNCHANGED <<stage, i, pending>>,
         NEW p \in {"add_arcs", "idle"}, pc' = [pc EXCEPT ![t] = p],
         pc[t] = IF p = "idle" THEN "add_arcs" ELSE "add_network"
  PROVE  GoesOn
<1>1. pc'[t] = p /\ \A u \in Workers \ {t} : pc'[u] = pc[u]
  BY DEF TypeInv, TypeOK
<1>2. pc[t] = "add_network" => TaskStepsLeft(t) = 2
  BY Zenon DEF TaskStepsLeft
<1>3. pc[t] = "add_arcs" => TaskStepsLeft(t) = 1
  BY Zenon DEF TaskStepsLeft
<1>4. pc'[t] = "add_arcs" => TaskStepsLeft(t)' = 1
  BY Zenon DEF TaskStepsLeft
<1>5. pc'[t] = "idle" => TaskStepsLeft(t)' = 0
  BY Zenon DEF TaskStepsLeft
<1>6. TaskStepsLeft(t)' < TaskStepsLeft(t)
  BY <1>1, <1>2, <1>3, <1>4, <1>5
<1> QED
  BY <1>1, <1>6 DEF GoesOn

LEMMA ReadGoesOn == ASSUME TypeInv, NEW t \in Workers, ReadNetwork(t) PROVE GoesOn
<1>1. PICK f \in pending : pending' = pending \ {f} /\ stage' = IF outcome[f] = "aborts" THEN "aborted" ELSE stage
  BY DEF ReadNetwork
<1>2. stage = "networks" /\ pending \subseteq Files
  BY DEF ReadNetwork, TypeInv, TypeOK
<1>3. Cardinality(pending') < Cardinality(pending)
  <2>1. IsFiniteSet(pending)
    BY <1>2, InputAssumption, FS_Subset
  <2>2. Cardinality(pending') = Cardinality(pending) - 1 /\ Cardinality(pending) \in Nat
    BY <1>1, <2>1, FS_RemoveElement, FS_CardinalityType
  <2> QED
    BY <2>2
<1>4. CASE stage' = stage
  BY <1>3, <1>4 DEF GoesOn, ReadNetwork
<1>5. CASE stage' # stage
  BY <1>1, <1>2, <1>5, NextStage
<1> QED
  BY <1>4, <1>5

LEMMA MainGoesOn == ASSUME TypeInv, Main PROVE GoesOn
<1>1. CASE NetworksRead \/ InitializeReturns \/ ScipInit \/ MainAborts
  BY <1>1, NextStage DEF NetworksRead, InitializeReturns, ScipInit, MainAborts, Looping
<1>2. CASE DeleteConstraint \/ MapConstraint
  BY <1>2 DEF DeleteConstraint, MapConstraint, Looping, GoesOn
<1> QED
  BY <1>1, <1>2 DEF Main

(* Every step brings preprocessing nearer to its end, although the loop    *)
(* deletes from the array it walks and tasks fail: the stages, the slots   *)
(* that the array had, the files and the steps of a task are finitely many *)
(* and none comes back.                                                    *)
THEOREM PreprocessingGoesOn == Spec => [][GoesOn]_vars
<1>1. TypeInv /\ [Next]_vars => [GoesOn]_vars
  <2> SUFFICES ASSUME TypeInv, Next, ~ UNCHANGED vars
               PROVE  GoesOn
    OBVIOUS
  <2>1. ASSUME NEW t \in Workers, Worker(t)
        PROVE  GoesOn
    <3>1. CASE ReadNetwork(t)
      BY <3>1, ReadGoesOn
    <3>2. CASE AddNetwork(t)
      BY <3>2, TaskGoesOn DEF AddNetwork
    <3>3. CASE AddArcsOfNetwork(t)
      BY <3>3, TaskGoesOn DEF AddArcsOfNetwork
    <3> QED
      BY <2>1, <3>1, <3>2, <3>3 DEF Worker
  <2> QED
    BY <2>1, MainGoesOn DEF Next, Stopped
<1> QED
  BY <1>1, InitType, StepType, PTL DEF Spec

=============================================================================
