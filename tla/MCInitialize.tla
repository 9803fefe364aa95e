----------------------------- MODULE MCInitialize -----------------------------
(***************************************************************************)
(* Instances of Initialize for TLC: four files, two of them of group 1, an *)
(* LP of five constraints, any of which may be unneeded.                   *)
(***************************************************************************)
EXTENDS Initialize

MCFiles == {"a_1", "b_1", "c_2", "d_3"}

MCFileGroup == [f \in MCFiles |->
  CASE f \in {"a_1", "b_1"} -> 1
    [] f = "c_2" -> 2
    [] f = "d_3" -> 3]

(* The files of group 1 differ: only one of them has q. *)
MCFileArcs == [f \in MCFiles |->
  CASE f = "a_1" -> {"p", "q"}
    [] f = "b_1" -> {"p"}
    [] f = "c_2" -> {"r"}
    [] f = "d_3" -> {"s"}]

(* Netzwerk 20 is in files of two groups; group 1 has two of its own. *)
MCNetzwerk == [a \in {"p", "q", "r", "s"} |->
  CASE a = "p" -> 11
    [] a = "q" -> 12
    [] a \in {"r", "s"} -> 20]

AnyOutcome == [MCFiles -> {"reads", "throws", "aborts"}]

MCConss == <<"beta1", "flow1", "beta2", "alpha", "flow2">>

FewConss == <<"beta1", "flow1", "alpha">>

MCConsVars == [c \in Range(MCConss) |->
  CASE c = "beta1" -> <<NoArc, "p", "r">>
    [] c = "beta2" -> <<"p", "q", NoArc, "p">>
    [] c = "alpha" -> <<NoArc>>
    [] c \in {"flow1", "flow2"} -> <<"p", "s">>]

FewConsVars == [c \in Range(FewConss) |-> MCConsVars[c]]

=============================================================================
