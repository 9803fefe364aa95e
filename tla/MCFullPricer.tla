----------------------------- MODULE MCFullPricer -----------------------------
(* Instances of FullPricer for TLC. *)
EXTENDS FullPricer, MCData, TLC

ThreadSymmetry == Permutations(Workers)

=============================================================================
