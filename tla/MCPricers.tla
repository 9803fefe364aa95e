------------------------------ MODULE MCPricers ------------------------------
(* Instances of Pricers for TLC. *)
EXTENDS Pricers, MCData

=============================================================================
