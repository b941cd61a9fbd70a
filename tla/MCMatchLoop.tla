----------------------------- MODULE MCMatchLoop -----------------------------
(* Instances of the matching loop for TLC.                                 *)
EXTENDS MatchLoop

MCPrices == 0..2
MCQuantities == 0..2

=============================================================================
