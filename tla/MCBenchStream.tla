---------------------------- MODULE MCBenchStream ----------------------------
(* Instances of the benchmark's order stream for TLC.                      *)
EXTENDS BenchStream

MCPrices == -1..3
MCAmendPrices == 0..1
MCQuantities == 0..2
MCFairValues == {1}

=============================================================================
