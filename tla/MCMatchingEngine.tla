-------------------------- MODULE MCMatchingEngine --------------------------
(* Instances of the matching engine, its queries and its refinement of the *)
(* double auction for TLC.                                                 *)
EXTENDS MatchingEngineRefinement, BookQueries

MCPrices == 0..2
MCDeepPrices == 0..3
MCQuantities == 0..2
SymbolSymmetry == Permutations(Symbols)

=============================================================================
