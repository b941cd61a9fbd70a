---------------------------- MODULE MCLeaderboard ----------------------------
(* Instances of the leaderboard for TLC.                                   *)
EXTENDS Leaderboard

MCWeight == [s \in Scenarios |-> IF s = "realistic" THEN 4 ELSE 3]

\* One set of figures: scores differ by the scenarios that a row has.
MCStats == {[p50 |-> 2, mean |-> 3, ops |-> 1]}

TeamSymmetry == Permutations(Teams)

=============================================================================
