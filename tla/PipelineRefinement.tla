-------------------------- MODULE PipelineRefinement --------------------------
(***************************************************************************)
(* What the leaderboard assumes of the pipelines that write its tables,    *)
(* shown of the pipeline: SubmissionPipeline implements the writes of      *)
(* Leaderboard, which no bound limits.  The figures of a benchmark are     *)
(* left out on both sides.                                                 *)
(***************************************************************************)
EXTENDS SubmissionPipeline

Figures == [p50 |-> 1, mean |-> 1, ops |-> 1]

\* The submissions as get_leaderboard sees them.
LeaderboardRows ==
  [k \in DOMAIN rows |->
     [team |-> rows[k].team,
      status |-> IF rows[k].status \in Terminal THEN rows[k].status ELSE "running",
      tests |-> rows[k].tests,
      benches |-> [s \in rows[k].benches |-> Figures]]]

NoReply == [phase |-> "sent", next |-> 1, entries |-> <<>>]

Board == INSTANCE Leaderboard
  WITH Weight <- [s \in Scenarios |-> 1], Stats <- {Figures},
       MaxSubmissions <- 0, db <- LeaderboardRows, reply <- NoReply

\* The leaderboard's rows are written as its own specification assumes, whoever
\* runs the pipeline, crashes or fails: a test result once and before figures,
\* no figures after a failed test and each once, nothing after "complete" or
\* "failed".
ImplementsLeaderboardWrites ==
  Board!Init /\ [][LeaderboardRows' # LeaderboardRows => Board!Write]_rows

=============================================================================
