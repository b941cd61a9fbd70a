----------------------------- MODULE Leaderboard -----------------------------
(***************************************************************************)
(* The leaderboard: GET /api/leaderboard of infra/server/app.py over the   *)
(* queries of infra/server/models.py, while pipelines write to the same    *)
(* database.  A reply is put together from one SELECT for the ranking, one *)
(* per ranked team for its scenarios and one per team for its submission   *)
(* count; no transaction spans them and a pipeline in another process may  *)
(* write between any two.  _db_lock orders only the threads of one process.*)
(***************************************************************************)
EXTENDS Integers, FiniteSets, Sequences, SequencesExt

CONSTANTS
  Teams,
  Scenarios,
  Weight,         \* tenths of the composite score, by scenario
  Stats,          \* the figures a benchmark may report for a scenario
  MaxSubmissions  \* bound: rows of the submissions table

ASSUME TeamsAssumption == IsFiniteSet(Teams)
ASSUME WeightAssumption == Weight \in [Scenarios -> Nat]
ASSUME StatsAssumption == Stats \subseteq [p50 : Nat, mean : Nat, ops : Nat]

VARIABLES
  db,      \* submissions, by id, each with its test and bench results
  reply    \* the reply being put together, or the last one sent

vars == <<db, reply>>

Submission == [team : Teams, status : {"running", "complete", "failed"},
               tests : {"none", "all", "some", "zero"},
               benches : UNION {[done -> Stats] : done \in SUBSET Scenarios}]

Init == db = <<>> /\ reply = [phase |-> "sent", next |-> 1, entries |-> <<>>]

-----------------------------------------------------------------------------
(* The writes of run_pipeline, by whichever process runs it.               *)

Running(k) == k \in DOMAIN db /\ db[k].status = "running"

InsertSubmission(team) ==
  /\ db' = Append(db, [team |-> team, status |-> "running", tests |-> "none", benches |-> <<>>])
  /\ UNCHANGED reply

InsertTestResult(k, outcome) ==
  /\ Running(k) /\ db[k].tests = "none"
  /\ db' = [db EXCEPT ![k].tests = outcome]
  /\ UNCHANGED reply

InsertBenchResult(k, scenario, stats) ==
  /\ Running(k)
  /\ db[k].tests \in {"all", "zero"}
  /\ scenario \notin DOMAIN db[k].benches
  /\ db' = [db EXCEPT ![k].benches =
              [s \in DOMAIN @ \cup {scenario} |-> IF s = scenario THEN stats ELSE @[s]]]
  /\ UNCHANGED reply

\* With whatever scenarios there are.
Complete(k) ==
  /\ Running(k)
  /\ db[k].tests \in {"all", "zero"}
  /\ db' = [db EXCEPT ![k].status = "complete"]
  /\ UNCHANGED reply

\* Mutant: a status that no query knows.
FailWithError(k) ==
  /\ Running(k)
  /\ db' = [db EXCEPT ![k].status = "error"]
  /\ UNCHANGED reply

Fail(k) ==
  /\ Running(k)
  /\ db' = [db EXCEPT ![k].status = "failed"]
  /\ UNCHANGED reply

-----------------------------------------------------------------------------
(* The queries.                                                            *)

\* Mutant: s.status = 'complete' is left out.
QualifiedByTests == {k \in DOMAIN db : db[k].tests = "all"}

\* Mutant: t.total > 0 is left out.
QualifiedWithoutTests == {k \in DOMAIN db : db[k].status = "complete" /\ db[k].tests \in {"all", "zero"}}

Qualified == {k \in DOMAIN db : db[k].status = "complete" /\ db[k].tests = "all"}

WeightedSum(benches, figure) ==
  MapThenSumSet(LAMBDA s : Weight[s] * benches[s][figure], DOMAIN benches)

WeightedOps(benches) == WeightedSum(benches, "ops")
WeightedP50(benches) == WeightedSum(benches, "p50")
WeightedMean(benches) == WeightedSum(benches, "mean")

\* The inner join drops a submission without bench results.
Scored == {k \in Qualified : DOMAIN db[k].benches # {}}

Score(k) == WeightedOps(db[k].benches)

\* Mutant: a team is ranked on its latest submission.
LatestOfTeam(k) == \A j \in Scored : db[j].team = db[k].team => j <= k

\* rn = 1: a submission of its team that none of the team's outscores.
BestOfTeam(k) == \A j \in Scored : db[j].team = db[k].team => Score(j) <= Score(k)

\* Every result the query may have; nothing orders equal scores.
Rankings ==
  {r \in UNION {[1..n -> Scored] : n \in 0..Cardinality(Teams)} :
     /\ {db[r[i]].team : i \in DOMAIN r} = {db[k].team : k \in Scored}
     /\ \A i, j \in DOMAIN r : i # j => db[r[i]].team # db[r[j]].team
     /\ \A i \in DOMAIN r : BestOfTeam(r[i])
     /\ \A i, j \in DOMAIN r : i < j => Score(r[i]) >= Score(r[j])}

SubmissionCount(team) == Cardinality({k \in DOMAIN db : db[k].team = team})

-----------------------------------------------------------------------------
(* GET /api/leaderboard.                                                   *)

Entry(k) == [row |-> k, team |-> db[k].team, ops |-> Score(k),
             p50 |-> WeightedP50(db[k].benches), scenarios |-> <<>>,
             mean |-> 0, submissions |-> 0]

QueryRanking ==
  /\ reply.phase = "sent"
  /\ \E r \in Rankings :
       reply' = [phase |-> "scenarios", next |-> 1,
                 entries |-> [i \in DOMAIN r |-> Entry(r[i])]]
  /\ UNCHANGED db

\* The breakdown of the next ranked team.
QueryScenarios ==
  /\ reply.phase = "scenarios"
  /\ reply.next \in DOMAIN reply.entries
  /\ reply' = [reply EXCEPT !.next = @ + 1,
                            !.entries[reply.next].scenarios = db[reply.entries[reply.next].row].benches]
  /\ UNCHANGED db

\* get_leaderboard returns; _transform_leaderboard starts over the entries.
StartTransform ==
  /\ reply.phase = "scenarios"
  /\ reply.next = Len(reply.entries) + 1
  /\ reply' = [reply EXCEPT !.phase = "counts", !.next = 1]
  /\ UNCHANGED db

TransformEntry ==
  /\ reply.phase = "counts"
  /\ reply.next \in DOMAIN reply.entries
  /\ LET entry == reply.entries[reply.next]
     IN  reply' = [reply EXCEPT !.next = @ + 1,
                     !.entries[reply.next].mean = WeightedMean(entry.scenarios),
                     !.entries[reply.next].submissions = SubmissionCount(entry.team)]
  /\ UNCHANGED db

SendReply ==
  /\ reply.phase = "counts"
  /\ reply.next = Len(reply.entries) + 1
  /\ reply' = [reply EXCEPT !.phase = "sent"]
  /\ UNCHANGED db

Write ==
  \/ \E team \in Teams : InsertSubmission(team)
  \/ \E k \in DOMAIN db :
       \/ \E outcome \in {"all", "some", "zero"} : InsertTestResult(k, outcome)
       \/ \E scenario \in Scenarios, stats \in Stats : InsertBenchResult(k, scenario, stats)
       \/ Complete(k) \/ Fail(k)

\* The bound is TLC's: what a pipeline may write does not depend on it.
Next ==
  \/ Write /\ Len(db') <= MaxSubmissions
  \/ QueryRanking \/ QueryScenarios \/ StartTransform \/ TransformEntry \/ SendReply

Spec == Init /\ [][Next]_vars

-----------------------------------------------------------------------------
(* Properties                                                              *)

TypeOK ==
  /\ db \in Seq(Submission)
  /\ reply.phase \in {"scenarios", "counts", "sent"}
  /\ reply.next \in 1..Len(reply.entries) + 1

\* A reply is consistent although its parts were read at different times with
\* pipelines writing in between: the scenarios of an entry are those its score
\* was computed from, at least one, and its team has a submission to count.
ReplyIsConsistent ==
  reply.phase = "sent" =>
    \A i \in DOMAIN reply.entries :
      LET entry == reply.entries[i]
      IN  /\ DOMAIN entry.scenarios # {}
          /\ entry.ops = WeightedOps(entry.scenarios)
          /\ entry.p50 = WeightedP50(entry.scenarios)
          /\ entry.submissions \in 1..SubmissionCount(entry.team)

\* Nobody is ranked on a submission that is unfinished, failed, or did not pass
\* its tests, not even by the time the reply is sent.
OnlyQualifiedRanked ==
  \A i \in DOMAIN reply.entries :
    LET submission == db[reply.entries[i].row]
    IN  submission.status = "complete" /\ submission.tests = "all"

\* From one reply to the next no team disappears or scores less, whatever was
\* submitted, failed or finished meanwhile.
TeamsNeverLoseGround ==
  [][reply.phase = "sent" /\ reply'.phase # "sent" =>
       \A i \in DOMAIN reply.entries :
         \E j \in DOMAIN reply'.entries :
           /\ reply'.entries[j].team = reply.entries[i].team
           /\ reply'.entries[j].ops >= reply.entries[i].ops]_vars

=============================================================================
