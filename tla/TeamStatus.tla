------------------------------ MODULE TeamStatus ------------------------------
(***************************************************************************)
(* GET /api/status/{team_name} of infra/server/app.py over get_team_status *)
(* of infra/server/models.py, while pipelines run: the latest submission   *)
(* of a team by submitted_at, and one more SELECT for each kind of result. *)
(* The server's tasks wait for _db_lock until the report is put together,  *)
(* a pipeline in another process writes between the SELECTs.               *)
(***************************************************************************)
EXTENDS PipelineRefinement, FiniteSetsExt

CONSTANT MaxSubmissions  \* bound: rows of the submissions table

VARIABLES
  taken,      \* the submitted_at each run has ready for its insert, 0 for none
  submitted,  \* submitted_at of every row and, history, the run it is from
  report      \* the report being put together, or the last one

statusVars == <<head, hooks, limited, runs, lock, rows, failures, taken, submitted, report>>

StatusInit ==
  /\ Init
  /\ taken = [r \in Runners |-> 0]
  /\ submitted = <<>>
  /\ report = [phase |-> "none"]

-----------------------------------------------------------------------------
(* submitted_at: only the order of the times matters.                      *)

TimesSoFar == {taken[r] : r \in Runners} \cup {submitted[k].at : k \in DOMAIN submitted}

\* insert_submission reads the clock before it waits for _db_lock and the
\* database: another process may insert a later time first.
ReadClock(r) ==
  /\ AtStep(r, "insert")
  /\ taken[r] = 0
  /\ taken' = [taken EXCEPT ![r] = Max(TimesSoFar) + 1]
  /\ UNCHANGED <<vars, submitted, report>>

Insert(r) ==
  /\ taken[r] # 0 /\ Len(rows) < MaxSubmissions
  /\ InsertSubmission(r)
  /\ submitted' = Append(submitted, [at |-> taken[r], by |-> r])
  /\ taken' = [taken EXCEPT ![r] = 0]

\* Every other step of a pipeline; one that leaves its insert drops the time.
OtherStep ==
  /\ Next
  /\ Len(rows') = Len(rows)
  /\ taken' = [r \in Runners |-> IF runs'[r].pc = "insert" THEN taken[r] ELSE 0]
  /\ UNCHANGED submitted

-----------------------------------------------------------------------------
(* get_team_status.                                                        *)

Assembling == report.phase \in {"build", "tests", "benchmarks"}

\* Mutant: the latest submission is the one with the largest id.
LatestById(t) ==
  {k \in DOMAIN rows : rows[k].team = t /\ \A j \in DOMAIN rows : rows[j].team = t => j <= k}

\* ORDER BY submitted_at DESC LIMIT 1.
Latest(t) ==
  {k \in DOMAIN rows :
     /\ rows[k].team = t
     /\ \A j \in DOMAIN rows : rows[j].team = t => submitted[j].at <= submitted[k].at}

\* A team without a submission is answered 404, which changes nothing.
QuerySubmission(t) ==
  /\ ~ Assembling
  /\ \E k \in Latest(t) :
       report' = [phase |-> "build", row |-> k, status |-> rows[k].status,
                  built |-> "none", tests |-> "none", benches |-> {}]

QueryBuild ==
  /\ report.phase = "build"
  /\ report' = [report EXCEPT !.phase = "tests", !.built = rows[report.row].built]

QueryTests ==
  /\ report.phase = "tests"
  /\ report' = [report EXCEPT !.phase = "benchmarks", !.tests = rows[report.row].tests]

QueryBenches ==
  /\ report.phase = "benchmarks"
  /\ report' = [report EXCEPT !.phase = "sent", !.benches = rows[report.row].benches]

Query ==
  /\ (\E t \in Teams : QuerySubmission(t)) \/ QueryBuild \/ QueryTests \/ QueryBenches
  /\ UNCHANGED <<vars, taken, submitted>>

\* Mutant: _db_lock is taken for each SELECT.
TasksGoOn == Assembling => limited' \subseteq limited

\* get_team_status holds _db_lock and, called from a coroutine, the event loop:
\* the server's tasks write nothing and no request is taken meanwhile.  (A clone
\* or a benchmark of theirs that ends meanwhile, which only history shows, counts
\* as ending behind the report.)
ServerWaits ==
  Assembling =>
    /\ limited' \subseteq limited
    /\ rows' # rows => \E p \in Processes : runs'[p] # runs[p]

\* A crash of the server takes the report with it.
Lose ==
  report' = IF Assembling /\ CrashServer THEN [report EXCEPT !.phase = "lost"] ELSE report

StatusNext ==
  \/ \E r \in Runners : ReadClock(r)
  \/ (OtherStep \/ \E r \in Runners : Insert(r)) /\ ServerWaits /\ Lose
  \/ Query

StatusSpec == StatusInit /\ [][StatusNext]_statusVars

-----------------------------------------------------------------------------
(* Properties                                                              *)

\* What the status of a report implies is in the report, although it was read at
\* another time than the results: a build before the tests, a test result before
\* the benchmark, every figure of a complete submission.  A report on a
\* submission that the server itself runs shows one moment of it: nothing is
\* ahead of its status or of what comes before it.
ReportIsConsistent ==
  report.phase = "sent" =>
    /\ report.status \in {"testing", "benchmarking", "complete"} => report.built = "ok"
    /\ report.status \in {"benchmarking", "complete"} => report.tests \in {"all", "zero"}
    /\ report.status = "complete" => report.benches = rows[report.row].report
    /\ submitted[report.row].by \in Tasks =>
         /\ report.built # "none" => report.status # "queued"
         /\ report.tests # "none" =>
              report.built = "ok" /\ Order(report.status) >= Order("testing")
         /\ report.benches # {} =>
              report.tests # "none" /\ Order(report.status) >= Order("benchmarking")

\* From one report of a team to its next, the submission is never replaced by an
\* older one and its status never goes back, in whatever order rows were inserted.
StatusNeverGoesBack ==
  [][/\ ~ Assembling /\ Assembling' /\ report.phase # "none"
     /\ rows[report.row].team = rows[report'.row].team
     =>
         /\ submitted[report.row].at <= submitted[report'.row].at
         /\ report.row = report'.row => Order(report.status) <= Order(report'.status)]_statusVars

=============================================================================
