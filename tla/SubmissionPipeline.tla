-------------------------- MODULE SubmissionPipeline --------------------------
(***************************************************************************)
(* The CI server: GitHub pushes reach the webhook of infra/server/app.py,  *)
(* which runs infra/server/pipeline.py in a background task; the cron      *)
(* script of infra/scripts/setup-server.sh polls the branches and runs the *)
(* same pipeline in a process of its own.  Both record their progress in   *)
(* the submissions database of infra/server/models.py, one write at a time.*)
(*                                                                         *)
(* A commit is a number: the n-th push to its team's branch.               *)
(***************************************************************************)
EXTENDS Integers, FiniteSets, Sequences, TestVerdict

CONSTANTS
  Teams,       \* config.TEAM_NAMES
  Tasks,       \* bound: background tasks alive in the server at once
  Pollers,     \* bound: poll-branches.sh processes alive at once
  Operators,   \* bound: runs of run-pipeline.sh
  Scenarios,   \* the scenarios a benchmark may report
  SecretSet,   \* whether config.WEBHOOK_SECRET is set
  Provided,    \* what the server has of what poll-branches.sh needs
  Builds,      \* bound: whether builds may succeed, and fail
  Raises,      \* bound: the steps whose command may raise
  MaxPushes,   \* bound: pushes per team
  MaxFailures  \* bound: crashes and failed database calls

ASSUME RunnersAssumption ==
  /\ Tasks \cap Pollers = {} /\ Operators \cap (Tasks \cup Pollers) = {}
  /\ "none" \notin Tasks
ASSUME SecretAssumption == SecretSet \in BOOLEAN
\* The name a branch of no team has below.
ASSUME StrangerAssumption == "stranger" \notin Teams
\* CHALLENGE_REPO_URL in /etc/environment, and the sqlite3 command.
\* setup-server.sh sees to neither.
ASSUME ProvidedAssumption == Provided \subseteq {"url", "sqlite3"}
ASSUME OutcomesAssumption ==
  Builds \subseteq BOOLEAN /\ Raises \subseteq {"clone", "build", "test", "bench", "record"}
ASSUME BoundsAssumption == MaxPushes \in Nat \ {0} /\ MaxFailures \in Nat

VARIABLES
  head,        \* the last commit on each team's branch, 0 for none
  hooks,       \* push events GitHub has still to deliver
  limited,     \* teams whose _last_run is less than RATE_LIMIT_SECONDS old
  runs,        \* every task and process: where it is and what it works on
  lock,        \* the task that holds _pipeline_lock, or None
  rows,        \* the submissions table joined with its result tables
  failures     \* crashes and failed database calls so far

vars == <<head, hooks, limited, runs, lock, rows, failures>>

Commits == 1..MaxPushes
Processes == Pollers \cup Operators  \* outside the server
Runners == Tasks \cup Processes
None == "none"

Statuses == {"queued", "building", "testing", "benchmarking", "complete", "failed"}
Terminal == {"complete", "failed"}

TestResults == {"none", "all", "some", "zero"}

\* A row with its results.  History: pushed tells whether its commit was on the
\* branch when it was inserted, tree is the commit that was checked out, due the
\* verdict the tests should have, report what the benchmark reported.
Rows == [team : Teams, commit : 0..MaxPushes, pushed : BOOLEAN, status : Statuses,
         tree : 0..MaxPushes, built : {"none", "ok", "broken"}, tests : TestResults,
         due : {"none", "all", "less", "open"},
         report : SUBSET Scenarios, benches : SUBSET Scenarios]

NewRow(t, c) ==
  [team |-> t, commit |-> c, pushed |-> c \in 1..head[t], status |-> "queued", tree |-> 0,
   built |-> "none", tests |-> "none", due |-> "none", report |-> {}, benches |-> {}]

\* Where run_pipeline is: at the database write, or the clone, it does next.
PipelineSteps ==
  {"insert", "building", "clone", "build", "buildFailed", "testing", "test", "testFailed",
   "benchmarking", "bench", "record", "except"}

Pcs == {"off", "done", "waiting", "polling", "lookup"} \cup PipelineSteps

Off == [pc |-> "off", team |-> None, commit |-> 0, row |-> 0,
        teamsLeft |-> {}, scenarios |-> {}]

Init ==
  /\ head = [t \in Teams |-> 0]
  /\ hooks = {}
  /\ limited = {}
  /\ runs = [r \in Runners |-> Off]
  /\ lock = None
  /\ rows = <<>>
  /\ failures = 0

-----------------------------------------------------------------------------
(* GitHub.                                                                 *)

\* A request to the webhook.  branch is its ref without refs/heads/team/, or
\* "main" for any other ref; commit 0 is an empty id or forty zeros.
Delivery(t, c) == [event |-> "push", signed |-> TRUE, branch |-> t, commit |-> c]

\* What else arrives there: the ping of a new webhook, pushes to other branches
\* or to that of no team, the deletion of a branch, a wrong signature.
Strays ==
  UNION {{[Delivery(t, 1) EXCEPT !.event = "ping"], [Delivery(t, 1) EXCEPT !.branch = "main"],
          [Delivery(t, 1) EXCEPT !.branch = "stranger"], Delivery(t, 0),
          [Delivery(t, 1) EXCEPT !.signed = FALSE]} : t \in Teams}

Push(t) ==
  /\ head[t] < MaxPushes
  /\ head' = [head EXCEPT ![t] = @ + 1]
  /\ hooks' = hooks \cup {Delivery(t, head[t] + 1)}
  /\ UNCHANGED <<limited, runs, lock, rows, failures>>

\* A delivery that never reaches the server, or that it does not answer.
LoseHook(h) ==
  /\ hooks' = hooks \ {h}
  /\ UNCHANGED <<head, limited, runs, lock, rows, failures>>

-----------------------------------------------------------------------------
(* app.py: the webhook and the background task.                            *)

\* RATE_LIMIT_SECONDS pass since the last accepted push of team t.
WindowPasses(t) ==
  /\ t \in limited
  /\ limited' = limited \ {t}
  /\ UNCHANGED <<head, hooks, runs, lock, rows, failures>>

\* Without a secret every request is accepted (dev mode).
VerifySignature(q) == SecretSet => q.signed

\* Mutant: the deletion of a branch counts as a push.
IsPushOrDeletion(q) ==
  VerifySignature(q) /\ q.event = "push" /\ q.branch # "main" /\ q.branch \in Teams

\* What the webhook asks of a request before it looks at the rate limit.
IsTeamPush(q) ==
  /\ VerifySignature(q)
  /\ q.event = "push"
  /\ q.branch # "main"
  /\ q.commit # 0
  /\ q.branch \in Teams

\* Mutant: the window opens before the request is looked at.
RefuseHookCharged(q) ==
  /\ ~ IsTeamPush(q) \/ q.branch \in limited
  /\ hooks' = hooks \ {q}
  /\ limited' = limited \cup ({q.branch} \cap Teams)
  /\ UNCHANGED <<head, runs, lock, rows, failures>>

\* 403, 400, "ignored" or 429: GitHub does not deliver it again.
RefuseHook(q) ==
  /\ ~ IsTeamPush(q) \/ q.branch \in limited
  /\ hooks' = hooks \ {q}
  /\ UNCHANGED <<head, limited, runs, lock, rows, failures>>

AcceptHook(q, task) ==
  /\ IsTeamPush(q)
  /\ q.branch \notin limited
  /\ runs[task].pc = "off"
  /\ hooks' = hooks \ {q}
  /\ limited' = limited \cup {q.branch}
  /\ runs' = [runs EXCEPT ![task] =
                [Off EXCEPT !.pc = "waiting", !.team = q.branch, !.commit = q.commit]]
  /\ UNCHANGED <<head, lock, rows, failures>>

\* Mutant: each task has a lock of its own.
TakeOwnLock(task) ==
  /\ runs[task].pc = "waiting"
  /\ lock' = task
  /\ runs' = [runs EXCEPT ![task].pc = "insert"]
  /\ UNCHANGED <<head, hooks, limited, rows, failures>>

\* with _pipeline_lock: any waiting task may get it.
TakeLock(task) ==
  /\ runs[task].pc = "waiting"
  /\ lock = None
  /\ lock' = task
  /\ runs' = [runs EXCEPT ![task].pc = "insert"]
  /\ UNCHANGED <<head, hooks, limited, rows, failures>>

-----------------------------------------------------------------------------
(* poll-branches.sh.                                                       *)

\* Without CHALLENGE_REPO_URL the script has nothing to do.  cron looks for it in
\* /etc/environment, where nothing in the repository puts it.
StartPoll(p) ==
  /\ "url" \in Provided
  /\ runs[p].pc = "off"
  /\ runs' = [runs EXCEPT ![p] = [Off EXCEPT !.pc = "polling", !.teamsLeft = Teams]]
  /\ UNCHANGED <<head, hooks, limited, lock, rows, failures>>

\* Mutant: the cron backup honours the rate limit.
LsRemoteLimited(p, t) ==
  /\ runs[p].pc = "polling"
  /\ t \in runs[p].teamsLeft
  /\ runs' = [runs EXCEPT ![p].teamsLeft = @ \ {t},
                          ![p].team = t,
                          ![p].commit = head[t],
                          ![p].pc = IF head[t] = 0 \/ t \in limited THEN "polling" ELSE "lookup"]
  /\ UNCHANGED <<head, hooks, limited, lock, rows, failures>>

\* git ls-remote of the next team; a branch that is not there is skipped.
LsRemote(p, t) ==
  /\ runs[p].pc = "polling"
  /\ t \in runs[p].teamsLeft
  /\ runs' = [runs EXCEPT ![p].teamsLeft = @ \ {t},
                          ![p].team = t,
                          ![p].commit = head[t],
                          ![p].pc = IF head[t] = 0 THEN "polling" ELSE "lookup"]
  /\ UNCHANGED <<head, hooks, limited, lock, rows, failures>>

Submitted(t, c) == \E k \in DOMAIN rows : rows[k].team = t /\ rows[k].commit = c

\* SELECT COUNT(*): run the pipeline only if no row has this commit.  Without the
\* sqlite3 command every commit counts as not yet processed.
Lookup(p) ==
  /\ runs[p].pc = "lookup"
  /\ runs' = [runs EXCEPT ![p].pc =
                IF "sqlite3" \in Provided /\ Submitted(runs[p].team, runs[p].commit)
                  THEN "polling" ELSE "insert"]
  /\ UNCHANGED <<head, hooks, limited, lock, rows, failures>>

\* A failed query counts as "0" as well.
LookupFails(p) ==
  /\ runs[p].pc = "lookup"
  /\ failures < MaxFailures
  /\ failures' = failures + 1
  /\ runs' = [runs EXCEPT ![p].pc = "insert"]
  /\ UNCHANGED <<head, hooks, limited, lock, rows>>

EndPoll(p) ==
  /\ runs[p].pc = "polling"
  /\ runs[p].teamsLeft = {}
  /\ runs' = [runs EXCEPT ![p] = Off]
  /\ UNCHANGED <<head, hooks, limited, lock, rows, failures>>

-----------------------------------------------------------------------------
(* run-pipeline.sh: an operator submits a branch, processed or not.        *)

\* The head of the branch.  If the remote has no such branch, the commit of a
\* local one: it is pushed later, or never (0).
RunManually(o, t, c) ==
  /\ runs[o].pc = "off"
  /\ head[t] \in {0, c}
  /\ runs' = [runs EXCEPT ![o] =
                [Off EXCEPT !.pc = "insert", !.team = t, !.commit = c]]
  /\ UNCHANGED <<head, hooks, limited, lock, rows, failures>>

-----------------------------------------------------------------------------
(* pipeline.py: run_pipeline, one database write per step.  The outcome of *)
(* the command that precedes a write is chosen with it.                    *)

\* r is at this point of run_pipeline.
AtStep(r, pc) == runs[r].pc = pc

Goto(r, pc) ==
  /\ runs' = [runs EXCEPT ![r].pc = pc]
  /\ UNCHANGED lock

\* What is left of a process that ended: an operator's does not start again.
Ended(r) == IF r \in Operators THEN [Off EXCEPT !.pc = "done"] ELSE Off

\* run_pipeline returns, or raises: a task ends and frees the lock either way,
\* a poller goes on with its next team only if nothing was raised (set -e).
Leave(r, raised) ==
  /\ runs' = [runs EXCEPT ![r] =
                IF r \notin Pollers \/ raised THEN Ended(r)
                ELSE [Off EXCEPT !.pc = "polling", !.teamsLeft = runs[r].teamsLeft]]
  /\ lock' = IF lock = r THEN None ELSE lock

\* Mutant: the step's name is written in place of its status.
SetStatusToStep(r, status) == rows' = [rows EXCEPT ![runs[r].row].status = runs[r].pc]

\* Mutant: the status goes to the latest submission of the table.
SetStatusOfLatest(r, status) == rows' = [rows EXCEPT ![Len(rows)].status = status]

SetStatus(r, status) == rows' = [rows EXCEPT ![runs[r].row].status = status]

Outside == UNCHANGED <<head, hooks, limited>>

\* Mutant: a commit that has a row gets no second one.
InsertOrReuse(r) ==
  LET known == {k \in DOMAIN rows : rows[k].team = runs[r].team /\ rows[k].commit = runs[r].commit}
  IN  /\ AtStep(r, "insert")
      /\ IF known # {}
           THEN /\ runs' = [runs EXCEPT ![r].pc = "building", ![r].row = CHOOSE k \in known : TRUE]
                /\ UNCHANGED rows
           ELSE /\ rows' = Append(rows, NewRow(runs[r].team, runs[r].commit))
                /\ runs' = [runs EXCEPT ![r].pc = "building", ![r].row = Len(rows) + 1]
      /\ UNCHANGED <<lock, failures>> /\ Outside

InsertSubmission(r) ==
  /\ AtStep(r, "insert")
  /\ rows' = Append(rows, NewRow(runs[r].team, runs[r].commit))
  /\ runs' = [runs EXCEPT ![r].pc = "building", ![r].row = Len(rows) + 1]
  /\ UNCHANGED <<lock, failures>> /\ Outside

StartBuilding(r) ==
  /\ AtStep(r, "building")
  /\ SetStatus(r, "building")
  /\ Goto(r, "clone")
  /\ UNCHANGED failures /\ Outside

\* Mutant: a clone left by an earlier run is used again.
CloneRepoCached(r) ==
  LET cloned == {rows[k].tree : k \in {n \in DOMAIN rows : rows[n].team = runs[r].team}} \ {0}
  IN  /\ AtStep(r, "clone")
      /\ runs' = [runs EXCEPT ![r].pc = "build"]
      /\ rows' = [rows EXCEPT ![runs[r].row].tree =
                     IF cloned = {} THEN head[runs[r].team] ELSE CHOOSE c \in cloned : TRUE]
      /\ UNCHANGED <<lock, failures>> /\ Outside

\* The head of the branch is checked out, whatever commit the row names; a
\* mismatch is only logged.
CloneRepo(r) ==
  /\ AtStep(r, "clone")
  /\ head[runs[r].team] # 0
  /\ runs' = [runs EXCEPT ![r].pc = "build"]
  /\ rows' = [rows EXCEPT ![runs[r].row].tree = head[runs[r].team]]
  /\ UNCHANGED <<lock, failures>> /\ Outside

InsertBuildResult(r, ok) ==
  rows' = [rows EXCEPT ![runs[r].row].built = IF ok THEN "ok" ELSE "broken"]

\* A timeout is a build that failed.
DockerBuild(r, ok) ==
  /\ AtStep(r, "build")
  /\ InsertBuildResult(r, ok)
  /\ Goto(r, IF ok THEN "testing" ELSE "buildFailed")
  /\ UNCHANGED failures /\ Outside

StartTesting(r) ==
  /\ AtStep(r, "testing")
  /\ SetStatus(r, "testing")
  /\ Goto(r, "test")
  /\ UNCHANGED failures /\ Outside

InsertTestResult(r, judgement) ==
  rows' = [rows EXCEPT ![runs[r].row].tests = judgement.verdict,
                       ![runs[r].row].due = judgement.due]

\* Mutant: failed tests do not stop the pipeline.
DockerTestLenient(r, judgement) ==
  /\ AtStep(r, "test")
  /\ InsertTestResult(r, judgement)
  /\ Goto(r, "benchmarking")
  /\ UNCHANGED failures /\ Outside

\* passed != total stops the pipeline.
DockerTest(r, judgement) ==
  /\ AtStep(r, "test")
  /\ InsertTestResult(r, judgement)
  /\ Goto(r, IF judgement.verdict = "some" THEN "testFailed" ELSE "benchmarking")
  /\ UNCHANGED failures /\ Outside

\* Mutant: the early return does not mark the row.
StopEarlySilently(r) ==
  /\ AtStep(r, "buildFailed") \/ AtStep(r, "testFailed")
  /\ Leave(r, FALSE)
  /\ UNCHANGED <<rows, failures>> /\ Outside

\* The early returns after a failed build or a failed test.
StopEarly(r) ==
  /\ AtStep(r, "buildFailed") \/ AtStep(r, "testFailed")
  /\ SetStatus(r, "failed")
  /\ Leave(r, FALSE)
  /\ UNCHANGED failures /\ Outside

StartBenchmark(r) ==
  /\ AtStep(r, "benchmarking")
  /\ SetStatus(r, "benchmarking")
  /\ Goto(r, "bench")
  /\ UNCHANGED failures /\ Outside

\* The scenarios of the first JSON object in the output, which the submission
\* prints to as well: any of them, or none.
DockerBench(r, reported) ==
  /\ AtStep(r, "bench")
  /\ rows' = [rows EXCEPT ![runs[r].row].report = reported]
  /\ runs' = [runs EXCEPT ![r].pc = "record", ![r].scenarios = reported]
  /\ UNCHANGED <<lock, failures>> /\ Outside

RecordBench(r, s) ==
  /\ AtStep(r, "record")
  /\ s \in runs[r].scenarios
  /\ rows' = [rows EXCEPT ![runs[r].row].benches = @ \cup {s}]
  /\ runs' = [runs EXCEPT ![r].scenarios = @ \ {s}]
  /\ UNCHANGED <<lock, failures>> /\ Outside

\* Nothing asks how many scenarios there were.
Complete(r) ==
  /\ AtStep(r, "record")
  /\ runs[r].scenarios = {}
  /\ SetStatus(r, "complete")
  /\ Leave(r, FALSE)
  /\ UNCHANGED failures /\ Outside

\* The command of a step raises: git or docker fails, a branch to clone is not
\* there, a benchmark times out or prints no JSON, or figures that are none.
CommandRaises(r) ==
  /\ \/ runs[r].pc \in Raises /\ (AtStep(r, "record") => runs[r].scenarios # {})
     \/ AtStep(r, "clone") /\ head[runs[r].team] = 0
  /\ Goto(r, "except")
  /\ UNCHANGED <<rows, failures>> /\ Outside

\* Both except clauses.
MarkFailed(r) ==
  /\ AtStep(r, "except")
  /\ SetStatus(r, "failed")
  /\ Leave(r, FALSE)
  /\ UNCHANGED failures /\ Outside

\* A database call raises inside the try block.
WriteFails(r) ==
  /\ runs[r].pc \in PipelineSteps \ {"insert", "clone", "bench", "except"}
  /\ failures < MaxFailures
  /\ failures' = failures + 1
  /\ Goto(r, "except")
  /\ UNCHANGED rows /\ Outside

\* Before the try block (the insert, or the mkdir that follows it) and in an
\* except clause an error leaves run_pipeline.
WriteFailsOutside(r) ==
  /\ runs[r].pc \in {"insert", "building", "except"}
  /\ failures < MaxFailures
  /\ failures' = failures + 1
  /\ Leave(r, TRUE)
  /\ UNCHANGED rows /\ Outside

RunStep(r) ==
  \/ InsertSubmission(r) \/ StartBuilding(r) \/ CloneRepo(r)
  \/ \E ok \in Builds : DockerBuild(r, ok)
  \/ StartTesting(r)
  \/ \E judgement \in Judgements : DockerTest(r, judgement)
  \/ StopEarly(r) \/ StartBenchmark(r)
  \/ \E reported \in SUBSET Scenarios : DockerBench(r, reported)
  \/ \E s \in Scenarios : RecordBench(r, s)
  \/ Complete(r) \/ CommandRaises(r) \/ MarkFailed(r)

-----------------------------------------------------------------------------
(* Crashes.  Only the database survives; nothing is resumed at startup.    *)

CrashServer ==
  /\ failures < MaxFailures
  /\ failures' = failures + 1
  /\ runs' = [r \in Runners |-> IF r \in Tasks THEN Off ELSE runs[r]]
  /\ lock' = None
  /\ limited' = {}
  /\ UNCHANGED <<head, hooks, rows>>

\* Killed, or ended by set -e when git ls-remote fails.
CrashProcess(p) ==
  /\ runs[p].pc \notin {"off", "done"}
  /\ failures < MaxFailures
  /\ failures' = failures + 1
  /\ runs' = [runs EXCEPT ![p] = Ended(p)]
  /\ UNCHANGED <<head, hooks, limited, lock, rows>>

-----------------------------------------------------------------------------
PollStep(p) == (\E t \in Teams : LsRemote(p, t)) \/ Lookup(p) \/ EndPoll(p)

Next ==
  \/ \E t \in Teams : Push(t) \/ WindowPasses(t)
  \/ \E h \in hooks : LoseHook(h)
  \/ \E q \in hooks \cup Strays : RefuseHook(q) \/ \E task \in Tasks : AcceptHook(q, task)
  \/ \E task \in Tasks : TakeLock(task)
  \/ \E p \in Pollers : StartPoll(p) \/ PollStep(p) \/ LookupFails(p)
  \/ \E o \in Operators, t \in Teams, c \in 0..MaxPushes : RunManually(o, t, c)
  \/ \E p \in Processes : CrashProcess(p)
  \/ \E r \in Runners : RunStep(r) \/ WriteFails(r) \/ WriteFailsOutside(r)
  \/ CrashServer

\* Each task and process goes on, every command ends by its timeout, cron keeps
\* starting polls where it can.  Nothing makes GitHub deliver a hook.
Fairness ==
  /\ \A task \in Tasks : WF_vars(TakeLock(task) \/ RunStep(task))
  /\ \A p \in Pollers : WF_vars(StartPoll(p) \/ PollStep(p) \/ RunStep(p))
  /\ \A o \in Operators : WF_vars(RunStep(o))

Spec == Init /\ [][Next]_vars /\ Fairness

-----------------------------------------------------------------------------
(* Properties                                                              *)

TypeOK ==
  /\ head \in [Teams -> 0..MaxPushes]
  /\ hooks \subseteq {Delivery(t, c) : t \in Teams, c \in Commits}
  /\ limited \subseteq Teams
  /\ runs \in [Runners -> [pc : Pcs, team : Teams \cup {None}, commit : 0..MaxPushes,
                           row : Nat, teamsLeft : SUBSET Teams,
                           scenarios : SUBSET Scenarios]]
  /\ lock \in Tasks \cup {None}
  /\ rows \in Seq(Rows)
  /\ failures \in 0..MaxFailures

\* A row that reads "complete" went through every step: its build succeeded,
\* no test result with a failure is attached and every figure that its benchmark
\* reported is recorded, whichever writes failed and whoever crashed on the way.
CompleteIsEarned ==
  \A k \in DOMAIN rows :
    rows[k].status = "complete" =>
      /\ rows[k].built = "ok"
      /\ rows[k].tests \in {"all", "zero"}
      /\ rows[k].benches = rows[k].report

\* Wherever the output allows to tell, a submission counts as having passed its
\* tests exactly if each of them passed in the container: the verdict makes no
\* pass of a check that fails, a crash or a hang halfway, and misses none.
VerdictsAreTrue ==
  \A k \in DOMAIN rows : rows[k].due # "open" => (rows[k].tests = "all" <=> rows[k].due = "all")

\* The server and the poller submit only commits that were pushed to their team's
\* branch, whatever else arrives at the webhook; and whoever submits, a manual run
\* of a local branch included, only what was pushed is built.
SubmissionsWerePushed ==
  /\ \A r \in Tasks \cup Pollers : runs[r].row # 0 => rows[runs[r].row].pushed
  /\ \A k \in DOMAIN rows : rows[k].built # "none" => rows[k].tree \in 1..head[rows[k].team]

\* A request costs a team its window only if it starts a run for that team: one
\* that is refused never keeps the next push out.
WindowOnlyForRuns ==
  [][\A t \in limited' \ limited :
       \E task \in Tasks :
         runs[task].pc = "off" /\ runs'[task].pc = "waiting" /\ runs'[task].team = t]_vars

\* Each row has one writer, even when a task and a poller work on the same
\* commit: no run ever writes results into the submission of another.
OneWriterPerRow ==
  \A r, q \in Runners :
    /\ runs[r].row # 0 => runs[r].row \in DOMAIN rows /\ rows[runs[r].row].team = runs[r].team
    /\ r # q /\ runs[r].row # 0 => runs[r].row # runs[q].row

\* The server runs one pipeline at a time, however many tasks wait; a free lock
\* means that no task is inside run_pipeline, and a taken one that its holder is.
TasksTakeTurns ==
  \A task \in Tasks : runs[task].pc \in PipelineSteps <=> lock = task

\* What was tested is never older than the commit the row names, if that was on
\* the branch when the row was inserted.
TestedIsCurrent ==
  \A k \in DOMAIN rows : rows[k].pushed /\ rows[k].tree # 0 => rows[k].tree >= rows[k].commit

Order(status) ==
  CASE status = "queued" -> 0 [] status = "building" -> 1 [] status = "testing" -> 2
    [] status = "benchmarking" -> 3 [] status \in Terminal -> 4

\* A row is never removed or handed to another commit, its status never goes
\* back, and once it is complete or failed nothing of it changes.
RowsMoveForward ==
  [][\A k \in DOMAIN rows :
       /\ k \in DOMAIN rows'
       /\ rows'[k].team = rows[k].team /\ rows'[k].commit = rows[k].commit
       /\ Order(rows[k].status) <= Order(rows'[k].status)
       /\ rows[k].status \in Terminal => rows'[k] = rows[k]]_vars

\* Whatever was lost (a hook, a rate-limited push, a task in a crash, a failed
\* insert), the cron backup of README.md:456, where cron can start it, sees to it
\* that each head of a branch, or a later one, is submitted.
EveryHeadSubmitted ==
  \A t \in Teams, c \in Commits :
    head[t] = c ~> \E k \in DOMAIN rows : rows[k].team = t /\ rows[k].commit >= c

\* Each head of a branch, or a later commit, is judged: a row of it ends complete
\* or failed.  The one exception is a row that a crash or a failed database call
\* left behind: nobody works on it, and it hides its commit from the poller.
EveryHeadJudged ==
  \A t \in Teams, c \in Commits :
    head[t] = c ~>
      \E k \in DOMAIN rows :
        /\ rows[k].team = t /\ rows[k].commit >= c
        /\ \/ rows[k].status \in Terminal
           \/ failures > 0 /\ \A r \in Runners : runs[r].row # k

\* The poller triggers the pipeline only for commits "that have not yet been
\* processed" (setup-server.sh:188-189): no commit gets a second row.
CommitSubmittedOnce ==
  \A j, k \in DOMAIN rows :
    rows[j].team = rows[k].team /\ rows[j].commit = rows[k].commit => j = k

\* "On failure the pipeline ... stops early" (pipeline.py:12-14): a submission
\* that passed no test at all is not benchmarked.
UntestedIsNotBenchmarked ==
  \A k \in DOMAIN rows :
    rows[k].status \in {"benchmarking", "complete"} => rows[k].tests = "all"

=============================================================================
