---------------------- MODULE SubmissionPipelineProofs ----------------------
(*****************************************************************************)
(* The submission pipeline for every set of teams, tasks, pollers and        *)
(* operators, any number of pushes, crashes and failed database calls:       *)
(* types, the turns of the server's tasks, the verdicts on the tests, and    *)
(* what the pipelines write: each row has one writer, "complete" is earned,  *)
(* rows move forward, and the leaderboard's tables are written as its        *)
(* specification assumes. The last part is about the status report, which is *)
(* put together from several reads while pipelines write. Most steps move    *)
(* one run and leave the lock alone (OneRunMoves); what is left are the      *)
(* steps that take or free the lock, and the crash of the server. Every step *)
(* that edits a row is brought to one form (Writes), of which the properties *)
(* of the rows follow.                                                       *)
(*****************************************************************************)
EXTENDS TeamStatus, SequenceTheorems, TLAPS

Run == [pc : Pcs, team : Teams \cup {None}, commit : 0..MaxPushes, row : Nat,
        teamsLeft : SUBSET Teams, scenarios : SUBSET Scenarios]

\* A run inside run_pipeline, or about to enter it, works for a team; it has a row
\* exactly from its insert to its end.
WorksOn(run, known) ==
  /\ run.pc \in PipelineSteps \cup {"waiting", "lookup"} => run.team \in Teams
  /\ run.pc \in PipelineSteps \ {"insert"} => run.row \in known
  /\ run.pc \notin PipelineSteps \ {"insert"} => run.row = 0

Assigned == \A r \in Runners : WorksOn(runs[r], DOMAIN rows)

\* A row whose verdict, if it has one, is what happened in the container, as far
\* as the output of the tests allows to tell.
JudgedRows == {row \in Rows : row.due # "open" => (row.tests = "all" <=> row.due = "all")}

PipelineInv == TypeOK /\ rows \in Seq(JudgedRows) /\ Assigned /\ TasksTakeTurns

-----------------------------------------------------------------------------
(* What the operators of the model do to types and turns.                  *)

\* What a run of the tests printed makes a verdict: the one that is due, unless a
\* crash behind a flush, or lines of the submission's own, leave that open.
LEMMA VerdictOfRun ==
  ASSUME NEW end \in TestEnds, NEW verdict \in Verdicts(end)
  PROVE  /\ verdict \in {"all", "some", "zero"} /\ Due(end) \in {"all", "less", "open"}
         /\ Due(end) # "open" => (verdict = "all" <=> Due(end) = "all")
<1>1. /\ end.passed \in 0..NumTests /\ NumTests \in Nat \ {0}
      /\ end.how \in {"finished", "failed", "crashed", "hung"}
      /\ end.voice \in {"quiet", "noisy", "imitating"}
      /\ end.how = "finished" => end.passed = NumTests
      /\ end.how = "failed" => end.passed < NumTests
  BY TestsAssumption, EndsAssumption, VoicesAssumption DEF TestEnds
<1>2. CASE end.how = "hung"
  BY <1>2 DEF Verdicts, Due
<1>3. CASE end.how # "hung"
  <2>1. PICK output \in TestOutputs(end) : verdict = Verdict(CountTests(output))
    BY <1>3 DEF Verdicts
  <2>2. verdict \in {"all", "some", "zero"} /\ Due(end) \in {"all", "less", "open"}
    BY <2>1 DEF Verdict, Due
  <2>3. CASE end.voice = "imitating"
    BY <1>3, <2>2, <2>3 DEF Due
  <2>4. CASE end.voice # "imitating"
    <3>1. PICK n \in Flushed(end) :
            output = [marks |-> (n + 1) \div 2, passes |-> n \div 2,
                      summary |-> end.how = "finished"]
      BY <2>4 DEF TestOutputs
    <3>2. CASE end.how = "finished"
      <4>1. n = 2 * NumTests
        BY <1>1, <3>1, <3>2 DEF Flushed, Printed
      <4>2. output.marks = NumTests /\ output.passes = NumTests
        BY <1>1, <3>1, <4>1
      <4>3. CountTests(output).passed = NumTests /\ CountTests(output).total = NumTests
        BY <4>2 DEF CountTests
      <4>4. verdict = "all"
        BY <1>1, <2>1, <4>3 DEF Verdict
      <4> QED
        BY <1>1, <2>4, <3>2, <4>4 DEF Due
    <3>3. CASE end.how = "failed"
      <4>1. n = 2 * end.passed + 1
        BY <1>1, <3>1, <3>3 DEF Flushed, Printed
      <4>2. (n + 1) \div 2 = end.passed + 1 /\ n \div 2 = end.passed
        <5> DEFINE p == end.passed
        <5>1. p \in Nat /\ n = 2 * p + 1
          BY <1>1, <4>1
        <5> HIDE DEF p
        <5>2. (n + 1) \div 2 = p + 1 /\ n \div 2 = p
          BY <5>1
        <5> QED
          BY <5>2 DEF p
      <4>3. /\ CountTests(output).passed = end.passed
            /\ CountTests(output).total = end.passed + 1
        BY <1>1, <3>1, <4>2 DEF CountTests
      <4>4. verdict = "some"
        BY <1>1, <2>1, <4>3 DEF Verdict
      <4> QED
        BY <2>4, <3>3, <4>4 DEF Due
    <3>4. CASE end.how = "crashed" /\ end.voice = "quiet"
      <4>1. n = 0
        BY <3>1, <3>4 DEF Flushed
      <4>2. output.marks = 0 /\ output.passes = 0
        BY <3>1, <4>1
      <4>3. CountTests(output).passed = 0 /\ CountTests(output).total = 0
        BY <4>2 DEF CountTests
      <4>4. verdict = "zero"
        BY <2>1, <4>3 DEF Verdict
      <4> QED
        BY <3>4, <4>4 DEF Due
    <3>5. CASE end.how = "crashed" /\ end.voice = "noisy"
      BY <2>2, <3>5 DEF Due
    <3> QED
      BY <1>1, <1>3, <2>4, <3>2, <3>3, <3>4, <3>5
  <2> QED
    BY <2>2, <2>3, <2>4
<1> QED
  BY <1>2, <1>3

\* So does what DockerTest writes.
LEMMA VerdictIsTrue ==
  ASSUME NEW judgement \in Judgements
  PROVE  /\ judgement.verdict \in {"all", "some", "zero"}
         /\ judgement.due \in {"all", "less", "open"}
         /\ judgement.due # "open" => (judgement.verdict = "all" <=> judgement.due = "all")
<1>1. PICK end \in TestEnds : judgement \in [verdict : Verdicts(end), due : {Due(end)}]
  BY DEF Judgements
<1>2. judgement.verdict \in Verdicts(end) /\ judgement.due = Due(end)
  BY <1>1
<1> QED
  BY <1>2, VerdictOfRun

\* JudgedRows adds nothing to a row but its verdict being true.
LEMMA RowsTyped ==
  ASSUME NEW s \in Seq(JudgedRows)
  PROVE  s \in Seq(Rows)
<1>1. JudgedRows \subseteq Rows
  BY DEF JudgedRows
<1> QED
  BY <1>1, SeqMonotonic

\* A step of one run that takes no turn and leaves none.
LEMMA OneRunMoves ==
  ASSUME PipelineInv, NEW r \in Runners, NEW x \in Run,
         runs' = [runs EXCEPT ![r] = x], lock' = lock,
         DOMAIN rows \subseteq DOMAIN rows', WorksOn(x, DOMAIN rows'),
         r \in Tasks => (x.pc \in PipelineSteps <=> runs[r].pc \in PipelineSteps)
  PROVE  runs' \in [Runners -> Run] /\ Assigned' /\ TasksTakeTurns'
<1>1. runs \in [Runners -> Run]
  BY DEF PipelineInv, TypeOK, Run
<1>2. runs' \in [Runners -> Run] /\ \A q \in Runners : runs'[q] = IF q = r THEN x ELSE runs[q]
  BY <1>1
<1>3. Assigned'
  <2> SUFFICES ASSUME NEW q \in Runners
               PROVE  WorksOn(runs'[q], DOMAIN rows')
    BY DEF Assigned, WorksOn
  <2>1. WorksOn(runs[q], DOMAIN rows)
    BY DEF PipelineInv, Assigned
  <2> QED
    BY <1>2, <2>1 DEF WorksOn
<1>4. TasksTakeTurns'
  BY <1>2 DEF PipelineInv, TasksTakeTurns, Runners
<1> QED
  BY <1>2, <1>3, <1>4

\* The row of a run inside run_pipeline is edited.
LEMMA RowEdited ==
  ASSUME PipelineInv, NEW r \in Runners, runs[r].pc \in PipelineSteps \ {"insert"},
         NEW x \in JudgedRows, rows' = [rows EXCEPT ![runs[r].row] = x]
  PROVE  rows' \in Seq(JudgedRows) /\ DOMAIN rows' = DOMAIN rows
<1>1. rows \in Seq(JudgedRows) /\ DOMAIN rows = 1..Len(rows)
  BY LenProperties DEF PipelineInv, TypeOK
<1>2. runs[r].row \in DOMAIN rows
  BY DEF PipelineInv, Assigned, WorksOn
<1> QED
  BY <1>1, <1>2, ExceptSeq, LenProperties

\* The row of a run inside run_pipeline is there.
LEMMA RowTyped ==
  ASSUME PipelineInv, NEW r \in Runners, runs[r].pc \in PipelineSteps \ {"insert"}
  PROVE  rows[runs[r].row] \in JudgedRows
BY ElementOfSeq, LenProperties DEF PipelineInv, TypeOK, Assigned, WorksOn

\* UPDATE submissions SET status: the row stays, the verdict stays true.
LEMMA StatusTyped ==
  ASSUME PipelineInv, NEW r \in Runners, runs[r].pc \in PipelineSteps \ {"insert"},
         NEW status \in Statuses, SetStatus(r, status)
  PROVE  rows' \in Seq(JudgedRows) /\ DOMAIN rows' = DOMAIN rows
<1> DEFINE x == [rows[runs[r].row] EXCEPT !.status = status]
<1>1. x \in JudgedRows
  BY SMTT(40), RowTyped DEF JudgedRows, Rows
<1>2. rows' = [rows EXCEPT ![runs[r].row] = x]
  BY DEF SetStatus
<1> QED
  BY <1>1, <1>2, RowEdited

\* run_pipeline goes on.
LEMMA GoesOn ==
  ASSUME PipelineInv, NEW r \in Runners, NEW pc \in PipelineSteps \ {"insert"},
         runs[r].pc \in PipelineSteps \ {"insert"},
         Goto(r, pc), DOMAIN rows' = DOMAIN rows
  PROVE  runs' \in [Runners -> Run] /\ Assigned' /\ TasksTakeTurns'
<1> DEFINE x == [runs[r] EXCEPT !.pc = pc]
<1>1. runs[r] \in Run
  BY DEF PipelineInv, TypeOK, Run
<1>2. x \in Run /\ x.pc = pc /\ x.team = runs[r].team /\ x.commit = runs[r].commit
        /\ x.row = runs[r].row
  BY <1>1 DEF Run, Pcs
<1>3. runs' = [runs EXCEPT ![r] = x] /\ lock' = lock
  BY DEF Goto
<1>4. WorksOn(x, DOMAIN rows')
  BY <1>2 DEF PipelineInv, Assigned, WorksOn
<1> HIDE DEF x
<1> QED
  BY <1>2, <1>3, <1>4, OneRunMoves

\* run_pipeline returns, or raises: a task frees the lock.
LEMMA Leaves ==
  ASSUME PipelineInv, NEW r \in Runners, NEW raised \in BOOLEAN,
         runs[r].pc \in PipelineSteps, Leave(r, raised), DOMAIN rows' = DOMAIN rows
  PROVE  /\ runs' \in [Runners -> Run] /\ lock' \in Tasks \cup {None}
         /\ Assigned' /\ TasksTakeTurns'
<1> DEFINE x == IF r \notin Pollers \/ raised THEN Ended(r)
                ELSE [Off EXCEPT !.pc = "polling", !.teamsLeft = runs[r].teamsLeft]
<1>1. runs \in [Runners -> Run] /\ lock \in Tasks \cup {None}
  BY DEF PipelineInv, TypeOK, Run
<1>2. x \in Run /\ x.pc \in {"off", "done", "polling"} /\ x.row = 0
  <2>1. runs[r].teamsLeft \in SUBSET Teams
    BY <1>1 DEF Run
  <2>2. CASE r \notin Pollers \/ raised
    <3>1. Ended(r) \in Run /\ Ended(r).pc \in {"off", "done"} /\ Ended(r).row = 0
      BY BoundsAssumption DEF Run, Off, Ended, Pcs
    <3> QED
      BY <2>2, <3>1
  <2>3. CASE ~ (r \notin Pollers \/ raised)
    <3>1. x = [pc |-> "polling", team |-> None, commit |-> 0, row |-> 0,
               teamsLeft |-> runs[r].teamsLeft, scenarios |-> {}]
      BY <2>3 DEF Off
    <3> HIDE DEF x
    <3> QED
      BY <2>1, <3>1, BoundsAssumption DEF Run, Pcs
  <2> QED
    BY <2>2, <2>3
<1>3. runs' = [runs EXCEPT ![r] = x] /\ lock' = IF lock = r THEN None ELSE lock
  BY DEF Leave
<1> HIDE DEF x
<1>4. runs' \in [Runners -> Run] /\ \A q \in Runners : runs'[q] = IF q = r THEN x ELSE runs[q]
  BY <1>1, <1>2, <1>3
<1>5. x.pc \notin PipelineSteps \cup {"waiting", "lookup"}
  BY <1>2 DEF PipelineSteps
<1>6. Assigned'
  BY <1>2, <1>4, <1>5 DEF PipelineInv, Assigned, WorksOn
<1>7. TasksTakeTurns'
  <2> SUFFICES ASSUME NEW task \in Tasks
               PROVE  runs'[task].pc \in PipelineSteps <=> lock' = task
    BY DEF TasksTakeTurns
  <2>1. task \in Runners /\ task # None /\ (runs[task].pc \in PipelineSteps <=> lock = task)
    BY RunnersAssumption DEF PipelineInv, TasksTakeTurns, Runners, None
  <2>2. CASE task = r
    BY <1>3, <1>4, <1>5, <2>1, <2>2
  <2>3. CASE task # r
    BY <1>3, <1>4, <2>1, <2>3
  <2> QED
    BY <2>2, <2>3
<1> QED
  BY <1>1, <1>3, <1>4, <1>6, <1>7

-----------------------------------------------------------------------------
(* run_pipeline.                                                           *)

\* What is left to show of a step of run_pipeline.
LEMMA RunStepDone ==
  ASSUME PipelineInv, Outside, failures' \in 0..MaxFailures,
         runs' \in [Runners -> Run], lock' \in Tasks \cup {None}, rows' \in Seq(JudgedRows),
         Assigned', TasksTakeTurns'
  PROVE  PipelineInv'
<1>1. rows' \in Seq(Rows)
  BY RowsTyped
<1> QED
  BY <1>1 DEF PipelineInv, TypeOK, Outside, Run

\* A new status, and on to the next step.
LEMMA NextStatus ==
  ASSUME PipelineInv, NEW r \in Runners, runs[r].pc \in PipelineSteps \ {"insert"},
         NEW status \in Statuses, NEW pc \in PipelineSteps \ {"insert"},
         SetStatus(r, status), Goto(r, pc), UNCHANGED failures, Outside
  PROVE  PipelineInv'
<1>1. rows' \in Seq(JudgedRows) /\ DOMAIN rows' = DOMAIN rows
  BY StatusTyped
<1>2. runs' \in [Runners -> Run] /\ Assigned' /\ TasksTakeTurns'
  BY <1>1, GoesOn
<1>3. lock' \in Tasks \cup {None} /\ failures' \in 0..MaxFailures
  BY DEF Goto, PipelineInv, TypeOK
<1> QED
  BY <1>1, <1>2, <1>3, RunStepDone

\* A final status, and out.
LEMMA LastStatus ==
  ASSUME PipelineInv, NEW r \in Runners, runs[r].pc \in PipelineSteps \ {"insert"},
         NEW status \in Statuses,
         SetStatus(r, status), Leave(r, FALSE), UNCHANGED failures, Outside
  PROVE  PipelineInv'
<1>1. rows' \in Seq(JudgedRows) /\ DOMAIN rows' = DOMAIN rows
  BY StatusTyped
<1>2. /\ runs' \in [Runners -> Run] /\ lock' \in Tasks \cup {None}
      /\ Assigned' /\ TasksTakeTurns'
  BY <1>1, Leaves
<1>3. failures' \in 0..MaxFailures
  BY DEF PipelineInv, TypeOK
<1> QED
  BY <1>1, <1>2, <1>3, RunStepDone

\* A result, and on to the next step.
LEMMA NextResult ==
  ASSUME PipelineInv, NEW r \in Runners, runs[r].pc \in PipelineSteps \ {"insert"},
         NEW row \in JudgedRows, NEW pc \in PipelineSteps \ {"insert"},
         rows' = [rows EXCEPT ![runs[r].row] = row], Goto(r, pc), UNCHANGED failures, Outside
  PROVE  PipelineInv'
<1>1. rows' \in Seq(JudgedRows) /\ DOMAIN rows' = DOMAIN rows
  BY RowEdited
<1>2. runs' \in [Runners -> Run] /\ Assigned' /\ TasksTakeTurns'
  BY <1>1, GoesOn
<1>3. lock' \in Tasks \cup {None} /\ failures' \in 0..MaxFailures
  BY DEF Goto, PipelineInv, TypeOK
<1> QED
  BY <1>1, <1>2, <1>3, RunStepDone

\* A new row.
LEMMA NewRowTyped ==
  ASSUME NEW t \in Teams, NEW c \in 0..MaxPushes
  PROVE  NewRow(t, c) \in JudgedRows
<1> DEFINE pushed == c \in 1..head[t]
<1>1. pushed \in BOOLEAN
  OBVIOUS
<1>2. NewRow(t, c) = [team |-> t, commit |-> c, pushed |-> pushed, status |-> "queued",
                      tree |-> 0, built |-> "none", tests |-> "none", due |-> "none",
                      report |-> {}, benches |-> {}]
  BY DEF NewRow
<1> HIDE DEF pushed
<1> QED
  BY <1>1, <1>2, BoundsAssumption DEF JudgedRows, Rows, Statuses, TestResults

\* The insert: the run gets a row that nobody has.
LEMMA InsertKeepsInv ==
  ASSUME PipelineInv, NEW r \in Runners, InsertSubmission(r)
  PROVE  PipelineInv'
<1> DEFINE row == NewRow(runs[r].team, runs[r].commit)
           x == [runs[r] EXCEPT !.pc = "building", !.row = Len(rows) + 1]
<1>1. runs[r] \in Run /\ rows \in Seq(JudgedRows) /\ lock \in Tasks \cup {None}
  BY DEF PipelineInv, TypeOK, Run
<1>2. runs[r].pc = "insert" /\ runs[r].team \in Teams /\ runs[r].commit \in 0..MaxPushes
  BY <1>1 DEF PipelineInv, Assigned, WorksOn, InsertSubmission, AtStep, PipelineSteps, Run
<1>3. row \in JudgedRows
  BY <1>2, NewRowTyped
<1>4. rows' = Append(rows, row)
  BY DEF InsertSubmission
<1> HIDE DEF row
<1>5. /\ rows' \in Seq(JudgedRows) /\ Len(rows) \in Nat
      /\ DOMAIN rows \subseteq DOMAIN rows' /\ Len(rows) + 1 \in DOMAIN rows'
  BY <1>1, <1>3, <1>4, AppendProperties, LenProperties
<1>6. /\ x \in Run /\ x.pc = "building" /\ x.row = Len(rows) + 1
      /\ x.team = runs[r].team /\ x.commit = runs[r].commit
  <2> DEFINE y == [runs[r] EXCEPT !.pc = "building"]
  <2>1. /\ y \in Run /\ y.pc = "building"
        /\ y.team = runs[r].team /\ y.commit = runs[r].commit
    BY <1>1 DEF Run, Pcs, PipelineSteps
  <2>2. x = [y EXCEPT !.row = Len(rows) + 1]
    OBVIOUS
  <2> HIDE DEF x, y
  <2> QED
    BY <1>5, <2>1, <2>2 DEF Run
<1>7. runs' = [runs EXCEPT ![r] = x] /\ lock' = lock
  BY DEF InsertSubmission
<1> HIDE DEF x
<1>8. WorksOn(x, DOMAIN rows')
  BY <1>2, <1>5, <1>6 DEF WorksOn, PipelineSteps
<1>9. r \in Tasks => (x.pc \in PipelineSteps <=> runs[r].pc \in PipelineSteps)
  BY <1>2, <1>6 DEF PipelineSteps
<1>10. runs' \in [Runners -> Run] /\ Assigned' /\ TasksTakeTurns'
  BY <1>5, <1>6, <1>7, <1>8, <1>9, OneRunMoves
<1>11. failures' \in 0..MaxFailures /\ lock' \in Tasks \cup {None} /\ Outside
  BY DEF InsertSubmission, PipelineInv, TypeOK
<1> QED
  BY <1>5, <1>10, <1>11, RunStepDone

\* The benchmark, or a write of one of its results: the run gets new scenarios.
LEMMA BenchKeepsInv ==
  ASSUME PipelineInv, NEW r \in Runners,
         \/ \E reported \in SUBSET Scenarios : DockerBench(r, reported)
         \/ \E s \in Scenarios : RecordBench(r, s)
  PROVE  PipelineInv'
<1> DEFINE row == rows[runs[r].row]
<1>1. /\ runs[r] \in Run /\ runs[r].pc \in PipelineSteps \ {"insert"}
      /\ rows \in Seq(JudgedRows) /\ Outside /\ lock' = lock /\ failures' = failures
  <2>1. runs[r] \in Run /\ rows \in Seq(JudgedRows)
    BY DEF PipelineInv, TypeOK, Run
  <2>2. runs[r].pc \in {"bench", "record"} /\ Outside /\ lock' = lock /\ failures' = failures
    BY DEF DockerBench, RecordBench, AtStep
  <2> QED
    BY <2>1, <2>2 DEF PipelineSteps
<1>2. row \in JudgedRows
  BY <1>1, RowTyped
<1> HIDE DEF row
<1>3. rows' \in Seq(JudgedRows) /\ DOMAIN rows' = DOMAIN rows
  <2>1. CASE \E reported \in SUBSET Scenarios : DockerBench(r, reported)
    <3>1. PICK reported \in SUBSET Scenarios : DockerBench(r, reported)
      BY <2>1
    <3>2. [row EXCEPT !.report = reported] \in JudgedRows
      BY <1>2 DEF JudgedRows, Rows
    <3>3. rows' = [rows EXCEPT ![runs[r].row] = [row EXCEPT !.report = reported]]
      BY <3>1 DEF DockerBench, row
    <3> QED
      BY <1>1, <3>2, <3>3, RowEdited
  <2>2. CASE \E s \in Scenarios : RecordBench(r, s)
    <3>1. PICK s \in Scenarios : RecordBench(r, s)
      BY <2>2
    <3>2. [row EXCEPT !.benches = @ \cup {s}] \in JudgedRows
      BY <1>2 DEF JudgedRows, Rows
    <3>3. rows' = [rows EXCEPT ![runs[r].row] = [row EXCEPT !.benches = @ \cup {s}]]
      BY <3>1 DEF RecordBench, row
    <3> QED
      BY <1>1, <3>2, <3>3, RowEdited
  <2> QED
    BY <2>1, <2>2
<1>4. PICK left \in SUBSET Scenarios :
        runs' = [runs EXCEPT ![r] = [runs[r] EXCEPT !.pc = "record", !.scenarios = left]]
  <2>1. CASE \E reported \in SUBSET Scenarios : DockerBench(r, reported)
    <3>1. PICK reported \in SUBSET Scenarios : DockerBench(r, reported)
      BY <2>1
    <3>2. runs' = [runs EXCEPT ![r].pc = "record", ![r].scenarios = reported]
      BY <3>1 DEF DockerBench
    <3> DEFINE y == [runs[r] EXCEPT !.pc = "record"]
               z == [y EXCEPT !.scenarios = reported]
    <3>3. r \in DOMAIN runs /\ runs \in [Runners -> Run]
      BY DEF PipelineInv, TypeOK, Run
    <3>4. [runs EXCEPT ![r] = y][r] = y
      BY <3>3
    <3>5. runs' = [[runs EXCEPT ![r] = y] EXCEPT ![r] = z]
      BY <3>2, <3>4, Zenon
    <3> HIDE DEF y, z
    <3>6. [[runs EXCEPT ![r] = y] EXCEPT ![r] = z] = [runs EXCEPT ![r] = z]
      BY <3>3
    <3>7. runs' = [runs EXCEPT ![r] = z]
      BY <3>5, <3>6
    <3> QED
      BY <3>7, Zenon DEF y, z
  <2>2. CASE \E s \in Scenarios : RecordBench(r, s)
    <3>1. PICK s \in Scenarios : RecordBench(r, s)
      BY <2>2
    <3> DEFINE left == runs[r].scenarios \ {s}
    <3>2. left \in SUBSET Scenarios
      BY <1>1 DEF Run
    <3>3. [runs[r] EXCEPT !.scenarios = left] = [runs[r] EXCEPT !.pc = "record", !.scenarios = left]
      BY <1>1, <3>1 DEF RecordBench, AtStep, Run
    <3>4. runs' = [runs EXCEPT ![r] = [runs[r] EXCEPT !.scenarios = left]]
      BY <3>1 DEF RecordBench
    <3> QED
      BY <3>2, <3>3, <3>4
  <2> QED
    BY <2>1, <2>2
<1> DEFINE x == [runs[r] EXCEPT !.pc = "record", !.scenarios = left]
<1>5. /\ x \in Run /\ x.pc = "record" /\ x.row = runs[r].row
      /\ x.team = runs[r].team /\ x.commit = runs[r].commit
  <2> DEFINE y == [runs[r] EXCEPT !.pc = "record"]
  <2>1. /\ y \in Run /\ y.pc = "record" /\ y.row = runs[r].row
        /\ y.team = runs[r].team /\ y.commit = runs[r].commit
    BY <1>1 DEF Run, Pcs, PipelineSteps
  <2>2. x = [y EXCEPT !.scenarios = left]
    OBVIOUS
  <2> HIDE DEF x, y
  <2> QED
    BY <2>1, <2>2 DEF Run
<1>6. runs' = [runs EXCEPT ![r] = x]
  BY <1>4
<1> HIDE DEF x
<1>7. x.pc \in PipelineSteps \ {"insert"}
  BY <1>5 DEF PipelineSteps
<1>8. WorksOn(x, DOMAIN rows')
  BY <1>1, <1>3, <1>5, <1>7 DEF PipelineInv, Assigned, WorksOn
<1>9. runs' \in [Runners -> Run] /\ Assigned' /\ TasksTakeTurns'
  BY <1>1, <1>3, <1>5, <1>6, <1>7, <1>8, OneRunMoves
<1>10. lock' \in Tasks \cup {None} /\ failures' \in 0..MaxFailures
  BY <1>1 DEF PipelineInv, TypeOK
<1> QED
  BY <1>1, <1>3, <1>9, <1>10, RunStepDone

\* Every step of run_pipeline that no failing database call cuts short.
LEMMA RunStepKeepsInv ==
  ASSUME PipelineInv, NEW r \in Runners, RunStep(r)
  PROVE  PipelineInv'
<1> DEFINE row == rows[runs[r].row]
           Inside == runs[r].pc \in PipelineSteps \ {"insert"}
<1>1. Inside => row \in JudgedRows
  BY RowTyped
<1>2. runs[r] \in Run /\ failures \in 0..MaxFailures /\ rows \in Seq(JudgedRows)
      /\ lock \in Tasks \cup {None} /\ head \in [Teams -> 0..MaxPushes]
  BY DEF PipelineInv, TypeOK, Run
<1>3. CASE InsertSubmission(r)
  BY <1>3, InsertKeepsInv
<1>4. CASE StartBuilding(r)
  BY <1>4, NextStatus DEF StartBuilding, AtStep, PipelineSteps, Statuses
<1>5. CASE CloneRepo(r)
  <2>1. Inside /\ runs[r].team \in Teams
    BY <1>5 DEF CloneRepo, AtStep, PipelineSteps, PipelineInv, Assigned, WorksOn
  <2>2. [row EXCEPT !.tree = head[runs[r].team]] \in JudgedRows
    BY <1>1, <1>2, <2>1 DEF JudgedRows, Rows
  <2> QED
    BY <1>5, <2>1, <2>2, NextResult DEF CloneRepo, Goto, PipelineSteps
<1>6. CASE \E ok \in Builds : DockerBuild(r, ok)
  <2>1. PICK ok \in BOOLEAN : DockerBuild(r, ok)
    BY <1>6, OutcomesAssumption
  <2>2. Inside
    BY <2>1 DEF DockerBuild, AtStep, PipelineSteps
  <2>3. [row EXCEPT !.built = IF ok THEN "ok" ELSE "broken"] \in JudgedRows
    BY <1>1, <2>2 DEF JudgedRows, Rows
  <2>4. (IF ok THEN "testing" ELSE "buildFailed") \in PipelineSteps \ {"insert"}
    BY DEF PipelineSteps
  <2> QED
    BY <2>1, <2>2, <2>3, <2>4, NextResult DEF DockerBuild, InsertBuildResult
<1>7. CASE StartTesting(r)
  BY <1>7, NextStatus DEF StartTesting, AtStep, PipelineSteps, Statuses
<1>8. CASE \E judgement \in Judgements : DockerTest(r, judgement)
  <2>1. PICK judgement \in Judgements : DockerTest(r, judgement)
    BY <1>8
  <2> DEFINE verdict == judgement.verdict
             due == judgement.due
             pc == IF verdict = "some" THEN "testFailed" ELSE "benchmarking"
  <2>2. Inside /\ runs[r].row \in DOMAIN rows
    BY <2>1 DEF DockerTest, AtStep, PipelineSteps, PipelineInv, Assigned, WorksOn
  <2>3. /\ verdict \in {"all", "some", "zero"} /\ due \in {"all", "less", "open"}
        /\ due # "open" => (verdict = "all" <=> due = "all")
    BY VerdictIsTrue
  <2>4. pc \in PipelineSteps \ {"insert"}
    BY DEF PipelineSteps
  <2>5. rows' = [rows EXCEPT ![runs[r].row] = [row EXCEPT !.tests = verdict, !.due = due]]
        /\ Goto(r, pc) /\ UNCHANGED failures /\ Outside
    BY <1>1, <2>1, <2>2 DEF DockerTest, InsertTestResult
  <2> HIDE DEF verdict, due, pc
  <2>6. [row EXCEPT !.tests = verdict, !.due = due] \in JudgedRows
    <3> DEFINE y == [row EXCEPT !.tests = verdict]
               x == [y EXCEPT !.due = due]
    <3>1. y \in Rows /\ y.tests = verdict
      BY <1>1, <2>2, <2>3 DEF JudgedRows, Rows, TestResults
    <3> HIDE DEF y
    <3>2. x \in Rows /\ x.tests = verdict /\ x.due = due
      BY <2>3, <3>1 DEF Rows
    <3> QED
      BY <2>3, <3>2 DEF JudgedRows, y
  <2> QED
    BY <2>2, <2>4, <2>5, <2>6, NextResult
<1>9. CASE StopEarly(r)
  BY <1>9, LastStatus DEF StopEarly, AtStep, PipelineSteps, Statuses
<1>10. CASE StartBenchmark(r)
  BY <1>10, NextStatus DEF StartBenchmark, AtStep, PipelineSteps, Statuses
<1>11. CASE \/ \E reported \in SUBSET Scenarios : DockerBench(r, reported)
            \/ \E s \in Scenarios : RecordBench(r, s)
  BY <1>11, BenchKeepsInv
<1>12. CASE Complete(r)
  BY <1>12, LastStatus DEF Complete, AtStep, PipelineSteps, Statuses
<1>13. CASE CommandRaises(r)
  <2>1. Inside /\ DOMAIN rows' = DOMAIN rows /\ Goto(r, "except")
    BY <1>13, OutcomesAssumption DEF CommandRaises, AtStep, PipelineSteps
  <2>2. runs' \in [Runners -> Run] /\ Assigned' /\ TasksTakeTurns'
    BY <2>1, GoesOn DEF PipelineSteps
  <2> QED
    BY <1>2, <1>13, <2>2, RunStepDone DEF CommandRaises, Goto
<1>14. CASE MarkFailed(r)
  BY <1>14, LastStatus DEF MarkFailed, AtStep, PipelineSteps, Statuses
<1> QED
  BY <1>3, <1>4, <1>5, <1>6, <1>7, <1>8, <1>9, <1>10, <1>11, <1>12, <1>13, <1>14
     DEF RunStep

-----------------------------------------------------------------------------
(* The steps around run_pipeline, and the failures that leave it.            *)

\* A run that is off works on nothing.
LEMMA OffTyped == Off \in Run /\ WorksOn(Off, DOMAIN rows) /\ Off.pc \notin PipelineSteps
BY BoundsAssumption DEF Off, Run, Pcs, PipelineSteps, WorksOn

\* A run that starts on a commit.
Started(pc, team, commit) == [Off EXCEPT !.pc = pc, !.team = team, !.commit = commit]

\* It has no row yet.
LEMMA StartedTyped ==
  ASSUME NEW pc \in Pcs, NEW team \in Teams, NEW commit \in 0..MaxPushes
  PROVE  /\ Started(pc, team, commit) \in Run
         /\ Started(pc, team, commit).pc = pc
         /\ Started(pc, team, commit).team = team
         /\ Started(pc, team, commit).commit = commit
         /\ Started(pc, team, commit).row = 0
<1> DEFINE y == [Off EXCEPT !.pc = pc]
           z == [y EXCEPT !.team = team]
<1>1. y \in Run /\ y.pc = pc /\ y.row = 0
  BY OffTyped DEF Run, Off
<1>2. Started(pc, team, commit) = [z EXCEPT !.commit = commit]
  BY DEF Started
<1> HIDE DEF y
<1>3. z \in Run /\ z.pc = pc /\ z.row = 0 /\ z.team = team
  BY <1>1 DEF Run
<1> HIDE DEF z
<1> QED
  BY <1>2, <1>3 DEF Run

\* A step of one run outside run_pipeline that edits no row.
LEMMA OtherStepDone ==
  ASSUME PipelineInv, NEW r \in Runners, NEW x \in Run,
         runs' = [runs EXCEPT ![r] = x], UNCHANGED <<head, lock, rows>>,
         WorksOn(x, DOMAIN rows),
         r \in Tasks => (x.pc \in PipelineSteps <=> runs[r].pc \in PipelineSteps),
         hooks' \subseteq hooks, limited' \subseteq Teams,
         failures' \in 0..MaxFailures
  PROVE  PipelineInv'
<1>1. runs' \in [Runners -> Run] /\ Assigned' /\ TasksTakeTurns'
  BY OneRunMoves
<1>2. TypeOK'
  BY <1>1 DEF PipelineInv, TypeOK, Run
<1> QED
  BY <1>1, <1>2 DEF PipelineInv

\* GitHub, the rate limit and refused requests touch no run.
LEMMA WebhookKeepsInv ==
  ASSUME PipelineInv,
         \/ \E t \in Teams : Push(t) \/ WindowPasses(t)
         \/ \E h \in hooks : LoseHook(h)
         \/ \E q \in hooks \cup Strays : RefuseHook(q)
  PROVE  PipelineInv'
<1>1. UNCHANGED <<runs, lock, rows, failures>>
  BY DEF Push, WindowPasses, LoseHook, RefuseHook
<1>2. Assigned' /\ TasksTakeTurns'
  BY <1>1 DEF PipelineInv, Assigned, WorksOn, TasksTakeTurns
<1>3. head' \in [Teams -> 0..MaxPushes] /\ limited' \subseteq Teams
  BY BoundsAssumption DEF PipelineInv, TypeOK, Push, WindowPasses, LoseHook, RefuseHook
<1>4. hooks' \subseteq {Delivery(t, c) : t \in Teams, c \in Commits}
  <2>1. hooks \subseteq {Delivery(t, c) : t \in Teams, c \in Commits}
    BY DEF PipelineInv, TypeOK
  <2>2. CASE \E t \in Teams : Push(t)
    <3>1. PICK t \in Teams : Push(t)
      BY <2>2
    <3>2. head[t] + 1 \in Commits
      BY <3>1, BoundsAssumption DEF Push, Commits, PipelineInv, TypeOK
    <3>3. hooks' = hooks \cup {Delivery(t, head[t] + 1)}
      BY <3>1 DEF Push
    <3> QED
      BY <2>1, <3>2, <3>3
  <2>3. CASE ~ \E t \in Teams : Push(t)
    <3>1. hooks' \subseteq hooks
      BY <2>3 DEF WindowPasses, LoseHook, RefuseHook
    <3> QED
      BY <2>1, <3>1
  <2> QED
    BY <2>2, <2>3
<1> QED
  BY <1>1, <1>2, <1>3, <1>4 DEF PipelineInv, TypeOK

\* An accepted request names a team and a commit: the task waits for its turn.
LEMMA AcceptKeepsInv ==
  ASSUME PipelineInv, NEW q \in hooks \cup Strays, NEW task \in Tasks, AcceptHook(q, task)
  PROVE  PipelineInv'
<1> DEFINE x == Started("waiting", q.branch, q.commit)
<1>1. q.branch \in Teams /\ q.commit \in Commits
  <2>1. q.branch \in Teams /\ q.commit # 0
    BY DEF AcceptHook, IsTeamPush
  <2>2. CASE q \in hooks
    BY <2>2 DEF PipelineInv, TypeOK, Delivery
  <2>3. CASE q \in Strays
    <3>1. 1 \in Commits
      BY BoundsAssumption DEF Commits
    <3>2. q.commit \in {0, 1}
      <4>1. PICK t \in Teams :
              q \in {[Delivery(t, 1) EXCEPT !.event = "ping"],
                     [Delivery(t, 1) EXCEPT !.branch = "main"],
                     [Delivery(t, 1) EXCEPT !.branch = "stranger"], Delivery(t, 0),
                     [Delivery(t, 1) EXCEPT !.signed = FALSE]}
        BY <2>3 DEF Strays
      <4>2. Delivery(t, 1).commit = 1 /\ Delivery(t, 0).commit = 0
        BY DEF Delivery
      <4>3. /\ [Delivery(t, 1) EXCEPT !.event = "ping"].commit = 1
            /\ [Delivery(t, 1) EXCEPT !.branch = "main"].commit = 1
            /\ [Delivery(t, 1) EXCEPT !.branch = "stranger"].commit = 1
            /\ [Delivery(t, 1) EXCEPT !.signed = FALSE].commit = 1
        BY DEF Delivery
      <4> QED
        BY <4>1, <4>2, <4>3
    <3> QED
      BY <2>1, <3>1, <3>2
  <2> QED
    BY <2>2, <2>3, <2>1
<1>2. /\ x \in Run /\ x.pc = "waiting" /\ x.team = q.branch /\ x.commit = q.commit
      /\ x.row = 0
  <2>1. "waiting" \in Pcs /\ q.commit \in 0..MaxPushes
    BY <1>1, BoundsAssumption DEF Pcs, Commits
  <2> QED
    BY <1>1, <2>1, StartedTyped
<1>3. runs' = [runs EXCEPT ![task] = x]
  BY DEF AcceptHook, Started
<1> HIDE DEF x
<1>4. WorksOn(x, DOMAIN rows)
  BY <1>1, <1>2 DEF WorksOn, PipelineSteps
<1>5. x.pc \notin PipelineSteps /\ runs[task].pc \notin PipelineSteps
  BY <1>2 DEF AcceptHook, PipelineSteps
<1>6. /\ UNCHANGED <<head, lock, rows, failures>> /\ hooks' \subseteq hooks
      /\ limited' \subseteq Teams /\ failures \in 0..MaxFailures
  BY <1>1 DEF AcceptHook, PipelineInv, TypeOK
<1> QED
  BY <1>2, <1>3, <1>4, <1>5, <1>6, OtherStepDone DEF Runners

\* The lock is free, so no task is inside run_pipeline but the one that takes it.
LEMMA TakeLockKeepsInv ==
  ASSUME PipelineInv, NEW task \in Tasks, TakeLock(task)
  PROVE  PipelineInv'
<1> DEFINE x == [runs[task] EXCEPT !.pc = "insert"]
<1>1. /\ task \in Runners /\ runs \in [Runners -> Run] /\ runs[task] \in Run
      /\ runs[task].pc = "waiting" /\ lock = None /\ lock' = task
      /\ UNCHANGED <<head, hooks, limited, rows, failures>>
  BY DEF TakeLock, PipelineInv, TypeOK, Runners, Run
<1>2. runs' = [runs EXCEPT ![task] = x]
  BY DEF TakeLock
<1>3. /\ x \in Run /\ x.pc = "insert" /\ x.team = runs[task].team
      /\ x.commit = runs[task].commit /\ x.row = runs[task].row
  BY <1>1 DEF Run, Pcs, PipelineSteps
<1> HIDE DEF x
<1>4. runs' \in [Runners -> Run] /\ \A q \in Runners : runs'[q] = IF q = task THEN x ELSE runs[q]
  BY <1>1, <1>2, <1>3
<1>5. Assigned'
  <2>1. WorksOn(x, DOMAIN rows)
    BY <1>1, <1>3 DEF PipelineInv, Assigned, WorksOn, PipelineSteps
  <2> QED
    BY <1>1, <1>4, <2>1 DEF PipelineInv, Assigned, WorksOn
<1>6. TasksTakeTurns'
  <2> SUFFICES ASSUME NEW other \in Tasks
               PROVE  runs'[other].pc \in PipelineSteps <=> lock' = other
    BY DEF TasksTakeTurns
  <2>1. other \in Runners /\ other # None /\ (runs[other].pc \in PipelineSteps <=> lock = other)
    BY RunnersAssumption DEF PipelineInv, TasksTakeTurns, Runners, None
  <2>2. x.pc \in PipelineSteps
    BY <1>3 DEF PipelineSteps
  <2> QED
    BY <1>1, <1>4, <2>1, <2>2
<1>7. TypeOK'
  BY <1>1, <1>4 DEF PipelineInv, TypeOK, Run
<1> QED
  BY <1>1, <1>5, <1>6, <1>7 DEF PipelineInv

\* The poller enters run_pipeline for the head of a branch, without the lock.
LEMMA PollerKeepsInv ==
  ASSUME PipelineInv, NEW p \in Pollers, StartPoll(p) \/ PollStep(p) \/ LookupFails(p)
  PROVE  PipelineInv'
<1>1. /\ p \in Runners /\ p \notin Tasks /\ runs \in [Runners -> Run] /\ runs[p] \in Run
      /\ WorksOn(runs[p], DOMAIN rows) /\ limited \subseteq Teams
      /\ failures \in 0..MaxFailures
      /\ head \in [Teams -> 0..MaxPushes]
  BY RunnersAssumption DEF PipelineInv, TypeOK, Assigned, Runners, Processes, Run
<1>2. UNCHANGED <<head, hooks, limited, lock, rows>> /\ failures' \in 0..MaxFailures
  <2>1. CASE StartPoll(p) \/ PollStep(p)
    BY <1>1, <2>1 DEF StartPoll, PollStep, LsRemote, Lookup, EndPoll
  <2>2. CASE LookupFails(p)
    BY <1>1, <2>2, BoundsAssumption DEF LookupFails
  <2> QED
    BY <2>1, <2>2
<1>3. \E x \in Run : runs' = [runs EXCEPT ![p] = x] /\ WorksOn(x, DOMAIN rows)
  <2>1. CASE StartPoll(p)
    <3> DEFINE y == [Off EXCEPT !.pc = "polling"]
               x == [y EXCEPT !.teamsLeft = Teams]
    <3>1. runs' = [runs EXCEPT ![p] = x]
      BY <2>1 DEF StartPoll
    <3>2. y \in Run /\ y.pc = "polling" /\ y.row = 0
      BY OffTyped DEF Run, Pcs, Off
    <3> HIDE DEF y
    <3>3. x \in Run /\ x.pc = "polling" /\ x.row = 0
      BY <3>2 DEF Run
    <3> HIDE DEF x
    <3>4. WorksOn(x, DOMAIN rows)
      BY <3>3 DEF WorksOn, PipelineSteps
    <3> QED
      BY <3>1, <3>3, <3>4
  <2>2. CASE \E t \in Teams : LsRemote(p, t)
    <3>1. PICK t \in Teams : LsRemote(p, t)
      BY <2>2
    <3> DEFINE pc == IF head[t] = 0 THEN "polling" ELSE "lookup"
               y == [runs[p] EXCEPT !.teamsLeft = runs[p].teamsLeft \ {t}, !.team = t]
               x == [y EXCEPT !.commit = head[t], !.pc = pc]
    <3>2. y \in Run /\ y.team = t /\ y.row = runs[p].row
      <4>1. [runs[p] EXCEPT !.teamsLeft = runs[p].teamsLeft \ {t}] \in Run
        BY <1>1 DEF Run
      <4> QED
        BY <1>1, <4>1 DEF Run
    <3>3. runs' = [runs EXCEPT ![p] = x]
      BY <3>1 DEF LsRemote
    <3> HIDE DEF y
    <3>4. /\ x \in Run /\ x.pc = pc /\ x.team = t /\ x.commit = head[t]
          /\ x.row = runs[p].row
      <4>1. head[t] \in 0..MaxPushes /\ pc \in Pcs
        BY <1>1 DEF Pcs
      <4> HIDE DEF pc
      <4> QED
        BY <3>2, <4>1 DEF Run
    <3>5. WorksOn(x, DOMAIN rows)
      <4>1. runs[p].row = 0
        BY <1>1, <3>1 DEF LsRemote, WorksOn, PipelineSteps
      <4> HIDE DEF x
      <4> QED
        BY <3>4, <4>1 DEF WorksOn, PipelineSteps
    <3> QED
      BY <3>3, <3>4, <3>5
  <2>3. CASE Lookup(p) \/ LookupFails(p)
    <3>1. PICK pc \in {"polling", "insert"} : runs' = [runs EXCEPT ![p].pc = pc]
      BY <2>3 DEF Lookup, LookupFails
    <3> DEFINE x == [runs[p] EXCEPT !.pc = pc]
    <3>2. /\ x \in Run /\ x.pc = pc /\ x.team = runs[p].team
          /\ x.commit = runs[p].commit /\ x.row = runs[p].row
      BY <1>1 DEF Run, Pcs, PipelineSteps
    <3>3. runs' = [runs EXCEPT ![p] = x]
      BY <3>1
    <3> HIDE DEF x
    <3>4. WorksOn(x, DOMAIN rows)
      BY <1>1, <2>3, <3>2 DEF Lookup, LookupFails, WorksOn, PipelineSteps
    <3> QED
      BY <3>2, <3>3, <3>4
  <2>4. CASE EndPoll(p)
    BY <2>4, OffTyped DEF EndPoll
  <2> QED
    BY <2>1, <2>2, <2>3, <2>4 DEF PollStep
<1> QED
  BY <1>1, <1>2, <1>3, OtherStepDone

\* So does an operator.
LEMMA OperatorKeepsInv ==
  ASSUME PipelineInv, NEW o \in Operators, NEW t \in Teams, NEW c \in 0..MaxPushes, RunManually(o, t, c)
  PROVE  PipelineInv'
<1> DEFINE x == Started("insert", t, c)
<1>1. /\ o \in Runners /\ o \notin Tasks /\ limited \subseteq Teams
      /\ failures \in 0..MaxFailures
  BY RunnersAssumption DEF PipelineInv, TypeOK, Runners, Processes
<1>2. x \in Run /\ x.pc = "insert" /\ x.team = t /\ x.row = 0
  <2>1. "insert" \in Pcs
    BY DEF Pcs, PipelineSteps
  <2> QED
    BY <2>1, StartedTyped
<1>3. runs' = [runs EXCEPT ![o] = x]
  BY DEF RunManually, Started
<1> HIDE DEF x
<1>4. WorksOn(x, DOMAIN rows)
  BY <1>2 DEF WorksOn, PipelineSteps
<1> QED
  BY <1>1, <1>2, <1>3, <1>4, OtherStepDone DEF RunManually

\* A process that is killed leaves its row as it is.
LEMMA ProcessCrashKeepsInv ==
  ASSUME PipelineInv, NEW p \in Processes, CrashProcess(p)
  PROVE  PipelineInv'
<1>1. /\ p \in Runners /\ p \notin Tasks /\ limited \subseteq Teams
      /\ failures' \in 0..MaxFailures
  BY RunnersAssumption, BoundsAssumption
     DEF PipelineInv, TypeOK, Runners, Processes, CrashProcess
<1>2. Ended(p) \in Run /\ WorksOn(Ended(p), DOMAIN rows)
  BY BoundsAssumption DEF Ended, Off, Run, Pcs, PipelineSteps, WorksOn
<1> QED
  BY <1>1, <1>2, OtherStepDone DEF CrashProcess

\* A crash of the server ends every task, and _pipeline_lock with them.
LEMMA ServerCrashKeepsInv ==
  ASSUME PipelineInv, CrashServer
  PROVE  PipelineInv'
<1>1. Off \in Run /\ WorksOn(Off, DOMAIN rows) /\ Off.pc \notin PipelineSteps
  BY OffTyped
<1>2. runs \in [Runners -> Run] /\ UNCHANGED <<head, hooks, rows>>
  BY DEF CrashServer, PipelineInv, TypeOK, Run
<1>3. /\ runs' \in [Runners -> Run]
      /\ \A r \in Runners : runs'[r] = IF r \in Tasks THEN Off ELSE runs[r]
  BY <1>1, <1>2 DEF CrashServer
<1>4. Assigned'
  BY <1>1, <1>2, <1>3 DEF PipelineInv, Assigned, WorksOn
<1>5. TasksTakeTurns'
  BY <1>1, <1>3, RunnersAssumption DEF CrashServer, TasksTakeTurns, Runners, None
<1>6. TypeOK'
  BY <1>2, <1>3, BoundsAssumption DEF CrashServer, PipelineInv, TypeOK, Run
<1> QED
  BY <1>2, <1>4, <1>5, <1>6 DEF PipelineInv

\* A failing database call goes to an except clause, or out of run_pipeline.
LEMMA FailedWriteKeepsInv ==
  ASSUME PipelineInv, NEW r \in Runners, WriteFails(r) \/ WriteFailsOutside(r)
  PROVE  PipelineInv'
<1>1. /\ failures' \in 0..MaxFailures /\ rows' = rows /\ Outside
      /\ rows \in Seq(JudgedRows) /\ lock \in Tasks \cup {None}
  <2>1. failures \in 0..MaxFailures /\ rows \in Seq(JudgedRows) /\ lock \in Tasks \cup {None}
    BY DEF PipelineInv, TypeOK
  <2>2. failures < MaxFailures /\ failures' = failures + 1 /\ rows' = rows /\ Outside
    BY DEF WriteFails, WriteFailsOutside
  <2> QED
    BY <2>1, <2>2, BoundsAssumption
<1>2. runs[r].pc \in PipelineSteps
  BY DEF WriteFails, WriteFailsOutside, PipelineSteps
<1>3. CASE WriteFails(r)
  <2>1. runs[r].pc \in PipelineSteps \ {"insert"} /\ Goto(r, "except") /\ lock' = lock
    BY <1>3 DEF WriteFails, Goto
  <2>2. "except" \in PipelineSteps \ {"insert"}
    BY DEF PipelineSteps
  <2>3. runs' \in [Runners -> Run] /\ Assigned' /\ TasksTakeTurns'
    BY <1>1, <2>1, <2>2, GoesOn
  <2> QED
    BY <1>1, <2>1, <2>3, RunStepDone
<1>4. CASE WriteFailsOutside(r)
  <2>1. Leave(r, TRUE)
    BY <1>4 DEF WriteFailsOutside
  <2>2. /\ runs' \in [Runners -> Run] /\ lock' \in Tasks \cup {None}
        /\ Assigned' /\ TasksTakeTurns'
    BY <1>1, <1>2, <2>1, Leaves
  <2> QED
    BY <1>1, <2>2, RunStepDone
<1> QED
  BY <1>3, <1>4

-----------------------------------------------------------------------------
\* At the start nobody runs.
LEMMA InitHasInv == Init => PipelineInv
<1> SUFFICES ASSUME Init
             PROVE  PipelineInv
  OBVIOUS
<1>1. Off \in Run /\ WorksOn(Off, DOMAIN rows) /\ Off.pc \notin PipelineSteps
  BY OffTyped
<1>2. rows \in Seq(JudgedRows)
  BY EmptySeq DEF Init
<1>3. TypeOK
  BY <1>1, <1>2, RowsTyped, BoundsAssumption DEF Init, TypeOK, Run
<1>4. Assigned
  BY <1>1 DEF Init, Assigned
<1>5. TasksTakeTurns
  BY <1>1, RunnersAssumption DEF Init, TasksTakeTurns, Runners, None
<1> QED
  BY <1>2, <1>3, <1>4, <1>5 DEF PipelineInv

\* One case per actor.
LEMMA StepKeepsInv == PipelineInv /\ [Next]_vars => PipelineInv'
<1> SUFFICES ASSUME PipelineInv, [Next]_vars
             PROVE  PipelineInv'
  OBVIOUS
<1>1. CASE UNCHANGED vars
  BY <1>1 DEF vars, PipelineInv, TypeOK, Assigned, WorksOn, TasksTakeTurns
<1>2. CASE \/ \E t \in Teams : Push(t) \/ WindowPasses(t)
           \/ \E h \in hooks : LoseHook(h)
           \/ \E q \in hooks \cup Strays : RefuseHook(q)
  BY <1>2, WebhookKeepsInv
<1>3. CASE \E q \in hooks \cup Strays : \E task \in Tasks : AcceptHook(q, task)
  BY <1>3, AcceptKeepsInv
<1>4. CASE \E task \in Tasks : TakeLock(task)
  BY <1>4, TakeLockKeepsInv
<1>5. CASE \E p \in Pollers : StartPoll(p) \/ PollStep(p) \/ LookupFails(p)
  BY <1>5, PollerKeepsInv
<1>6. CASE \E o \in Operators, t \in Teams, c \in 0..MaxPushes : RunManually(o, t, c)
  BY <1>6, OperatorKeepsInv
<1>7. CASE \E p \in Processes : CrashProcess(p)
  BY <1>7, ProcessCrashKeepsInv
<1>8. CASE \E r \in Runners : RunStep(r) \/ WriteFails(r) \/ WriteFailsOutside(r)
  BY <1>8, RunStepKeepsInv, FailedWriteKeepsInv
<1>9. CASE CrashServer
  BY <1>9, ServerCrashKeepsInv
<1> QED
  BY <1>1, <1>2, <1>3, <1>4, <1>5, <1>6, <1>7, <1>8, <1>9 DEF Next

\* The inductive invariant.
LEMMA PipelineInvHolds == Spec => []PipelineInv
BY InitHasInv, StepKeepsInv, PTL DEF Spec

\* The variables of the pipeline keep their types: every row has a team, a commit
\* and a status, whichever of the three ways it came in.
THEOREM PipelineTypes == Spec => []TypeOK
<1>1. PipelineInv => TypeOK
  BY DEF PipelineInv
<1> QED
  BY <1>1, PipelineInvHolds, PTL

\* However many pushes wait, crash or fail at a write, the server is inside one
\* run_pipeline at most, and _pipeline_lock is held exactly by that task: no way
\* out of run_pipeline keeps it.
THEOREM TurnsAreTaken == Spec => []TasksTakeTurns
<1>1. PipelineInv => TasksTakeTurns
  BY DEF PipelineInv
<1> QED
  BY <1>1, PipelineInvHolds, PTL

\* For any number of tests: wherever the output allows to tell, a row counts as
\* having passed its tests exactly if all of them passed in the container.  Left
\* out are a crash behind a flush of the submission's, and a submission that prints
\* lines of the harness.
THEOREM VerdictsHold == Spec => []VerdictsAreTrue
<1>1. PipelineInv => VerdictsAreTrue
  <2> SUFFICES ASSUME PipelineInv, NEW k \in DOMAIN rows
               PROVE  rows[k].due # "open" => (rows[k].tests = "all" <=> rows[k].due = "all")
    BY DEF VerdictsAreTrue
  <2>1. rows[k] \in JudgedRows
    BY ElementOfSeq, LenProperties DEF PipelineInv
  <2> QED
    BY <2>1 DEF JudgedRows
<1> QED
  BY <1>1, PipelineInvHolds, PTL

-----------------------------------------------------------------------------
(* The rows.                                                                 *)

\* What the row of a run says while the run is at each of its steps.
RowAt(run, row) ==
  /\ row.team = run.team /\ row.commit = run.commit /\ row.status \notin Terminal
  /\ run.pc = "building" => row.status = "queued"
  /\ run.pc \in {"clone", "build", "buildFailed", "testing"} => row.status = "building"
  /\ run.pc \in {"test", "testFailed", "benchmarking"} => row.status = "testing"
  /\ run.pc \in {"bench", "record"} => row.status = "benchmarking"
  /\ run.pc \in {"building", "clone", "build"} => row.built = "none"
  /\ run.pc \in {"testing", "test", "testFailed", "benchmarking", "bench", "record"} => row.built = "ok"
  /\ run.pc \in {"building", "clone", "build", "buildFailed", "testing", "test"} => row.tests = "none"
  /\ run.pc \in {"benchmarking", "bench", "record"} => row.tests \in {"all", "zero"}
  /\ run.pc \notin {"record", "except"} => row.benches = {}
  /\ run.pc = "build" => row.tree # 0
  /\ run.pc = "record" => run.scenarios \subseteq row.report /\ row.benches = row.report \ run.scenarios

\* What every row says, that of a run that crashed or failed included: a result
\* is there only if those before it are, and a status only if they are.
RowOk(row) ==
  /\ row.status \in {"testing", "benchmarking", "complete"} => row.built = "ok"
  /\ row.status \in {"benchmarking", "complete"} => row.tests \in {"all", "zero"}
  /\ row.status = "complete" => row.benches = row.report
  /\ row.built # "none" => row.status # "queued" /\ row.tree # 0
  /\ row.tests # "none" => row.built = "ok" /\ row.status \notin {"queued", "building"}
  /\ row.benches # {} => row.tests \in {"all", "zero"}
                           /\ row.status \notin {"queued", "building", "testing"}

OneWriter == \A r, q \in Runners : r # q /\ runs[r].row # 0 => runs[r].row # runs[q].row

RowsInv ==
  /\ PipelineInv
  /\ \A k \in DOMAIN rows : RowOk(rows[k])
  /\ \A r \in Runners : runs[r].row # 0 => RowAt(runs[r], rows[runs[r].row])
  /\ OneWriter

-----------------------------------------------------------------------------
(* The form of the steps.                                                  *)

\* The leaderboard's view of one row.
Seen(row) ==
  [team |-> row.team,
   status |-> IF row.status \in Terminal THEN row.status ELSE "running",
   tests |-> row.tests,
   benches |-> [s \in row.benches |-> Figures]]

\* How an edit of a row changes that view: not at all, by a verdict, by the
\* figures of a scenario, or by a final status.
SeenEdit(old, new) ==
  \/ Seen(new) = Seen(old)
  \/ /\ old.tests = "none"
     /\ \E outcome \in {"all", "some", "zero"} : Seen(new) = [Seen(old) EXCEPT !.tests = outcome]
  \/ /\ old.tests \in {"all", "zero"}
     /\ \E s \in Scenarios \ old.benches : 
          Seen(new) = [Seen(old) EXCEPT !.benches = [t \in old.benches \cup {s} |-> Figures]]
  \/ old.tests \in {"all", "zero"} /\ Seen(new) = [Seen(old) EXCEPT !.status = "complete"]
  \/ Seen(new) = [Seen(old) EXCEPT !.status = "failed"]

\* A row moves forward, and the results it has stay.
Advances(old, new) ==
  /\ new.team = old.team /\ new.commit = old.commit /\ new.pushed = old.pushed
  /\ old.status \notin Terminal
  /\ Order(old.status) <= Order(new.status)
  /\ old.built # "none" => new.built = old.built
  /\ old.tests # "none" => new.tests = old.tests
  /\ old.benches \subseteq new.benches

\* A step of run_pipeline after its insert: run r goes on as x, its row becomes
\* row, and what was checked out for it, if anything, is the head of its branch.
Writes(r, x, row) ==
  /\ runs' = [runs EXCEPT ![r] = x]
  /\ rows' = [rows EXCEPT ![runs[r].row] = row]
  /\ head' = head /\ hooks' = hooks
  /\ x.row \in {0, runs[r].row}
  /\ x.row = 0 => x.pc \notin PipelineSteps \cup {"waiting", "lookup"}
  /\ x.row # 0 => RowAt(x, row)
  /\ RowOk(row)
  /\ Advances(rows[runs[r].row], row)
  /\ SeenEdit(rows[runs[r].row], row)
  /\ row.tree \in {rows[runs[r].row].tree, head[runs[r].team]}

-----------------------------------------------------------------------------
(* Every step of run_pipeline but its insert has that form.                *)

\* The order of the statuses.
LEMMA OrderValues ==
  /\ Order("queued") = 0 /\ Order("building") = 1 /\ Order("testing") = 2
  /\ Order("benchmarking") = 3 /\ Order("complete") = 4 /\ Order("failed") = 4
BY DEF Order, Terminal

\* A run inside run_pipeline and its row.
LEMMA AtWork ==
  ASSUME RowsInv, NEW r \in Runners, runs[r].pc \in PipelineSteps \ {"insert"}
  PROVE  /\ runs[r] \in Run /\ runs[r].row # 0 /\ runs[r].row \in DOMAIN rows
         /\ rows[runs[r].row] \in Rows
         /\ RowAt(runs[r], rows[runs[r].row]) /\ RowOk(rows[runs[r].row])
<1>1. runs[r] \in Run /\ runs[r].row \in DOMAIN rows /\ rows \in Seq(Rows)
  BY DEF RowsInv, PipelineInv, TypeOK, Run, Assigned, WorksOn
<1>2. runs[r].row # 0 /\ rows[runs[r].row] \in Rows
  BY <1>1, ElementOfSeq, LenProperties
<1> QED
  BY <1>1, <1>2 DEF RowsInv

\* run_pipeline goes on, with the row edited.
LEMMA WritesOn ==
  ASSUME RowsInv, NEW r \in Runners, runs[r].pc \in PipelineSteps \ {"insert"},
         NEW pc \in PipelineSteps, Goto(r, pc), Outside,
         NEW row, rows' = [rows EXCEPT ![runs[r].row] = row],
         RowAt([runs[r] EXCEPT !.pc = pc], row), RowOk(row),
         Advances(rows[runs[r].row], row), SeenEdit(rows[runs[r].row], row),
         row.tree \in {rows[runs[r].row].tree, head[runs[r].team]}
  PROVE  \E x, new : Writes(r, x, new)
<1> DEFINE x == [runs[r] EXCEPT !.pc = pc]
<1>1. x.row = runs[r].row /\ x.row # 0
  BY AtWork DEF Run
<1>2. runs' = [runs EXCEPT ![r] = x]
  BY DEF Goto
<1>3. head' = head /\ hooks' = hooks
  BY DEF Outside
<1>4. RowAt(x, row)
  OBVIOUS
<1> HIDE DEF x
<1>5. Writes(r, x, row)
  BY <1>1, <1>2, <1>3, <1>4 DEF Writes
<1> QED
  BY <1>5

\* run_pipeline ends, with the row edited.
LEMMA WritesLast ==
  ASSUME RowsInv, NEW r \in Runners, NEW raised \in BOOLEAN, Leave(r, raised), Outside,
         NEW row, rows' = [rows EXCEPT ![runs[r].row] = row], RowOk(row),
         Advances(rows[runs[r].row], row), SeenEdit(rows[runs[r].row], row),
         row.tree = rows[runs[r].row].tree
  PROVE  \E x, new : Writes(r, x, new)
<1> DEFINE x == IF r \notin Pollers \/ raised THEN Ended(r)
                ELSE [Off EXCEPT !.pc = "polling", !.teamsLeft = runs[r].teamsLeft]
<1>1. x.row = 0 /\ x.pc \notin PipelineSteps \cup {"waiting", "lookup"}
  <2>1. CASE r \notin Pollers \/ raised
    BY <2>1 DEF Ended, Off, PipelineSteps
  <2>2. CASE ~ (r \notin Pollers \/ raised)
    <3>1. x = [pc |-> "polling", team |-> None, commit |-> 0, row |-> 0,
               teamsLeft |-> runs[r].teamsLeft, scenarios |-> {}]
      BY <2>2 DEF Off
    <3> HIDE DEF x
    <3> QED
      BY <3>1 DEF PipelineSteps
  <2> QED
    BY <2>1, <2>2
<1>2. runs' = [runs EXCEPT ![r] = x]
  BY DEF Leave
<1>3. head' = head /\ hooks' = hooks
  BY DEF Outside
<1> HIDE DEF x
<1>4. Writes(r, x, row)
  BY <1>1, <1>2, <1>3 DEF Writes
<1> QED
  BY <1>4

\* A row with a new status.
LEMMA NewStatus ==
  ASSUME NEW old \in Rows, NEW status \in Statuses
  PROVE  LET new == [old EXCEPT !.status = status]
         IN  /\ new.status = status /\ new.team = old.team /\ new.commit = old.commit
             /\ new.built = old.built /\ new.tests = old.tests /\ new.benches = old.benches
             /\ new.tree = old.tree /\ new.report = old.report /\ new.pushed = old.pushed
BY DEF Rows

\* The next of the statuses on the way.
LEMMA StatusWrites ==
  ASSUME RowsInv, NEW r \in Runners, NEW pc, NEW status,
         \/ runs[r].pc = "building" /\ status = "building" /\ pc = "clone"
         \/ runs[r].pc = "testing" /\ status = "testing" /\ pc = "test"
         \/ runs[r].pc = "benchmarking" /\ status = "benchmarking" /\ pc = "bench",
         SetStatus(r, status), Goto(r, pc), Outside
  PROVE  \E x, new : Writes(r, x, new)
<1> DEFINE old == rows[runs[r].row]
           new == [old EXCEPT !.status = status]
           x == [runs[r] EXCEPT !.pc = pc]
<1>1. /\ runs[r].pc \in PipelineSteps \ {"insert"} /\ pc \in PipelineSteps
      /\ status \in Statuses \ Terminal
  BY DEF PipelineSteps, Statuses, Terminal
<1>2. runs[r] \in Run /\ old \in Rows /\ RowAt(runs[r], old) /\ RowOk(old)
  BY <1>1, AtWork
<1>3. /\ new.status = status /\ new.team = old.team /\ new.commit = old.commit
      /\ new.built = old.built /\ new.tests = old.tests /\ new.benches = old.benches
      /\ new.tree = old.tree /\ new.report = old.report /\ new.pushed = old.pushed
  BY <1>1, <1>2, NewStatus
<1>4. rows' = [rows EXCEPT ![runs[r].row] = new]
  BY DEF SetStatus
<1>5. /\ x.pc = pc /\ x.team = runs[r].team /\ x.commit = runs[r].commit
      /\ x.scenarios = runs[r].scenarios
  BY <1>2 DEF Run
<1> HIDE DEF old, new, x
<1>6. RowAt(x, new)
  BY <1>1, <1>2, <1>3, <1>5 DEF RowAt
<1>7. RowOk(new)
  BY <1>2, <1>3 DEF RowOk, RowAt
<1>8. Advances(old, new)
  BY <1>2, <1>3, OrderValues DEF RowAt, Advances
<1>9. Seen(new) = Seen(old)
  BY <1>1, <1>2, <1>3 DEF Seen, RowAt
<1> QED
  BY <1>1, <1>3, <1>4, <1>6, <1>7, <1>8, <1>9, WritesOn DEF SeenEdit, x, old

\* The last status.
LEMMA FinalWrites ==
  ASSUME RowsInv, NEW r \in Runners, NEW status,
         \/ runs[r].pc \in {"buildFailed", "testFailed", "except"} /\ status = "failed"
         \/ runs[r].pc = "record" /\ runs[r].scenarios = {} /\ status = "complete",
         SetStatus(r, status), Leave(r, FALSE), Outside
  PROVE  \E x, new : Writes(r, x, new)
<1> DEFINE old == rows[runs[r].row]
           new == [old EXCEPT !.status = status]
<1>1. /\ runs[r].pc \in PipelineSteps \ {"insert"}
      /\ status \in Statuses /\ status \in Terminal
  BY DEF PipelineSteps, Statuses, Terminal
<1>2. runs[r] \in Run /\ old \in Rows /\ RowAt(runs[r], old) /\ RowOk(old)
  BY <1>1, AtWork
<1>3. /\ new.status = status /\ new.team = old.team /\ new.commit = old.commit
      /\ new.built = old.built /\ new.tests = old.tests /\ new.benches = old.benches
      /\ new.tree = old.tree /\ new.report = old.report /\ new.pushed = old.pushed
  BY <1>1, <1>2, NewStatus
<1>4. rows' = [rows EXCEPT ![runs[r].row] = new]
  BY DEF SetStatus
<1>5. old.status \in Statuses /\ old.benches \in SUBSET Scenarios
  BY <1>2 DEF Rows
<1> HIDE DEF old, new
<1>6. RowOk(new)
  BY <1>1, <1>2, <1>3, <1>5 DEF RowOk, RowAt
<1>7. Advances(old, new)
  BY <1>1, <1>2, <1>3, <1>5, OrderValues DEF RowAt, Advances, Statuses, Terminal
<1>8. SeenEdit(old, new)
  <2>1. Seen(new) = [Seen(old) EXCEPT !.status = status]
    BY <1>1, <1>3 DEF Seen
  <2>2. status = "complete" => old.tests \in {"all", "zero"}
    BY <1>2, <1>5 DEF RowAt, Terminal
  <2> QED
    BY <1>1, <2>1, <2>2 DEF SeenEdit, Terminal
<1> QED
  BY <1>3, <1>4, <1>6, <1>7, <1>8, WritesLast DEF old

\* No row is edited: a command raises, a database call fails.
LEMMA RowStays ==
  ASSUME RowsInv, NEW r \in Runners, runs[r].pc \in PipelineSteps \ {"insert"}
  PROVE  LET old == rows[runs[r].row]
         IN  /\ rows = [rows EXCEPT ![runs[r].row] = old]
             /\ RowOk(old) /\ Advances(old, old) /\ SeenEdit(old, old)
<1> DEFINE old == rows[runs[r].row]
<1>1. old \in Rows /\ RowAt(runs[r], old) /\ RowOk(old) /\ runs[r].row \in DOMAIN rows
  BY AtWork
<1>2. rows \in Seq(Rows)
  BY DEF RowsInv, PipelineInv, TypeOK
<1>3. rows = [rows EXCEPT ![runs[r].row] = old]
  BY <1>1, <1>2
<1>4. old.status \in Statuses
  BY <1>1 DEF Rows
<1> HIDE DEF old
<1>5. Advances(old, old)
  BY <1>1, <1>4, OrderValues DEF Advances, RowAt, Statuses
<1>6. SeenEdit(old, old)
  BY DEF SeenEdit
<1> QED
  BY <1>1, <1>3, <1>5, <1>6 DEF old

\* To the except clauses.
LEMMA RaiseWrites ==
  ASSUME RowsInv, NEW r \in Runners, CommandRaises(r) \/ WriteFails(r)
  PROVE  \E x, new : Writes(r, x, new)
<1> DEFINE old == rows[runs[r].row]
           x == [runs[r] EXCEPT !.pc = "except"]
<1>1. /\ runs[r].pc \in PipelineSteps \ {"insert"} /\ "except" \in PipelineSteps
      /\ Goto(r, "except") /\ Outside /\ rows' = rows
  BY OutcomesAssumption DEF CommandRaises, WriteFails, AtStep, PipelineSteps
<1>2. runs[r] \in Run /\ RowAt(runs[r], old)
  BY <1>1, AtWork
<1>3. x.pc = "except" /\ x.team = runs[r].team /\ x.commit = runs[r].commit
  BY <1>2 DEF Run
<1>4. /\ rows = [rows EXCEPT ![runs[r].row] = old]
      /\ RowOk(old) /\ Advances(old, old) /\ SeenEdit(old, old)
  BY <1>1, RowStays
<1> HIDE DEF old, x
<1>5. RowAt(x, old)
  BY <1>2, <1>3 DEF RowAt
<1> QED
  BY <1>1, <1>4, <1>5, WritesOn DEF x, old

\* Out of run_pipeline.
LEMMA ThrowWrites ==
  ASSUME RowsInv, NEW r \in Runners, runs[r].pc # "insert", WriteFailsOutside(r)
  PROVE  \E x, new : Writes(r, x, new)
<1>1. /\ runs[r].pc \in PipelineSteps \ {"insert"}
      /\ Leave(r, TRUE) /\ Outside /\ rows' = rows
  BY DEF WriteFailsOutside, PipelineSteps
<1> QED
  BY <1>1, RowStays, WritesLast

\* The clone.
LEMMA CloneWrites ==
  ASSUME RowsInv, NEW r \in Runners, CloneRepo(r)
  PROVE  \E x, new : Writes(r, x, new)
<1> DEFINE old == rows[runs[r].row]
           new == [old EXCEPT !.tree = head[runs[r].team]]
           x == [runs[r] EXCEPT !.pc = "build"]
<1>1. /\ runs[r].pc = "clone" /\ runs[r].pc \in PipelineSteps \ {"insert"}
      /\ "build" \in PipelineSteps
      /\ Goto(r, "build") /\ Outside /\ rows' = [rows EXCEPT ![runs[r].row] = new]
  BY DEF CloneRepo, AtStep, Goto, PipelineSteps
<1>2. runs[r] \in Run /\ old \in Rows /\ RowAt(runs[r], old) /\ RowOk(old)
  BY <1>1, AtWork
<1>3. /\ new.status = old.status /\ new.team = old.team /\ new.commit = old.commit
      /\ new.built = old.built /\ new.tests = old.tests /\ new.benches = old.benches
      /\ new.tree = head[runs[r].team] /\ new.report = old.report /\ new.pushed = old.pushed
      /\ head[runs[r].team] # 0
  BY <1>2 DEF Rows, CloneRepo
<1>4. x.pc = "build" /\ x.team = runs[r].team /\ x.commit = runs[r].commit
  BY <1>2 DEF Run
<1> HIDE DEF old, new, x
<1>5. RowAt(x, new) /\ RowOk(new)
  BY <1>1, <1>2, <1>3, <1>4 DEF RowAt, RowOk
<1>6. Advances(old, new)
  BY <1>1, <1>2, <1>3, OrderValues DEF RowAt, Advances
<1>7. SeenEdit(old, new)
  BY <1>3 DEF SeenEdit, Seen
<1> QED
  BY <1>1, <1>3, <1>5, <1>6, <1>7, WritesOn DEF x, old

\* The build result.
LEMMA BuildWrites ==
  ASSUME RowsInv, NEW r \in Runners, NEW ok \in BOOLEAN, DockerBuild(r, ok)
  PROVE  \E x, new : Writes(r, x, new)
<1> DEFINE old == rows[runs[r].row]
           built == IF ok THEN "ok" ELSE "broken"
           pc == IF ok THEN "testing" ELSE "buildFailed"
           new == [old EXCEPT !.built = built]
           x == [runs[r] EXCEPT !.pc = pc]
<1>1. /\ runs[r].pc = "build" /\ runs[r].pc \in PipelineSteps \ {"insert"}
      /\ pc \in PipelineSteps
      /\ Goto(r, pc) /\ Outside /\ rows' = [rows EXCEPT ![runs[r].row] = new]
  BY DEF DockerBuild, InsertBuildResult, AtStep, PipelineSteps
<1>2. runs[r] \in Run /\ old \in Rows /\ RowAt(runs[r], old) /\ RowOk(old)
  BY <1>1, AtWork
<1>3. (pc = "testing" /\ built = "ok") \/ (pc = "buildFailed" /\ built = "broken")
  OBVIOUS
<1> HIDE DEF built, pc
<1>4. /\ new.status = old.status /\ new.team = old.team /\ new.commit = old.commit
      /\ new.built = built /\ new.tests = old.tests /\ new.benches = old.benches
      /\ new.tree = old.tree /\ new.report = old.report /\ new.pushed = old.pushed
  BY <1>2 DEF Rows
<1>5. x.pc = pc /\ x.team = runs[r].team /\ x.commit = runs[r].commit
  BY <1>2 DEF Run
<1> HIDE DEF old, new, x
<1>6. RowAt(x, new) /\ RowOk(new)
  BY <1>1, <1>2, <1>3, <1>4, <1>5 DEF RowAt, RowOk
<1>7. Advances(old, new)
  BY <1>1, <1>2, <1>4, OrderValues DEF RowAt, Advances
<1>8. SeenEdit(old, new)
  BY <1>4 DEF SeenEdit, Seen
<1> QED
  BY <1>1, <1>4, <1>6, <1>7, <1>8, WritesOn DEF x, old

\* The verdict on the tests.
LEMMA TestWrites ==
  ASSUME RowsInv, NEW r \in Runners, NEW judgement \in Judgements, DockerTest(r, judgement)
  PROVE  \E x, new : Writes(r, x, new)
<1> DEFINE old == rows[runs[r].row]
           verdict == judgement.verdict
           pc == IF verdict = "some" THEN "testFailed" ELSE "benchmarking"
           y == [old EXCEPT !.tests = verdict]
           new == [y EXCEPT !.due = judgement.due]
           x == [runs[r] EXCEPT !.pc = pc]
<1>1. /\ runs[r].pc = "test" /\ runs[r].pc \in PipelineSteps \ {"insert"}
      /\ pc \in PipelineSteps /\ Goto(r, pc) /\ Outside
  BY DEF DockerTest, AtStep, PipelineSteps
<1>2. /\ runs[r] \in Run /\ old \in Rows /\ RowAt(runs[r], old) /\ RowOk(old)
      /\ runs[r].row \in DOMAIN rows
  BY <1>1, AtWork
<1>3. verdict \in {"all", "some", "zero"}
  BY VerdictIsTrue
<1>4. rows' = [rows EXCEPT ![runs[r].row] = new]
  BY <1>2 DEF DockerTest, InsertTestResult
<1> HIDE DEF verdict
<1>5. /\ y.status = old.status /\ y.team = old.team /\ y.commit = old.commit
      /\ y.built = old.built /\ y.tests = verdict /\ y.benches = old.benches
      /\ y.tree = old.tree /\ y.report = old.report /\ y.pushed = old.pushed /\ y \in Rows
  BY <1>2, <1>3 DEF Rows, TestResults
<1> HIDE DEF y
<1>6. /\ new.status = old.status /\ new.team = old.team /\ new.commit = old.commit
      /\ new.built = old.built /\ new.tests = verdict /\ new.benches = old.benches
      /\ new.tree = old.tree /\ new.report = old.report /\ new.pushed = old.pushed
  BY <1>5 DEF Rows
<1>7. x.pc = pc /\ x.team = runs[r].team /\ x.commit = runs[r].commit
  BY <1>2 DEF Run
<1> HIDE DEF old, new, x
<1>8. RowAt(x, new) /\ RowOk(new)
  BY <1>1, <1>2, <1>3, <1>6, <1>7 DEF RowAt, RowOk
<1>9. Advances(old, new)
  BY <1>1, <1>2, <1>6, OrderValues DEF RowAt, Advances
<1>10. SeenEdit(old, new)
  <2>1. old.tests = "none"
    BY <1>1, <1>2 DEF RowAt
  <2>2. Seen(new) = [Seen(old) EXCEPT !.tests = verdict]
    BY <1>6 DEF Seen
  <2> QED
    BY <1>3, <2>1, <2>2 DEF SeenEdit
<1> HIDE DEF pc
<1> QED
  BY <1>1, <1>4, <1>6, <1>8, <1>9, <1>10, WritesOn DEF x, old

\* The benchmark is over: nothing of what it reported is recorded yet.
LEMMA BenchWrites ==
  ASSUME RowsInv, NEW r \in Runners, NEW reported \in SUBSET Scenarios, DockerBench(r, reported)
  PROVE  \E x, new : Writes(r, x, new)
<1> DEFINE old == rows[runs[r].row]
           new == [old EXCEPT !.report = reported]
           y == [runs[r] EXCEPT !.pc = "record"]
           x == [y EXCEPT !.scenarios = reported]
<1>1. /\ runs[r].pc = "bench" /\ runs[r].pc \in PipelineSteps \ {"insert"} /\ Outside
      /\ runs' = [runs EXCEPT ![r] = x] /\ rows' = [rows EXCEPT ![runs[r].row] = new]
  BY DEF DockerBench, AtStep, PipelineSteps
<1>2. /\ runs[r] \in Run /\ old \in Rows /\ RowAt(runs[r], old) /\ RowOk(old)
      /\ runs[r].row # 0
  BY <1>1, AtWork
<1>3. /\ y \in Run /\ y.pc = "record" /\ y.team = runs[r].team
      /\ y.commit = runs[r].commit /\ y.row = runs[r].row
  BY <1>2 DEF Run, Pcs, PipelineSteps
<1> HIDE DEF y
<1>4. /\ x.pc = "record" /\ x.team = runs[r].team /\ x.commit = runs[r].commit
      /\ x.row = runs[r].row /\ x.scenarios = reported
  BY <1>3 DEF Run
<1>5. /\ new.status = old.status /\ new.team = old.team /\ new.commit = old.commit
      /\ new.built = old.built /\ new.tests = old.tests /\ new.benches = old.benches
      /\ new.tree = old.tree /\ new.report = reported /\ new.pushed = old.pushed
  BY <1>2 DEF Rows
<1> HIDE DEF old, new, x
<1>6. old.benches = {}
  BY <1>1, <1>2 DEF RowAt
<1>7. RowAt(x, new) /\ RowOk(new)
  BY <1>1, <1>2, <1>4, <1>5, <1>6 DEF RowAt, RowOk
<1>8. Advances(old, new)
  BY <1>1, <1>2, <1>5, OrderValues DEF RowAt, Advances
<1>9. SeenEdit(old, new)
  BY <1>5 DEF SeenEdit, Seen
<1>10. Writes(r, x, new)
  BY <1>1, <1>2, <1>4, <1>5, <1>7, <1>8, <1>9 DEF Writes, Outside, old
<1> QED
  BY <1>10

\* One scenario's figures.
LEMMA RecordWrites ==
  ASSUME RowsInv, NEW r \in Runners, NEW s \in Scenarios, RecordBench(r, s)
  PROVE  \E x, new : Writes(r, x, new)
<1> DEFINE old == rows[runs[r].row]
           new == [old EXCEPT !.benches = @ \cup {s}]
           x == [runs[r] EXCEPT !.scenarios = @ \ {s}]
<1>1. /\ runs[r].pc = "record" /\ runs[r].pc \in PipelineSteps \ {"insert"} /\ Outside
      /\ s \in runs[r].scenarios
      /\ runs' = [runs EXCEPT ![r] = x] /\ rows' = [rows EXCEPT ![runs[r].row] = new]
  BY DEF RecordBench, AtStep, PipelineSteps
<1>2. /\ runs[r] \in Run /\ old \in Rows /\ RowAt(runs[r], old) /\ RowOk(old)
      /\ runs[r].row # 0
  BY <1>1, AtWork
<1>3. /\ x.pc = "record" /\ x.team = runs[r].team /\ x.commit = runs[r].commit
      /\ x.row = runs[r].row /\ x.scenarios = runs[r].scenarios \ {s}
  BY <1>1, <1>2 DEF Run
<1>4. /\ new.status = old.status /\ new.team = old.team /\ new.commit = old.commit
      /\ new.built = old.built /\ new.tests = old.tests /\ new.benches = old.benches \cup {s}
      /\ new.tree = old.tree /\ new.report = old.report /\ new.pushed = old.pushed
  BY <1>2 DEF Rows
<1> HIDE DEF old, new, x
<1>5. runs[r].scenarios \subseteq old.report /\ old.benches = old.report \ runs[r].scenarios
  BY <1>1, <1>2 DEF RowAt
<1>6. RowAt(x, new)
  BY <1>1, <1>2, <1>3, <1>4, <1>5 DEF RowAt
<1>7. RowOk(new)
  BY <1>1, <1>2, <1>4 DEF RowAt, RowOk
<1>8. Advances(old, new)
  BY <1>1, <1>2, <1>4, OrderValues DEF RowAt, Advances
<1>9. SeenEdit(old, new)
  <2>1. old.tests \in {"all", "zero"} /\ s \in Scenarios \ old.benches
    BY <1>1, <1>2, <1>5 DEF RowAt
  <2>2. Seen(new) = [Seen(old) EXCEPT !.benches = [t \in old.benches \cup {s} |-> Figures]]
    BY <1>4 DEF Seen
  <2> QED
    BY <2>1, <2>2 DEF SeenEdit
<1>10. Writes(r, x, new)
  BY <1>1, <1>2, <1>3, <1>4, <1>6, <1>7, <1>8, <1>9 DEF Writes, Outside, old
<1> QED
  BY <1>10

\* Every step of a run inside run_pipeline.
LEMMA RunWrites ==
  ASSUME RowsInv, NEW r \in Runners, RunStep(r) \/ WriteFails(r) \/ WriteFailsOutside(r),
         runs[r].pc # "insert"
  PROVE  \E x, new : Writes(r, x, new)
<1>1. CASE InsertSubmission(r)
  BY <1>1 DEF InsertSubmission, AtStep
<1>2. CASE StartBuilding(r) \/ StartTesting(r) \/ StartBenchmark(r)
  BY <1>2, StatusWrites DEF StartBuilding, StartTesting, StartBenchmark, AtStep
<1>3. CASE StopEarly(r) \/ Complete(r) \/ MarkFailed(r)
  BY <1>3, FinalWrites DEF StopEarly, Complete, MarkFailed, AtStep
<1>4. CASE CommandRaises(r) \/ WriteFails(r) \/ WriteFailsOutside(r)
  BY <1>4, RaiseWrites, ThrowWrites
<1> QED
  BY <1>1, <1>2, <1>3, <1>4, CloneWrites, BuildWrites, TestWrites, BenchWrites, RecordWrites,
     OutcomesAssumption DEF RunStep

-----------------------------------------------------------------------------
(* The forms of all steps: an insert, an edit, or neither.                 *)

\* No row is edited, and no run that has one moves but to leave it.
Quiet ==
  /\ rows' = rows
  /\ \A q \in Runners : runs'[q] = runs[q] \/ runs'[q].pc \notin PipelineSteps \ {"insert"}

\* One run moves, to where it has no row.
LEMMA OneRunQuiet ==
  ASSUME PipelineInv, NEW r \in Runners, NEW x, runs' = [runs EXCEPT ![r] = x],
         x.pc \notin PipelineSteps \ {"insert"}, rows' = rows
  PROVE  Quiet
<1>1. runs \in [Runners -> Run]
  BY DEF PipelineInv, TypeOK, Run
<1> QED
  BY <1>1 DEF Quiet

\* The steps that move at most one run, outside run_pipeline.
LEMMA QuietSteps ==
  ASSUME PipelineInv,
         \/ UNCHANGED vars
         \/ \E t \in Teams : Push(t) \/ WindowPasses(t)
         \/ \E h \in hooks : LoseHook(h)
         \/ \E q \in hooks \cup Strays : RefuseHook(q) \/ \E task \in Tasks : AcceptHook(q, task)
         \/ \E task \in Tasks : TakeLock(task)
         \/ \E p \in Pollers : StartPoll(p) \/ PollStep(p) \/ LookupFails(p)
         \/ \E o \in Operators, t \in Teams, c \in 0..MaxPushes : RunManually(o, t, c)
         \/ \E p \in Processes : CrashProcess(p)
         \/ CrashServer
         \/ \E r \in Runners : runs[r].pc = "insert" /\ WriteFailsOutside(r)
  PROVE  Quiet
<1> DEFINE Away(x) == x.pc \notin PipelineSteps \ {"insert"}
<1>1. runs \in [Runners -> Run]
  BY DEF PipelineInv, TypeOK, Run
<1>2. CASE \/ UNCHANGED vars
           \/ \E t \in Teams : Push(t) \/ WindowPasses(t)
           \/ \E h \in hooks : LoseHook(h)
           \/ \E q \in hooks \cup Strays : RefuseHook(q)
  BY <1>2 DEF vars, Push, WindowPasses, LoseHook, RefuseHook, Quiet
<1>3. CASE \E q \in hooks \cup Strays : \E task \in Tasks : AcceptHook(q, task)
  <2>1. PICK q \in hooks \cup Strays, task \in Tasks : AcceptHook(q, task)
    BY <1>3
  <2> DEFINE x == [Off EXCEPT !.pc = "waiting", !.team = q.branch, !.commit = q.commit]
  <2>2. Away(x)
    BY DEF PipelineSteps, Off
  <2>3. runs' = [runs EXCEPT ![task] = x] /\ rows' = rows /\ task \in Runners
    BY <2>1 DEF AcceptHook, Runners
  <2> HIDE DEF x
  <2> QED
    BY <2>2, <2>3, OneRunQuiet
<1>4. CASE \E task \in Tasks : TakeLock(task)
  <2>1. PICK task \in Tasks : TakeLock(task)
    BY <1>4
  <2> DEFINE x == [runs[task] EXCEPT !.pc = "insert"]
  <2>2. runs[task] \in Run /\ task \in Runners
    BY <1>1 DEF Runners
  <2>3. Away(x)
    BY <2>2 DEF Run
  <2>4. runs' = [runs EXCEPT ![task] = x] /\ rows' = rows
    BY <2>1 DEF TakeLock
  <2> HIDE DEF x
  <2> QED
    BY <2>2, <2>3, <2>4, OneRunQuiet
<1>5. CASE \E p \in Pollers : StartPoll(p) \/ PollStep(p) \/ LookupFails(p)
  <2>1. PICK p \in Pollers : StartPoll(p) \/ PollStep(p) \/ LookupFails(p)
    BY <1>5
  <2>2. runs[p] \in Run /\ p \in Runners
    BY <1>1 DEF Runners, Processes
  <2>3. rows' = rows
    BY <2>1 DEF StartPoll, PollStep, LsRemote, Lookup, EndPoll, LookupFails
  <2>4. \E x : runs' = [runs EXCEPT ![p] = x] /\ Away(x)
    <3>1. CASE StartPoll(p)
      <4> DEFINE x == [Off EXCEPT !.pc = "polling", !.teamsLeft = Teams]
      <4>1. Away(x)
        BY DEF Off, PipelineSteps
      <4>2. runs' = [runs EXCEPT ![p] = x]
        BY <3>1 DEF StartPoll
      <4> QED
        BY <4>1, <4>2
    <3>2. CASE \E t \in Teams : LsRemote(p, t)
      <4>1. PICK t \in Teams : LsRemote(p, t)
        BY <3>2
      <4> DEFINE pc == IF head[t] = 0 THEN "polling" ELSE "lookup"
                 y == [runs[p] EXCEPT !.teamsLeft = runs[p].teamsLeft \ {t}, !.team = t, !.commit = head[t]]
                 x == [y EXCEPT !.pc = pc]
      <4>2. "pc" \in DOMAIN y
        BY <2>2 DEF Run
      <4>3. runs' = [runs EXCEPT ![p] = x]
        BY <4>1 DEF LsRemote
      <4> HIDE DEF y
      <4>4. x.pc = pc
        BY <4>2
      <4>5. Away(x)
        BY <4>4 DEF PipelineSteps
      <4> QED
        BY <4>3, <4>5
    <3>3. CASE Lookup(p) \/ LookupFails(p)
      <4>1. PICK pc \in {"polling", "insert"} : runs' = [runs EXCEPT ![p].pc = pc]
        BY <3>3 DEF Lookup, LookupFails
      <4> DEFINE x == [runs[p] EXCEPT !.pc = pc]
      <4>2. x.pc = pc
        BY <2>2 DEF Run
      <4>3. runs' = [runs EXCEPT ![p] = x]
        BY <4>1
      <4> HIDE DEF x
      <4> QED
        BY <4>2, <4>3 DEF PipelineSteps
    <3>4. CASE EndPoll(p)
      BY <3>4, OffTyped DEF EndPoll
    <3> QED
      BY <2>1, <3>1, <3>2, <3>3, <3>4 DEF PollStep
  <2> QED
    BY <2>2, <2>3, <2>4, OneRunQuiet
<1>6. CASE \E o \in Operators, t \in Teams, c \in 0..MaxPushes : RunManually(o, t, c)
  <2>1. PICK o \in Operators, t \in Teams, c \in 0..MaxPushes : RunManually(o, t, c)
    BY <1>6
  <2> DEFINE x == [Off EXCEPT !.pc = "insert", !.team = t, !.commit = c]
  <2>2. Away(x)
    BY DEF Off
  <2>3. runs' = [runs EXCEPT ![o] = x] /\ rows' = rows /\ o \in Runners
    BY <2>1 DEF RunManually, Runners, Processes
  <2> HIDE DEF x
  <2> QED
    BY <2>2, <2>3, OneRunQuiet
<1>7. CASE \E p \in Processes : CrashProcess(p)
  <2>1. PICK p \in Processes : CrashProcess(p)
    BY <1>7
  <2>2. Away(Ended(p))
    BY DEF Ended, Off, PipelineSteps
  <2> QED
    BY <2>1, <2>2, OneRunQuiet DEF CrashProcess, Runners
<1>8. CASE CrashServer
  BY <1>8, OffTyped DEF CrashServer, Quiet
<1>9. CASE \E r \in Runners : runs[r].pc = "insert" /\ WriteFailsOutside(r)
  <2>1. PICK r \in Runners : runs[r].pc = "insert" /\ WriteFailsOutside(r)
    BY <1>9
  <2>2. Away(Ended(r))
    BY DEF Ended, Off, PipelineSteps
  <2> QED
    BY <2>1, <2>2, OneRunQuiet DEF WriteFailsOutside, Leave
<1> QED
  BY <1>2, <1>3, <1>4, <1>5, <1>6, <1>7, <1>8, <1>9

\* Such a step is taken inside run_pipeline; at the insert it inserts or fails.
LEMMA InsideSteps ==
  ASSUME NEW r, RunStep(r) \/ WriteFails(r) \/ WriteFailsOutside(r)
  PROVE  /\ runs[r].pc \in PipelineSteps
         /\ runs[r].pc = "insert" => InsertSubmission(r) \/ WriteFailsOutside(r)
BY OutcomesAssumption
   DEF RunStep, InsertSubmission, StartBuilding, CloneRepo, DockerBuild, StartTesting,
       DockerTest, StopEarly, StartBenchmark, DockerBench, RecordBench, Complete,
       CommandRaises, MarkFailed, WriteFails, WriteFailsOutside, AtStep, PipelineSteps

\* A step inserts a row, edits one, or does neither.
LEMMA StepForms ==
  ASSUME RowsInv, [Next]_vars
  PROVE  \/ \E r \in Runners : InsertSubmission(r)
         \/ \E r \in Runners : runs[r].pc \in PipelineSteps \ {"insert"} /\ \E x, new : Writes(r, x, new)
         \/ Quiet
<1>1. PipelineInv
  BY DEF RowsInv
<1>2. ASSUME NEW r \in Runners, RunStep(r) \/ WriteFails(r) \/ WriteFailsOutside(r)
      PROVE  \/ InsertSubmission(r)
             \/ runs[r].pc \in PipelineSteps \ {"insert"} /\ \E x, new : Writes(r, x, new)
             \/ Quiet
  <2>1. runs[r].pc \in PipelineSteps
    BY <1>2, InsideSteps
  <2>2. CASE runs[r].pc # "insert"
    BY <1>2, <2>1, <2>2, RunWrites
  <2>3. CASE runs[r].pc = "insert"
    <3>1. InsertSubmission(r) \/ WriteFailsOutside(r)
      BY <1>2, <2>3, InsideSteps
    <3> QED
      BY <1>1, <2>3, <3>1, QuietSteps
  <2> QED
    BY <2>2, <2>3
<1>3. CASE \E r \in Runners : RunStep(r) \/ WriteFails(r) \/ WriteFailsOutside(r)
  BY <1>2, <1>3
<1>4. CASE ~ \E r \in Runners : RunStep(r) \/ WriteFails(r) \/ WriteFailsOutside(r)
  BY <1>1, <1>4, QuietSteps DEF Next
<1> QED
  BY <1>3, <1>4

-----------------------------------------------------------------------------
(* The inductive invariant.                                                *)

\* What an insert does: a queued row of nobody else's.
LEMMA Inserts ==
  ASSUME RowsInv, NEW r \in Runners, InsertSubmission(r)
  PROVE  \E row, x :
           /\ rows' = Append(rows, row) /\ runs' = [runs EXCEPT ![r] = x]
           /\ DOMAIN rows' = DOMAIN rows \cup {Len(rows) + 1} /\ Len(rows) + 1 \notin DOMAIN rows
           /\ rows'[Len(rows) + 1] = row /\ \A k \in DOMAIN rows : rows'[k] = rows[k]
           /\ x.row = Len(rows) + 1 /\ RowAt(x, row) /\ RowOk(row)
           /\ row.team = runs[r].team /\ row.commit = runs[r].commit /\ row.tree = 0
           /\ row.team \in Teams /\ (row.pushed <=> row.commit \in 1..head[row.team])
           /\ Seen(row) = [team |-> runs[r].team, status |-> "running", tests |-> "none",
                           benches |-> [s \in {} |-> Figures]]
           /\ head' = head /\ hooks' = hooks
<1> DEFINE row == NewRow(runs[r].team, runs[r].commit)
           y == [runs[r] EXCEPT !.pc = "building"]
           x == [y EXCEPT !.row = Len(rows) + 1]
<1>1. runs[r] \in Run /\ rows \in Seq(Rows) /\ runs[r].team \in Teams
  BY DEF RowsInv, PipelineInv, TypeOK, Run, Assigned, WorksOn, InsertSubmission, AtStep, PipelineSteps
<1>2. /\ rows' = Append(rows, row) /\ runs' = [runs EXCEPT ![r] = x]
      /\ head' = head /\ hooks' = hooks
  BY DEF InsertSubmission, Outside
<1>3. /\ row.team = runs[r].team /\ row.commit = runs[r].commit /\ row.status = "queued"
      /\ row.tree = 0 /\ row.built = "none" /\ row.tests = "none" /\ row.benches = {}
      /\ (row.pushed <=> row.commit \in 1..head[row.team])
  BY DEF NewRow
<1> HIDE DEF row
<1>4. /\ DOMAIN rows' = DOMAIN rows \cup {Len(rows) + 1} /\ Len(rows) + 1 \notin DOMAIN rows
      /\ rows'[Len(rows) + 1] = row /\ \A k \in DOMAIN rows : rows'[k] = rows[k]
  <2>1. /\ Len(rows) \in Nat /\ DOMAIN rows = 1..Len(rows)
        /\ DOMAIN rows' = 1..Len(rows) + 1
        /\ rows'[Len(rows) + 1] = row /\ \A k \in 1..Len(rows) : rows'[k] = rows[k]
    BY <1>1, <1>2
  <2> QED
    BY <2>1
<1>5. /\ y \in Run /\ y.pc = "building" /\ y.team = runs[r].team
      /\ y.commit = runs[r].commit
  BY <1>1 DEF Run, Pcs, PipelineSteps
<1> HIDE DEF y
<1>6. /\ x.pc = "building" /\ x.team = runs[r].team /\ x.commit = runs[r].commit
      /\ x.row = Len(rows) + 1
  BY <1>5 DEF Run
<1> HIDE DEF x
<1>7. RowAt(x, row) /\ RowOk(row)
  BY <1>3, <1>6 DEF RowAt, RowOk, Terminal
<1>8. Seen(row) = [team |-> runs[r].team, status |-> "running", tests |-> "none",
                   benches |-> [s \in {} |-> Figures]]
  BY <1>3 DEF Seen, Terminal
<1> QED
  BY <1>1, <1>2, <1>3, <1>4, <1>6, <1>7, <1>8

\* What an edit does to the rows.
LEMMA Edits ==
  ASSUME RowsInv, NEW r \in Runners, runs[r].pc \in PipelineSteps \ {"insert"},
         NEW x, NEW new, Writes(r, x, new)
  PROVE  /\ runs[r].row \in DOMAIN rows /\ DOMAIN rows' = DOMAIN rows
         /\ rows'[runs[r].row] = new
         /\ \A k \in DOMAIN rows : k # runs[r].row => rows'[k] = rows[k]
         /\ runs'[r] = x /\ \A q \in Runners : q # r => runs'[q] = runs[q]
<1>1. runs \in [Runners -> Run] /\ rows \in Seq(Rows) /\ runs[r].row \in DOMAIN rows
  BY AtWork DEF RowsInv, PipelineInv, TypeOK, Run
<1>2. runs' = [runs EXCEPT ![r] = x] /\ rows' = [rows EXCEPT ![runs[r].row] = new]
  BY DEF Writes
<1> QED
  BY <1>1, <1>2

\* The table is a sequence of rows.
LEMMA RowsAre ==
  ASSUME RowsInv
  PROVE  /\ rows \in Seq(Rows) /\ Len(rows) \in Nat /\ DOMAIN rows = 1..Len(rows)
         /\ \A k \in DOMAIN rows : rows[k] \in Rows /\ RowOk(rows[k])
         /\ runs \in [Runners -> Run]
BY ElementOfSeq, LenProperties DEF RowsInv, PipelineInv, TypeOK, Run

\* The rows a run has are in the table.
LEMMA RowsKnown ==
  ASSUME PipelineInv, NEW r \in Runners, runs[r].row # 0
  PROVE  runs[r].pc \in PipelineSteps \ {"insert"} /\ runs[r].row \in DOMAIN rows
BY DEF PipelineInv, Assigned, WorksOn

\* An insert keeps what rows say.
LEMMA InsertKeepsRows ==
  ASSUME RowsInv, NEW r \in Runners, InsertSubmission(r), PipelineInv'
  PROVE  RowsInv'
<1>1. PICK row, x :
        /\ rows' = Append(rows, row) /\ runs' = [runs EXCEPT ![r] = x]
        /\ DOMAIN rows' = DOMAIN rows \cup {Len(rows) + 1} /\ Len(rows) + 1 \notin DOMAIN rows
        /\ rows'[Len(rows) + 1] = row /\ \A k \in DOMAIN rows : rows'[k] = rows[k]
        /\ x.row = Len(rows) + 1 /\ RowAt(x, row) /\ RowOk(row)
  BY Inserts
<1>2. runs \in [Runners -> Run]
  BY SMTT(40) DEF RowsInv, PipelineInv, TypeOK, Run
<1>3. \A q \in Runners : runs'[q] = IF q = r THEN x ELSE runs[q]
  BY <1>1, <1>2
<1>4. \A q \in Runners : runs[q].row # 0 => runs[q].row \in DOMAIN rows
  BY RowsKnown DEF RowsInv
<1>5. \A k \in DOMAIN rows' : RowOk(rows'[k])
  BY <1>1 DEF RowsInv
<1>6. \A q \in Runners : runs'[q].row # 0 => RowAt(runs'[q], rows'[runs'[q].row])
  BY <1>1, <1>3, <1>4 DEF RowsInv
<1>7. OneWriter'
  BY <1>1, <1>3, <1>4 DEF RowsInv, OneWriter
<1> QED
  BY <1>5, <1>6, <1>7 DEF RowsInv

\* An edit keeps what rows say.
LEMMA EditKeepsRows ==
  ASSUME RowsInv, NEW r \in Runners, runs[r].pc \in PipelineSteps \ {"insert"},
         NEW x, NEW new, Writes(r, x, new), PipelineInv'
  PROVE  RowsInv'
<1>1. /\ DOMAIN rows' = DOMAIN rows
      /\ rows'[runs[r].row] = new
      /\ \A k \in DOMAIN rows : k # runs[r].row => rows'[k] = rows[k]
      /\ runs'[r] = x /\ \A q \in Runners : q # r => runs'[q] = runs[q]
  BY Edits
<1>2. x.row \in {0, runs[r].row} /\ (x.row # 0 => RowAt(x, new)) /\ RowOk(new)
  BY DEF Writes
<1>3. runs[r].row # 0
  BY AtWork
<1>4. \A q \in Runners : runs[q].row # 0 => runs[q].row \in DOMAIN rows
  BY RowsKnown DEF RowsInv
<1>5. \A k \in DOMAIN rows' : RowOk(rows'[k])
  BY <1>1, <1>2 DEF RowsInv
<1>6. ASSUME NEW q \in Runners, runs'[q].row # 0
      PROVE  RowAt(runs'[q], rows'[runs'[q].row])
  <2>1. CASE q = r
    BY <1>1, <1>2, <1>6, <2>1
  <2>2. CASE q # r
    <3>1. runs'[q] = runs[q] /\ runs[q].row # runs[r].row
      BY <1>1, <1>3, <2>2 DEF RowsInv, OneWriter
    <3>2. RowAt(runs[q], rows[runs[q].row])
      BY <1>6, <3>1 DEF RowsInv
    <3> QED
      BY <1>1, <1>4, <1>6, <3>1, <3>2
  <2> QED
    BY <2>1, <2>2
<1>7. OneWriter'
  BY <1>1, <1>2, <1>3 DEF RowsInv, OneWriter
<1> QED
  BY <1>5, <1>6, <1>7 DEF RowsInv

\* So does everything else.
LEMMA QuietKeepsRows ==
  ASSUME RowsInv, Quiet, PipelineInv'
  PROVE  RowsInv'
<1>1. rows' = rows /\ \A q \in Runners : runs'[q] = runs[q] \/ runs'[q].row = 0
  BY RowsKnown DEF Quiet, PipelineInv, Assigned, WorksOn
<1>2. \A k \in DOMAIN rows' : RowOk(rows'[k])
  BY <1>1 DEF RowsInv
<1>3. \A r \in Runners : runs'[r].row # 0 => RowAt(runs'[r], rows'[runs'[r].row])
  BY <1>1 DEF RowsInv
<1>4. OneWriter'
  BY <1>1 DEF RowsInv, OneWriter
<1> QED
  BY <1>2, <1>3, <1>4 DEF RowsInv

\* At the start there are no rows.
LEMMA InitHasRows == Init => RowsInv
<1> SUFFICES ASSUME Init
             PROVE  RowsInv
  OBVIOUS
<1>1. PipelineInv
  BY InitHasInv
<1>2. DOMAIN rows = {} /\ \A r \in Runners : runs[r].row = 0
  BY DEF Init, Off
<1> QED
  BY <1>1, <1>2 DEF RowsInv, OneWriter

\* One case per form.
LEMMA StepKeepsRows == RowsInv /\ [Next]_vars => RowsInv'
<1> SUFFICES ASSUME RowsInv, [Next]_vars
             PROVE  RowsInv'
  OBVIOUS
<1>1. PipelineInv'
  BY StepKeepsInv DEF RowsInv
<1> QED
  BY <1>1, StepForms, InsertKeepsRows, EditKeepsRows, QuietKeepsRows

\* The inductive invariant.
LEMMA RowsInvHolds == Spec => []RowsInv
BY InitHasRows, StepKeepsRows, PTL DEF Spec

-----------------------------------------------------------------------------
(* The properties.                                                         *)

\* No run writes into the row of another, however many tasks, pollers and
\* operators work on the same commit and whoever crashes or fails.
THEOREM RowsHaveOneWriter == Spec => []OneWriterPerRow
<1>1. RowsInv => OneWriterPerRow
  <2> SUFFICES ASSUME RowsInv, NEW r \in Runners, NEW q \in Runners, runs[r].row # 0
               PROVE  /\ runs[r].row \in DOMAIN rows /\ rows[runs[r].row].team = runs[r].team
                      /\ r # q => runs[r].row # runs[q].row
    BY DEF OneWriterPerRow
  <2>1. runs[r].row \in DOMAIN rows
    BY RowsKnown DEF RowsInv
  <2>2. RowAt(runs[r], rows[runs[r].row])
    BY DEF RowsInv
  <2> QED
    BY <2>1, <2>2 DEF RowsInv, OneWriter, RowAt
<1> QED
  BY <1>1, RowsInvHolds, PTL

\* A row that reads "complete" has a build that succeeded, no failed test and every
\* figure its benchmark reported, whichever writes failed and whoever crashed.  How
\* many scenarios a benchmark reports is up to the submission.
THEOREM CompletionIsEarned == Spec => []CompleteIsEarned
<1>1. RowsInv => CompleteIsEarned
  BY DEF RowsInv, CompleteIsEarned, RowOk
<1> QED
  BY <1>1, RowsInvHolds, PTL

\* A row stays in the table with its team and commit, its status never goes back,
\* and nothing of it changes once it is complete or failed.
THEOREM RowsNeverGoBack == Spec => RowsMoveForward
<1> DEFINE Forward(k) ==
      /\ k \in DOMAIN rows'
      /\ rows'[k].team = rows[k].team /\ rows'[k].commit = rows[k].commit
      /\ Order(rows[k].status) <= Order(rows'[k].status)
      /\ rows[k].status \in Terminal => rows'[k] = rows[k]
<1>1. ASSUME RowsInv, [Next]_vars
      PROVE  [\A k \in DOMAIN rows : Forward(k)]_vars
  <2> SUFFICES ASSUME NEW k \in DOMAIN rows
               PROVE  Forward(k)
    OBVIOUS
  <2>1. Order(rows[k].status) \in Int
    <3>1. rows \in Seq(Rows)
      BY <1>1 DEF RowsInv, PipelineInv, TypeOK
    <3>2. rows[k] \in Rows
      BY <3>1, ElementOfSeq, LenProperties
    <3>3. rows[k].status \in Statuses
      BY <3>2 DEF Rows
    <3> QED
      BY <3>3, OrderValues DEF Statuses
  <2>2. CASE \E r \in Runners : InsertSubmission(r)
    <3>1. k \in DOMAIN rows' /\ rows'[k] = rows[k]
      BY <1>1, <2>2, Inserts
    <3> QED
      BY <2>1, <3>1
  <2>3. ASSUME NEW r \in Runners, runs[r].pc \in PipelineSteps \ {"insert"},
               NEW x, NEW new, Writes(r, x, new)
        PROVE  Forward(k)
    <3>1. /\ k \in DOMAIN rows'
          /\ rows'[k] = rows[k] \/ (k = runs[r].row /\ rows'[k] = new)
      BY <1>1, <2>3, Edits
    <3>2. Advances(rows[runs[r].row], new)
      BY <2>3 DEF Writes
    <3> QED
      BY <2>1, <3>1, <3>2 DEF Advances
  <2>4. CASE Quiet
    BY <2>1, <2>4 DEF Quiet
  <2> QED
    BY <1>1, <2>2, <2>3, <2>4, StepForms
<1> QED
  BY <1>1, RowsInvHolds, PTL DEF Spec, RowsMoveForward

-----------------------------------------------------------------------------
(* The writes the leaderboard sees.                                        *)

\* No figures yet.
LEMMA NoFigures == [s \in {} |-> Figures] = <<>>
OBVIOUS

\* The view is row by row.
LEMMA SeenRows ==
  /\ LeaderboardRows = [k \in DOMAIN rows |-> Seen(rows[k])]
  /\ LeaderboardRows' = [k \in DOMAIN rows' |-> Seen(rows'[k])]
BY DEF LeaderboardRows, Seen

\* An insert is an insert there.
LEMMA InsertIsWrite ==
  ASSUME RowsInv, NEW r \in Runners, InsertSubmission(r)
  PROVE  Board!Write
<1>1. PICK row, x :
        /\ rows' = Append(rows, row)
        /\ DOMAIN rows' = DOMAIN rows \cup {Len(rows) + 1} /\ Len(rows) + 1 \notin DOMAIN rows
        /\ rows'[Len(rows) + 1] = row /\ \A k \in DOMAIN rows : rows'[k] = rows[k]
        /\ row.team = runs[r].team /\ row.team \in Teams
        /\ Seen(row) = [team |-> runs[r].team, status |-> "running", tests |-> "none",
                        benches |-> [s \in {} |-> Figures]]
  BY Inserts
<1>2. DOMAIN rows = 1..Len(rows) /\ Len(rows) \in Nat
  BY LenProperties DEF RowsInv, PipelineInv, TypeOK
<1> DEFINE team == runs[r].team
           views == {Seen(rows[k]) : k \in DOMAIN rows}
<1>3. LeaderboardRows \in Seq(views) /\ Len(LeaderboardRows) = Len(rows)
  BY <1>2, SeenRows
<1>4. Seen(row) = [team |-> team, status |-> "running", tests |-> "none", benches |-> <<>>]
  BY <1>1, NoFigures
<1>5. LeaderboardRows' = Append(LeaderboardRows, Seen(row))
  BY <1>1, <1>2, <1>3, SeenRows
<1>6. Board!InsertSubmission(team)
  BY <1>4, <1>5 DEF Board!InsertSubmission, NoReply
<1> QED
  BY <1>1, <1>6 DEF Board!Write

\* An edit is seen as no change, or as one of the other writes.
LEMMA EditIsWrite ==
  ASSUME RowsInv, NEW r \in Runners, runs[r].pc \in PipelineSteps \ {"insert"},
         NEW x, NEW new, Writes(r, x, new), LeaderboardRows' # LeaderboardRows
  PROVE  Board!Write
<1> DEFINE k == runs[r].row
           old == rows[k]
<1>1. /\ k \in DOMAIN rows /\ DOMAIN rows' = DOMAIN rows /\ rows'[k] = new
      /\ \A j \in DOMAIN rows : j # k => rows'[j] = rows[j]
  BY Edits
<1>2. SeenEdit(old, new) /\ old.status \notin Terminal
  BY DEF Writes, Advances
<1> HIDE DEF k, old
<1>3. /\ k \in DOMAIN LeaderboardRows /\ LeaderboardRows[k] = Seen(old)
      /\ LeaderboardRows' = [LeaderboardRows EXCEPT ![k] = Seen(new)]
  BY <1>1, SeenRows DEF old
<1>4. /\ Seen(old).status = "running" /\ Seen(old).tests = old.tests
      /\ DOMAIN Seen(old).benches = old.benches
      /\ \A s \in old.benches : Seen(old).benches[s] = Figures
  BY <1>2 DEF Seen
<1>5. Board!Running(k)
  BY <1>3, <1>4 DEF Board!Running
<1>6. CASE Seen(new) = Seen(old)
  BY <1>1, <1>6, SeenRows DEF old
<1>7. ASSUME old.tests = "none", NEW outcome \in {"all", "some", "zero"},
             Seen(new) = [Seen(old) EXCEPT !.tests = outcome]
      PROVE  Board!InsertTestResult(k, outcome)
  BY <1>3, <1>4, <1>5, <1>7 DEF Board!InsertTestResult, NoReply
<1>8. ASSUME old.tests \in {"all", "zero"}, NEW s \in Scenarios \ old.benches,
             Seen(new) = [Seen(old) EXCEPT !.benches = [t \in old.benches \cup {s} |-> Figures]]
      PROVE  Board!InsertBenchResult(k, s, Figures)
  <2>1. [t \in old.benches \cup {s} |-> Figures]
          = [t \in DOMAIN Seen(old).benches \cup {s} |->
               IF t = s THEN Figures ELSE Seen(old).benches[t]]
    BY <1>4
  <2> QED
    BY ZenonT(40), <1>3, <1>4, <1>5, <1>8, <2>1 DEF Board!InsertBenchResult, NoReply
<1>9. ASSUME old.tests \in {"all", "zero"}, Seen(new) = [Seen(old) EXCEPT !.status = "complete"]
      PROVE  Board!Complete(k)
  BY <1>3, <1>4, <1>5, <1>9 DEF Board!Complete, NoReply
<1>10. ASSUME Seen(new) = [Seen(old) EXCEPT !.status = "failed"]
       PROVE  Board!Fail(k)
  BY <1>3, <1>5, <1>10 DEF Board!Fail, NoReply
<1> QED
  BY <1>2, <1>3, <1>6, <1>7, <1>8, <1>9, <1>10 DEF SeenEdit, Board!Write

\* Whoever runs the pipeline, crashes or fails, the submissions table and its
\* result tables are written as the leaderboard's specification assumes.
THEOREM PipelineWritesForLeaderboard == Spec => ImplementsLeaderboardWrites
<1>1. Init => Board!Init
  <2> SUFFICES ASSUME Init
               PROVE  LeaderboardRows = <<>>
    BY DEF Board!Init, NoReply
  <2> QED
    BY DEF Init, LeaderboardRows
<1>2. ASSUME RowsInv, [Next]_vars
      PROVE  [LeaderboardRows' # LeaderboardRows => Board!Write]_rows
  <2>1. CASE Quiet
    BY <2>1 DEF Quiet
  <2> QED
    BY <1>2, <2>1, StepForms, InsertIsWrite, EditIsWrite
<1> QED
  BY <1>1, <1>2, RowsInvHolds, PTL DEF Spec, ImplementsLeaderboardWrites

-----------------------------------------------------------------------------
(* Where the commits come from.                                            *)

\* The steps at which a run has a commit in hand.
Named == PipelineSteps \cup {"waiting", "lookup"}

\* The server and the poller.
Automatic == Tasks \cup Pollers

\* Every commit that a delivery names was pushed, and so was every one that the
\* server or the poller works on.
Pushed ==
  /\ \A h \in hooks : h.commit \in 1..head[h.branch]
  /\ \A r \in Automatic :
       /\ runs[r].pc \in Named => runs[r].commit \in 1..head[runs[r].team]
       /\ runs[r].row # 0 => rows[runs[r].row].pushed

\* What was checked out for a row was pushed, and is no older than the row's
\* commit if that was on the branch.
CurrentRow(row) ==
  /\ row.pushed => row.commit \in 1..head[row.team]
  /\ row.tree \in 0..head[row.team]
  /\ row.pushed /\ row.tree # 0 => row.tree >= row.commit

TreesCurrent == \A k \in DOMAIN rows : CurrentRow(rows[k])

\* With a secret, what the webhook accepts is a delivery of GitHub's.
LEMMA StraysRefused ==
  ASSUME SecretSet, NEW q \in Strays
  PROVE  ~ IsTeamPush(q)
<1>1. PICK t \in Teams :
        q \in {[Delivery(t, 1) EXCEPT !.event = "ping"], [Delivery(t, 1) EXCEPT !.branch = "main"],
               [Delivery(t, 1) EXCEPT !.branch = "stranger"], Delivery(t, 0),
               [Delivery(t, 1) EXCEPT !.signed = FALSE]}
  BY DEF Strays
<1>2. CASE q = [Delivery(t, 1) EXCEPT !.event = "ping"]
  BY <1>2 DEF IsTeamPush, Delivery
<1>3. CASE q = [Delivery(t, 1) EXCEPT !.branch = "main"]
  BY <1>3 DEF IsTeamPush, Delivery
<1>4. CASE q = [Delivery(t, 1) EXCEPT !.branch = "stranger"]
  BY <1>4, StrangerAssumption DEF IsTeamPush, Delivery
<1>5. CASE q = Delivery(t, 0)
  BY <1>5 DEF IsTeamPush, Delivery
<1>6. CASE q = [Delivery(t, 1) EXCEPT !.signed = FALSE]
  BY <1>6 DEF IsTeamPush, VerifySignature, Delivery
<1> QED
  BY <1>1, <1>2, <1>3, <1>4, <1>5, <1>6

\* Run q has its commit after the step from before, from the head of the branch,
\* or from a delivery.
CommitKnown(q) ==
  runs'[q].pc \in Named =>
    \/ runs[q].pc \in Named /\ runs'[q].team = runs[q].team /\ runs'[q].commit = runs[q].commit
    \/ runs'[q].commit = head[runs'[q].team] /\ runs'[q].commit # 0
    \/ \E h \in hooks : h.branch = runs'[q].team /\ h.commit = runs'[q].commit

\* One run moves, an operator's or knowing its commit.
LEMMA OneRunKnown ==
  ASSUME PipelineInv, NEW r \in Runners, NEW x, runs' = [runs EXCEPT ![r] = x],
         \/ r \in Operators
         \/ x.pc \notin Named
         \/ runs[r].pc \in Named /\ x.team = runs[r].team /\ x.commit = runs[r].commit
         \/ x.commit = head[x.team] /\ x.commit # 0
         \/ \E h \in hooks : h.branch = x.team /\ h.commit = x.commit
  PROVE  \A q \in Automatic : CommitKnown(q)
<1>1. runs \in [Runners -> Run]
  BY DEF PipelineInv, TypeOK, Run
<1>2. \A q \in Runners : runs'[q] = IF q = r THEN x ELSE runs[q]
  BY <1>1
<1>3. \A q \in Automatic : q \in Runners /\ q \notin Operators
  BY RunnersAssumption DEF Automatic, Runners, Processes
<1> QED
  BY <1>2, <1>3 DEF CommitKnown

\* A run that starts has no step, or starts on a commit.
LEMMA StartedOn ==
  ASSUME NEW pc, NEW team, NEW commit
  PROVE  /\ Started(pc, team, commit).pc = pc
         /\ Started(pc, team, commit).team = team
         /\ Started(pc, team, commit).commit = commit
<1> DEFINE y == [Off EXCEPT !.pc = pc]
           z == [y EXCEPT !.team = team]
<1>1. y = [pc |-> pc, team |-> None, commit |-> 0, row |-> 0, teamsLeft |-> {}, scenarios |-> {}]
  BY DEF Off
<1>2. Started(pc, team, commit) = [z EXCEPT !.commit = commit]
  BY DEF Started
<1> HIDE DEF y
<1>3. z = [pc |-> pc, team |-> team, commit |-> 0, row |-> 0, teamsLeft |-> {}, scenarios |-> {}]
  BY <1>1
<1> HIDE DEF z
<1> QED
  BY <1>2, <1>3

\* So it is with every step.
LEMMA CommitsKnown ==
  ASSUME RowsInv, SecretSet, [Next]_vars
  PROVE  \A q \in Automatic : CommitKnown(q)
<1>1. PipelineInv /\ runs \in [Runners -> Run]
  BY DEF RowsInv, PipelineInv, TypeOK, Run
<1>2. CASE runs' = runs
  BY <1>2 DEF CommitKnown
<1>3. CASE \E q \in hooks \cup Strays : \E task \in Tasks : AcceptHook(q, task)
  <2>1. PICK q \in hooks \cup Strays, task \in Tasks : AcceptHook(q, task)
    BY <1>3
  <2>2. q \in hooks
    BY <2>1, StraysRefused DEF AcceptHook
  <2> DEFINE x == Started("waiting", q.branch, q.commit)
  <2>3. runs' = [runs EXCEPT ![task] = x] /\ task \in Runners
    BY <2>1 DEF AcceptHook, Started, Runners
  <2>4. x.team = q.branch /\ x.commit = q.commit
    BY StartedOn
  <2> HIDE DEF x
  <2> QED
    BY <1>1, <2>2, <2>3, <2>4, OneRunKnown
<1>4. CASE \E task \in Tasks : TakeLock(task)
  <2>1. PICK task \in Tasks : TakeLock(task)
    BY <1>4
  <2> DEFINE x == [runs[task] EXCEPT !.pc = "insert"]
  <2>2. runs[task] \in Run /\ task \in Runners /\ runs[task].pc \in Named
    BY <1>1, <2>1 DEF Runners, TakeLock, Named
  <2>3. x.team = runs[task].team /\ x.commit = runs[task].commit
    BY <2>2 DEF Run
  <2>4. runs' = [runs EXCEPT ![task] = x]
    BY <2>1 DEF TakeLock
  <2> HIDE DEF x
  <2> QED
    BY <1>1, <2>2, <2>3, <2>4, OneRunKnown
<1>5. CASE \E p \in Pollers : StartPoll(p) \/ PollStep(p) \/ LookupFails(p)
  <2>1. PICK p \in Pollers : StartPoll(p) \/ PollStep(p) \/ LookupFails(p)
    BY <1>5
  <2>2. runs[p] \in Run /\ p \in Runners
    BY <1>1 DEF Runners, Processes
  <2>3. CASE StartPoll(p)
    <3> DEFINE y == [Off EXCEPT !.pc = "polling"]
               x == [y EXCEPT !.teamsLeft = Teams]
    <3>1. runs' = [runs EXCEPT ![p] = x]
      BY <2>3 DEF StartPoll
    <3>2. y \in Run /\ y.pc = "polling"
      BY OffTyped DEF Run, Pcs, Off
    <3> HIDE DEF y
    <3>3. x.pc \notin Named
      BY <3>2 DEF Run, Named, PipelineSteps
    <3> HIDE DEF x
    <3> QED
      BY <1>1, <2>2, <3>1, <3>3, OneRunKnown
  <2>4. CASE \E t \in Teams : LsRemote(p, t)
    <3>1. PICK t \in Teams : LsRemote(p, t)
      BY <2>4
    <3> DEFINE pc == IF head[t] = 0 THEN "polling" ELSE "lookup"
               w == [runs[p] EXCEPT !.teamsLeft = runs[p].teamsLeft \ {t}]
               y == [w EXCEPT !.team = t]
               z == [y EXCEPT !.commit = head[t]]
               x == [z EXCEPT !.pc = pc]
    <3>2. runs' = [runs EXCEPT ![p] = x]
      BY <3>1 DEF LsRemote
    <3>3. w \in Run
      BY <2>2 DEF Run
    <3> HIDE DEF w
    <3>4. y \in Run /\ y.team = t
      BY <3>3 DEF Run
    <3> HIDE DEF y
    <3>5. head[t] \in 0..MaxPushes
      BY <1>1 DEF PipelineInv, TypeOK
    <3>6. z \in Run /\ z.team = t /\ z.commit = head[t]
      BY <3>4, <3>5 DEF Run
    <3> HIDE DEF z
    <3>7. x.team = t /\ x.commit = head[t] /\ x.pc = pc
      BY <3>6 DEF Run
    <3>8. x.pc \notin Named \/ x.commit # 0
      BY <3>7 DEF Named, PipelineSteps
    <3> HIDE DEF x
    <3> QED
      BY <1>1, <2>2, <3>2, <3>7, <3>8, OneRunKnown
  <2>5. CASE Lookup(p) \/ LookupFails(p)
    <3>1. PICK pc \in {"polling", "insert"} : runs' = [runs EXCEPT ![p].pc = pc]
      BY <2>5 DEF Lookup, LookupFails
    <3> DEFINE x == [runs[p] EXCEPT !.pc = pc]
    <3>2. x.team = runs[p].team /\ x.commit = runs[p].commit /\ runs[p].pc \in Named
      BY <2>2, <2>5 DEF Run, Lookup, LookupFails, Named
    <3>3. runs' = [runs EXCEPT ![p] = x]
      BY <3>1
    <3> HIDE DEF x
    <3> QED
      BY <1>1, <2>2, <3>2, <3>3, OneRunKnown
  <2>6. CASE EndPoll(p)
    <3>1. Off.pc \notin Named
      BY DEF Off, Named, PipelineSteps
    <3> QED
      BY <1>1, <2>2, <2>6, <3>1, OneRunKnown DEF EndPoll
  <2> QED
    BY <2>1, <2>3, <2>4, <2>5, <2>6 DEF PollStep
<1>6. CASE \E o \in Operators, t \in Teams, c \in 0..MaxPushes : RunManually(o, t, c)
  <2>1. PICK o \in Operators, t \in Teams, c \in 0..MaxPushes : RunManually(o, t, c)
    BY <1>6
  <2> DEFINE x == Started("insert", t, c)
  <2>2. runs' = [runs EXCEPT ![o] = x] /\ o \in Runners
    BY <2>1 DEF RunManually, Started, Runners, Processes
  <2> HIDE DEF x
  <2> QED
    BY <1>1, <2>2, OneRunKnown
<1>7. CASE \E p \in Processes : CrashProcess(p)
  <2>1. PICK p \in Processes : CrashProcess(p)
    BY <1>7
  <2>2. Ended(p).pc \notin Named
    BY DEF Ended, Off, Named, PipelineSteps
  <2> QED
    BY <1>1, <2>1, <2>2, OneRunKnown DEF CrashProcess, Runners
<1>8. CASE CrashServer
  <2>1. Off.pc \notin Named
    BY DEF Off, Named, PipelineSteps
  <2>2. \A q \in Runners : runs'[q] = IF q \in Tasks THEN Off ELSE runs[q]
    BY <1>8 DEF CrashServer
  <2> QED
    BY <2>1, <2>2 DEF CommitKnown, Automatic, Runners, Processes
<1>9. ASSUME NEW r \in Runners, RunStep(r) \/ WriteFails(r) \/ WriteFailsOutside(r)
      PROVE  \A q \in Automatic : CommitKnown(q)
  <2>1. runs[r].pc \in PipelineSteps
    BY <1>9, InsideSteps
  <2>2. CASE runs[r].pc # "insert"
    <3>1. PICK x, new : Writes(r, x, new)
      BY <1>9, <2>2, RunWrites
    <3>2. RowAt(runs[r], rows[runs[r].row])
      BY <2>1, <2>2, AtWork
    <3>3. x.pc \notin Named \/ (x.team = runs[r].team /\ x.commit = runs[r].commit)
      BY <3>1, <3>2 DEF Writes, RowAt, Advances, Named
    <3>4. runs' = [runs EXCEPT ![r] = x]
      BY <3>1 DEF Writes
    <3> QED
      BY <1>1, <2>1, <3>3, <3>4, OneRunKnown DEF Named
  <2>3. CASE runs[r].pc = "insert"
    <3>1. InsertSubmission(r) \/ WriteFailsOutside(r)
      BY <1>9, <2>3, InsideSteps
    <3>2. CASE InsertSubmission(r)
      <4>1. PICK row, x :
              /\ runs' = [runs EXCEPT ![r] = x] /\ RowAt(x, row)
              /\ row.team = runs[r].team /\ row.commit = runs[r].commit
        BY <3>2, Inserts
      <4> QED
        BY <1>1, <2>1, <4>1, OneRunKnown DEF RowAt, Named
    <3>3. CASE WriteFailsOutside(r)
      <4>1. Ended(r).pc \notin Named
        BY DEF Ended, Off, Named, PipelineSteps
      <4> QED
        BY <1>1, <3>3, <4>1, OneRunKnown DEF WriteFailsOutside, Leave
    <3> QED
      BY <3>1, <3>2, <3>3
  <2> QED
    BY <2>2, <2>3
<1>10. CASE \/ UNCHANGED vars
            \/ \E t \in Teams : Push(t) \/ WindowPasses(t)
            \/ \E h \in hooks : LoseHook(h)
            \/ \E q \in hooks \cup Strays : RefuseHook(q)
  BY <1>2, <1>10 DEF vars, Push, WindowPasses, LoseHook, RefuseHook
<1> QED
  BY <1>3, <1>4, <1>5, <1>6, <1>7, <1>8, <1>9, <1>10 DEF Next

\* Branches only grow, and GitHub delivers what was pushed.
LEMMA HeadGrows ==
  ASSUME PipelineInv, [Next]_vars
  PROVE  /\ \A t \in Teams : head[t] <= head'[t]
         /\ \A h \in hooks' : h \in hooks \/ (h.branch \in Teams /\ h.commit = head'[h.branch])
<1>1. head \in [Teams -> 0..MaxPushes]
  BY DEF PipelineInv, TypeOK
<1>2. CASE \E t \in Teams : Push(t)
  <2>1. PICK t \in Teams : Push(t)
    BY <1>2
  <2>2. \A u \in Teams : head'[u] = IF u = t THEN head[u] + 1 ELSE head[u]
    BY <1>1, <2>1 DEF Push
  <2>3. \A u \in Teams : head[u] <= head'[u]
    BY <1>1, <2>2
  <2>4. Delivery(t, head[t] + 1).branch = t /\ Delivery(t, head[t] + 1).commit = head[t] + 1
    BY DEF Delivery
  <2>5. hooks' = hooks \cup {Delivery(t, head[t] + 1)}
    BY <2>1 DEF Push
  <2> QED
    BY <2>2, <2>3, <2>4, <2>5
<1>3. CASE ~ \E t \in Teams : Push(t)
  <2>1. head' = head /\ hooks' \subseteq hooks
    BY ZenonT(40), <1>3 DEF Next, vars, WindowPasses, LoseHook, RefuseHook, AcceptHook, TakeLock, StartPoll,
                PollStep, LsRemote, Lookup, EndPoll, LookupFails, RunManually, CrashProcess,
                RunStep, InsertSubmission, StartBuilding, CloneRepo, DockerBuild, StartTesting,
                DockerTest, StopEarly, StartBenchmark, DockerBench, RecordBench, Complete,
                CommandRaises, MarkFailed, WriteFails, WriteFailsOutside, CrashServer, Outside
  <2>2. \A t \in Teams : head[t] <= head[t]
    BY <1>1
  <2> QED
    BY <2>1, <2>2
<1> QED
  BY <1>2, <1>3

\* Commits and trees are numbers.
LEMMA CommitsTyped ==
  ASSUME PipelineInv
  PROVE  /\ head \in [Teams -> 0..MaxPushes] /\ MaxPushes \in Nat
         /\ \A h \in hooks : h.branch \in Teams /\ h.commit \in Commits
         /\ \A q \in Runners : runs[q].commit \in Nat /\ (runs[q].pc \in Named => runs[q].team \in Teams)
         /\ \A k \in DOMAIN rows :
              rows[k].team \in Teams /\ rows[k].commit \in Nat /\ rows[k].tree \in Nat
<1>1. /\ head \in [Teams -> 0..MaxPushes] /\ MaxPushes \in Nat
      /\ runs \in [Runners -> Run] /\ rows \in Seq(Rows) /\ Assigned
      /\ hooks \subseteq {Delivery(t, c) : t \in Teams, c \in Commits}
  BY BoundsAssumption DEF PipelineInv, TypeOK, Run
<1>2. \A h \in hooks : h.branch \in Teams /\ h.commit \in Commits
  BY <1>1 DEF Delivery
<1>3. ASSUME NEW q \in Runners
      PROVE  runs[q].commit \in Nat /\ (runs[q].pc \in Named => runs[q].team \in Teams)
  <2>1. runs[q] \in Run /\ WorksOn(runs[q], DOMAIN rows)
    BY <1>1 DEF Assigned
  <2> QED
    BY <1>1, <2>1 DEF Run, WorksOn, Named
<1>4. ASSUME NEW k \in DOMAIN rows
      PROVE  rows[k].team \in Teams /\ rows[k].commit \in Nat /\ rows[k].tree \in Nat
  <2>1. rows[k] \in Rows
    BY <1>1, ElementOfSeq, LenProperties
  <2> QED
    BY <1>1, <2>1 DEF Rows
<1> QED
  BY <1>1, <1>2, <1>3, <1>4

\* No step brings the server or the poller a commit that was not pushed.
LEMMA StepKeepsPushed ==
  ASSUME RowsInv, Pushed, SecretSet, [Next]_vars
  PROVE  Pushed'
<1>1. PipelineInv /\ PipelineInv'
  BY StepKeepsInv DEF RowsInv
<1>2. /\ \A t \in Teams : head[t] <= head'[t]
      /\ \A h \in hooks' : h \in hooks \/ (h.branch \in Teams /\ h.commit = head'[h.branch])
  BY <1>1, HeadGrows
<1>3. /\ head \in [Teams -> 0..MaxPushes] /\ MaxPushes \in Nat
      /\ \A h \in hooks : h.branch \in Teams /\ h.commit \in Commits
      /\ \A q \in Runners : runs[q].commit \in Nat /\ (runs[q].pc \in Named => runs[q].team \in Teams)
  BY <1>1, CommitsTyped
<1>4. /\ head' \in [Teams -> 0..MaxPushes]
      /\ \A q \in Runners : runs'[q].pc \in Named => runs'[q].team \in Teams
      /\ \A h \in hooks' : h.branch \in Teams /\ h.commit \in Commits
  <2>1. hooks' \subseteq {Delivery(t, c) : t \in Teams, c \in Commits}
    BY <1>1 DEF PipelineInv, TypeOK
  <2>2. \A h \in hooks' : h.branch \in Teams /\ h.commit \in Commits
    BY <2>1 DEF Delivery
  <2> QED
    BY <1>1, <2>2 DEF PipelineInv, TypeOK, Assigned, WorksOn, Named
<1>5. \A h \in hooks' : h.commit \in 1..head'[h.branch]
  BY <1>2, <1>3, <1>4 DEF Pushed, Commits
<1>6. \A q \in Automatic : q \in Runners /\ q \notin Operators
  BY RunnersAssumption DEF Automatic, Runners, Processes
<1>7. ASSUME NEW q \in Automatic, runs'[q].pc \in Named
      PROVE  runs'[q].commit \in 1..head'[runs'[q].team]
  <2>1. CommitKnown(q)
    BY CommitsKnown
  <2>2. runs'[q].team \in Teams
    BY <1>4, <1>6, <1>7
  <2>3. runs'[q].commit \in 1..head[runs'[q].team]
    BY <1>3, <1>7, <2>1, <2>2 DEF CommitKnown, Pushed
  <2> QED
    BY <1>2, <1>3, <1>4, <2>2, <2>3
<1>8. ASSUME NEW q \in Automatic, runs'[q].row # 0
      PROVE  rows'[runs'[q].row].pushed
  <2>1. ASSUME NEW r \in Runners, InsertSubmission(r)
        PROVE  rows'[runs'[q].row].pushed
    <3>1. PICK row, x :
            /\ runs' = [runs EXCEPT ![r] = x] /\ x.row = Len(rows) + 1
            /\ rows'[Len(rows) + 1] = row /\ \A k \in DOMAIN rows : rows'[k] = rows[k]
            /\ row.team = runs[r].team /\ row.commit = runs[r].commit
            /\ (row.pushed <=> row.commit \in 1..head[row.team])
      BY <2>1, Inserts
    <3>2. runs'[q] = IF q = r THEN x ELSE runs[q]
      BY <1>6, <3>1, RowsAre
    <3>3. CASE q = r
      <4>1. runs[r].pc \in Named
        BY <2>1 DEF InsertSubmission, AtStep, Named, PipelineSteps
      <4>2. row.pushed
        BY <3>1, <3>3, <4>1 DEF Pushed
      <4> QED
        BY <3>1, <3>2, <3>3, <4>2
    <3>4. CASE q # r
      BY <1>1, <1>6, <1>8, <3>1, <3>2, <3>4, RowsKnown DEF Pushed
    <3> QED
      BY <3>3, <3>4
  <2>2. ASSUME NEW r \in Runners, runs[r].pc \in PipelineSteps \ {"insert"},
               NEW x, NEW new, Writes(r, x, new)
        PROVE  rows'[runs'[q].row].pushed
    <3>1. /\ rows'[runs[r].row] = new
          /\ \A k \in DOMAIN rows : k # runs[r].row => rows'[k] = rows[k]
          /\ runs'[r] = x /\ \A p \in Runners : p # r => runs'[p] = runs[p]
      BY <2>2, Edits
    <3>2. x.row \in {0, runs[r].row} /\ new.pushed = rows[runs[r].row].pushed
      BY <2>2 DEF Writes, Advances
    <3>3. runs'[q].row = runs[q].row
      BY <1>6, <1>8, <3>1, <3>2
    <3>4. runs[q].row \in DOMAIN rows /\ rows[runs[q].row].pushed
      BY <1>1, <1>6, <1>8, <3>3, RowsKnown DEF Pushed
    <3> QED
      BY <3>1, <3>2, <3>3, <3>4
  <2>3. CASE Quiet
    <3>1. runs'[q] = runs[q] \/ runs'[q].row = 0
      BY <1>1, <1>6, <2>3 DEF Quiet, PipelineInv, Assigned, WorksOn
    <3> QED
      BY <1>8, <2>3, <3>1 DEF Quiet, Pushed
  <2> QED
    BY <2>1, <2>2, <2>3, StepForms
<1> QED
  BY <1>5, <1>7, <1>8 DEF Pushed

\* Branches grow, and their heads are what is checked out.
LEMMA StepKeepsTrees ==
  ASSUME RowsInv, TreesCurrent, [Next]_vars
  PROVE  TreesCurrent'
<1>1. PipelineInv
  BY DEF RowsInv
<1>2. \A t \in Teams : head[t] <= head'[t]
  BY <1>1, HeadGrows
<1>3. /\ head \in [Teams -> 0..MaxPushes] /\ MaxPushes \in Nat
      /\ \A k \in DOMAIN rows :
           rows[k].team \in Teams /\ rows[k].commit \in Nat /\ rows[k].tree \in Nat
  BY <1>1, CommitsTyped
<1>4. head' \in [Teams -> 0..MaxPushes]
  BY StepKeepsInv DEF RowsInv, PipelineInv, TypeOK
<1> DEFINE Current(k) ==
      /\ rows'[k].pushed => rows'[k].commit \in 1..head'[rows'[k].team]
      /\ rows'[k].tree \in 0..head'[rows'[k].team]
      /\ rows'[k].pushed /\ rows'[k].tree # 0 => rows'[k].tree >= rows'[k].commit
<1>5. \A k \in DOMAIN rows : k \in DOMAIN rows' /\ rows'[k] = rows[k] => Current(k)
  BY <1>2, <1>3, <1>4 DEF TreesCurrent, CurrentRow
<1>6. \A k \in DOMAIN rows' : Current(k)
  <2>1. ASSUME NEW r \in Runners, InsertSubmission(r)
        PROVE  \A k \in DOMAIN rows' : Current(k)
    <3>1. PICK row :
            /\ DOMAIN rows' = DOMAIN rows \cup {Len(rows) + 1}
            /\ rows'[Len(rows) + 1] = row /\ \A k \in DOMAIN rows : rows'[k] = rows[k]
            /\ row.tree = 0 /\ row.team \in Teams
            /\ (row.pushed <=> row.commit \in 1..head[row.team])
            /\ head' = head
      BY <2>1, Inserts
    <3>2. Current(Len(rows) + 1)
      BY <1>3, <3>1
    <3> QED
      BY <1>5, <3>1, <3>2
  <2>2. ASSUME NEW r \in Runners, runs[r].pc \in PipelineSteps \ {"insert"},
               NEW x, NEW new, Writes(r, x, new)
        PROVE  \A k \in DOMAIN rows' : Current(k)
    <3> DEFINE old == rows[runs[r].row]
    <3>1. /\ runs[r].row \in DOMAIN rows /\ DOMAIN rows' = DOMAIN rows
          /\ rows'[runs[r].row] = new
          /\ \A k \in DOMAIN rows : k # runs[r].row => rows'[k] = rows[k]
      BY <2>2, Edits
    <3>2. /\ head' = head /\ new.team = old.team /\ new.commit = old.commit
          /\ new.pushed = old.pushed
          /\ new.tree \in {old.tree, head[runs[r].team]} /\ old.team = runs[r].team
      BY <2>2, AtWork DEF Writes, Advances, RowAt
    <3>3. Current(runs[r].row)
      <4>1. /\ old.team \in Teams /\ old.commit \in Nat /\ CurrentRow(old)
            /\ head[old.team] \in Nat
        BY <1>3, <3>1 DEF TreesCurrent
      <4> HIDE DEF old
      <4> QED
        BY <3>1, <3>2, <4>1 DEF CurrentRow
    <3> QED
      BY <1>5, <3>1, <3>3
  <2>3. CASE Quiet
    BY <1>5, <2>3 DEF Quiet
  <2> QED
    BY <2>1, <2>2, <2>3, StepForms
<1> QED
  BY <1>6 DEF TreesCurrent, CurrentRow

\* At the start nothing was pushed.
LEMMA InitHasPushed == Init => Pushed /\ TreesCurrent
<1> SUFFICES ASSUME Init
             PROVE  Pushed /\ TreesCurrent
  OBVIOUS
<1>1. hooks = {} /\ DOMAIN rows = {} /\ \A r \in Runners : runs[r].pc \notin Named /\ runs[r].row = 0
  BY DEF Init, Off, Named, PipelineSteps
<1> QED
  BY <1>1 DEF Pushed, TreesCurrent, Automatic, Runners, Processes

\* With a webhook secret, the server and the poller submit only commits that were
\* pushed to their team's branch; and whoever submits, a manual run of a commit that
\* was never pushed included, what is built was.
THEOREM SubmissionsPushed ==
  ASSUME SecretSet
  PROVE  Spec => []SubmissionsWerePushed
<1>1. Init => RowsInv /\ Pushed /\ TreesCurrent
  BY InitHasRows, InitHasPushed
<1>2. ASSUME RowsInv, Pushed, TreesCurrent, [Next]_vars
      PROVE  RowsInv' /\ Pushed' /\ TreesCurrent'
  BY <1>2, StepKeepsRows, StepKeepsPushed, StepKeepsTrees
<1>3. ASSUME RowsInv, Pushed, TreesCurrent
      PROVE  SubmissionsWerePushed
  <2>1. ASSUME NEW k \in DOMAIN rows, rows[k].built # "none"
        PROVE  rows[k].tree \in 1..head[rows[k].team]
    <3>1. rows[k].tree # 0 /\ rows[k].tree \in 0..head[rows[k].team]
      BY <1>3, <2>1 DEF RowsInv, RowOk, TreesCurrent, CurrentRow
    <3> QED
      BY <3>1
  <2> QED
    BY <1>3, <2>1 DEF SubmissionsWerePushed, Pushed, Automatic
<1> QED
  BY <1>1, <1>2, <1>3, PTL DEF Spec

LEMMA TreesAreCurrent == TreesCurrent => TestedIsCurrent
BY DEF TreesCurrent, CurrentRow, TestedIsCurrent

\* What is tested is never older than the commit the row names, if that was on the
\* branch when the row was inserted, although the head is checked out.
THEOREM TestedCommitsAreCurrent == Spec => []TestedIsCurrent
<1>1. Init => RowsInv /\ TreesCurrent
  BY InitHasRows, InitHasPushed
<1>2. ASSUME RowsInv, TreesCurrent, [Next]_vars
      PROVE  RowsInv' /\ TreesCurrent'
  BY <1>2, StepKeepsRows, StepKeepsTrees
<1> QED
  BY <1>1, <1>2, TreesAreCurrent, PTL DEF Spec

\* A request costs a team its window only if it starts a run for that team.
THEOREM WindowsOpenForRuns == Spec => WindowOnlyForRuns
<1>1. ASSUME PipelineInv, [Next]_vars
      PROVE  [\A t \in limited' \ limited :
                \E task \in Tasks :
                  runs[task].pc = "off" /\ runs'[task].pc = "waiting" /\ runs'[task].team = t]_vars
  <2>1. CASE \E q \in hooks \cup Strays : \E task \in Tasks : AcceptHook(q, task)
    <3>1. PICK q \in hooks \cup Strays, task \in Tasks : AcceptHook(q, task)
      BY <2>1
    <3>2. runs \in [Runners -> Run] /\ task \in Runners
      BY <1>1 DEF PipelineInv, TypeOK, Run, Runners
    <3> DEFINE x == Started("waiting", q.branch, q.commit)
    <3>3. runs'[task] = x
      BY <3>1, <3>2 DEF AcceptHook, Started
    <3>4. x.pc = "waiting" /\ x.team = q.branch
      BY StartedOn
    <3> HIDE DEF x
    <3> QED
      BY <3>1, <3>3, <3>4 DEF AcceptHook
  <2>2. CASE ~ \E q \in hooks \cup Strays : \E task \in Tasks : AcceptHook(q, task)
    <3>1. limited' \subseteq limited
      BY ZenonT(40), <1>1, <2>2
         DEF Next, vars, Push, WindowPasses, LoseHook, RefuseHook, TakeLock, StartPoll,
             PollStep, LsRemote, Lookup, EndPoll, LookupFails, RunManually, CrashProcess,
             RunStep, InsertSubmission, StartBuilding, CloneRepo, DockerBuild, StartTesting,
             DockerTest, StopEarly, StartBenchmark, DockerBench, RecordBench, Complete,
             CommandRaises, MarkFailed, WriteFails, WriteFailsOutside, CrashServer, Outside
    <3> QED
      BY <3>1
  <2> QED
    BY <2>1, <2>2
<1> QED
  BY <1>1, PipelineInvHolds, PTL DEF Spec, WindowOnlyForRuns

-----------------------------------------------------------------------------
(* The status report of a team.  The report is compared with the row it is *)
(* about as that row is now: the results a row has stay (Advances), so     *)
(* what the report's status implied when it was read is still there for    *)
(* the SELECTs after it; and a row of a server's task stays as it is while *)
(* the report is put together.                                             *)

Reports == [phase : {"build", "tests", "benchmarks", "sent", "lost"}, row : Nat,
            status : Statuses, built : {"none", "ok", "broken"}, tests : TestResults,
            benches : SUBSET Scenarios]

\* What the report's status implies is in the row, and, from the phase after its
\* SELECT on, in the report.
Implied(rep, row) ==
  /\ Order(rep.status) <= Order(row.status)
  /\ rep.status \in {"testing", "benchmarking", "complete"} =>
       /\ row.built = "ok"
       /\ rep.phase \in {"tests", "benchmarks", "sent"} => rep.built = "ok"
  /\ rep.status \in {"benchmarking", "complete"} =>
       /\ row.tests \in {"all", "zero"}
       /\ rep.phase \in {"benchmarks", "sent"} => rep.tests \in {"all", "zero"}
  /\ rep.status = "complete" =>
       /\ row.benches = row.report
       /\ rep.phase = "sent" => rep.benches = row.report

\* The report shows the row as it is, as far as it has been read.
Mirrors(rep, row) ==
  /\ rep.phase \in {"build", "tests", "benchmarks"} => rep.status = row.status
  /\ rep.phase \in {"tests", "benchmarks"} => rep.built = row.built
  /\ rep.phase = "benchmarks" => rep.tests = row.tests

\* Nothing in the report that was sent is ahead of its status.
Together(rep) ==
  rep.phase = "sent" =>
    /\ rep.built # "none" => rep.status # "queued"
    /\ rep.tests # "none" => rep.built = "ok" /\ rep.status \notin {"queued", "building"}
    /\ rep.benches # {} =>
         rep.tests # "none" /\ rep.status \notin {"queued", "building", "testing"}

ReportHolds(rep, row, by) ==
  /\ Implied(rep, row)
  /\ by \in Tasks => Mirrors(rep, row) /\ Together(rep)

\* Every row has its time, and the run that still has it inserted it.
Stamped ==
  /\ submitted \in Seq({submitted[k] : k \in DOMAIN submitted})
  /\ Len(submitted) = Len(rows)
  /\ \A r \in Runners : runs[r].row # 0 => submitted[runs[r].row].by = r

ReportInv ==
  \/ report = [phase |-> "none"]
  \/ /\ report \in Reports
     /\ report.row \in DOMAIN rows
     /\ ReportHolds(report, rows[report.row], submitted[report.row].by)

StatusInv == RowsInv /\ Stamped /\ ReportInv

-----------------------------------------------------------------------------
(* The steps of the pipelines.                                             *)

\* A step of the composed system is one of the pipelines, or leaves them alone.
LEMMA StatusStep == [StatusNext]_statusVars => [Next]_vars
<1>1. ASSUME NEW r \in Runners, Insert(r)
      PROVE  Next
  BY <1>1 DEF Insert, RunStep, Next
<1> QED
  BY <1>1 DEF StatusNext, statusVars, vars, ReadClock, OtherStep, Query

\* The same while status reports are put together, whatever the server has to
\* leave undone for them: a step of the composition is one of the pipeline.
THEOREM ReportedCommitsAreCurrent == StatusSpec => []TestedIsCurrent
<1>1. StatusInit => RowsInv /\ TreesCurrent
  BY InitHasRows, InitHasPushed DEF StatusInit
<1>2. ASSUME RowsInv, TreesCurrent, [StatusNext]_statusVars
      PROVE  RowsInv' /\ TreesCurrent'
  BY <1>2, StatusStep, StepKeepsRows, StepKeepsTrees
<1> QED
  BY <1>1, <1>2, TreesAreCurrent, PTL DEF StatusSpec

\* A step that inserts nothing leaves a row alone or moves it forward; while a
\* report is put together it leaves the rows of the server's tasks alone.
LEMMA RowsGoOn ==
  ASSUME RowsInv, Stamped, OtherStep, ServerWaits
  PROVE  /\ DOMAIN rows' = DOMAIN rows
         /\ \A k \in DOMAIN rows :
              \/ rows'[k] = rows[k]
              \/ /\ Advances(rows[k], rows'[k])
                 /\ Assembling => submitted[k].by \notin Tasks
         /\ \A r \in Runners : runs'[r].row \in {0, runs[r].row}
<1>1. [Next]_vars /\ Len(rows') = Len(rows)
  BY DEF OtherStep
<1>2. ASSUME NEW r \in Runners, InsertSubmission(r)
      PROVE  FALSE
  <2>1. /\ DOMAIN rows' = DOMAIN rows \cup {Len(rows) + 1}
        /\ Len(rows) + 1 \notin DOMAIN rows
    BY <1>2, Inserts
  <2>2. \E row : rows' = Append(rows, row)
    BY <1>2, Inserts
  <2>3. Len(rows') = Len(rows) + 1 /\ Len(rows) \in Nat
    BY <2>2, RowsAre
  <2> QED
    BY <1>1, <2>3
<1>3. CASE Quiet
  <2>1. PipelineInv'
    BY <1>1, StepKeepsRows DEF RowsInv
  <2>2. \A r \in Runners : runs'[r] = runs[r] \/ runs'[r].row = 0
    BY <1>3, <2>1 DEF Quiet, PipelineInv, Assigned, WorksOn
  <2> QED
    BY <1>3, <2>2 DEF Quiet
<1>4. ASSUME NEW r \in Runners, runs[r].pc \in PipelineSteps \ {"insert"},
             NEW x, NEW new, Writes(r, x, new)
      PROVE  /\ DOMAIN rows' = DOMAIN rows
             /\ \A k \in DOMAIN rows :
                  \/ rows'[k] = rows[k]
                  \/ /\ Advances(rows[k], rows'[k])
                     /\ Assembling => submitted[k].by \notin Tasks
             /\ \A q \in Runners : runs'[q].row \in {0, runs[q].row}
  <2>1. /\ runs[r].row \in DOMAIN rows /\ DOMAIN rows' = DOMAIN rows
        /\ rows'[runs[r].row] = new
        /\ \A k \in DOMAIN rows : k # runs[r].row => rows'[k] = rows[k]
        /\ runs'[r] = x /\ \A q \in Runners : q # r => runs'[q] = runs[q]
    BY <1>4, Edits
  <2>2. x.row \in {0, runs[r].row} /\ Advances(rows[runs[r].row], new)
    BY <1>4 DEF Writes
  <2>3. ASSUME Assembling, rows' # rows
        PROVE  submitted[runs[r].row].by \notin Tasks
    <3>1. PICK p \in Processes : runs'[p] # runs[p]
      BY <2>3 DEF ServerWaits
    <3>2. p = r
      BY <2>1, <3>1 DEF Runners
    <3>3. runs[r].row # 0
      BY <2>1, RowsAre
    <3>4. submitted[runs[r].row].by = r
      BY <3>3 DEF Stamped
    <3> QED
      BY <3>2, <3>4, RunnersAssumption DEF Processes
  <2> QED
    BY <2>1, <2>2, <2>3
<1> QED
  BY <1>1, <1>2, <1>3, <1>4, StepForms

LEMMA StampsKept ==
  ASSUME RowsInv, Stamped, [StatusNext]_statusVars
  PROVE  /\ Stamped'
         /\ \A k \in DOMAIN rows : submitted'[k] = submitted[k]
<1>1. DOMAIN submitted = DOMAIN rows /\ DOMAIN rows = 1..Len(rows) /\ Len(rows) \in Nat
  BY RowsAre, LenProperties DEF Stamped
<1>2. CASE UNCHANGED <<vars, submitted>>
  BY <1>2 DEF Stamped, vars
<1>3. CASE OtherStep /\ ServerWaits
  BY <1>3, RowsGoOn DEF Stamped, OtherStep
<1>4. ASSUME NEW r \in Runners, Insert(r)
      PROVE  Stamped' /\ \A k \in DOMAIN rows : submitted'[k] = submitted[k]
  <2> DEFINE stamp == [at |-> taken[r], by |-> r]
             some == {submitted[k] : k \in DOMAIN submitted}
  <2>1. submitted' = Append(submitted, stamp) /\ InsertSubmission(r) /\ stamp.by = r
    BY <1>4 DEF Insert
  <2> HIDE DEF stamp
  <2>2. PICK x, row : 
          /\ rows' = Append(rows, row) /\ runs' = [runs EXCEPT ![r] = x]
          /\ x.row = Len(rows) + 1
    BY <2>1, Inserts
  <2>3. \A q \in Runners : runs'[q] = IF q = r THEN x ELSE runs[q]
    BY <2>2, RowsAre
  <2>4. submitted \in Seq(some) /\ Len(submitted) = Len(rows)
    BY DEF Stamped
  <2> HIDE DEF some
  <2>5. submitted \in Seq(some \cup {stamp})
    <3>1. \A k \in 1..Len(submitted) : submitted[k] \in some
      BY <2>4, ElementOfSeq
    <3>2. submitted = [k \in 1..Len(submitted) |-> submitted[k]] /\ Len(submitted) \in Nat
      BY <2>4
    <3> QED
      BY <3>1, <3>2, IsASeq
  <2>6. /\ submitted' \in Seq(some \cup {stamp})
        /\ Len(submitted') = Len(submitted) + 1
        /\ \A k \in 1..Len(submitted) : submitted'[k] = submitted[k]
        /\ submitted'[Len(submitted) + 1] = stamp
    BY <2>1, <2>5, AppendProperties
  <2>7. Len(rows') = Len(rows) + 1
    BY <2>2, RowsAre
  <2>8. submitted' \in Seq({submitted'[k] : k \in DOMAIN submitted'})
    <3> DEFINE s == submitted'
               all == {s[k] : k \in DOMAIN s}
    <3>1. /\ s = [k \in 1..Len(s) |-> s[k]] /\ Len(s) \in Nat
          /\ \A k \in 1..Len(s) : s[k] \in all
      <4> HIDE DEF s
      <4>1. s \in Seq(some \cup {stamp})
        BY <2>6 DEF s
      <4> QED
        BY <4>1
    <3> HIDE DEF s, all
    <3>2. s \in Seq(all)
      BY <3>1, IsASeq
    <3> QED
      BY <3>2 DEF s, all
  <2>9. ASSUME NEW q \in Runners, runs'[q].row # 0
        PROVE  submitted'[runs'[q].row].by = q
    <3>1. CASE q = r
      BY <2>1, <2>2, <2>3, <2>4, <2>6, <3>1
    <3>2. CASE q # r
      <4>1. runs'[q] = runs[q] /\ runs[q].row \in DOMAIN rows
        BY <2>3, <2>9, <3>2, RowsKnown DEF RowsInv
      <4> QED
        BY <1>1, <2>4, <2>6, <2>9, <4>1 DEF Stamped
    <3> QED
      BY <3>1, <3>2
  <2> QED
    BY <1>1, <2>4, <2>6, <2>7, <2>8, <2>9 DEF Stamped
<1> QED
  BY <1>2, <1>3, <1>4 DEF StatusNext, statusVars, vars, ReadClock, Query

-----------------------------------------------------------------------------
(* The report.                                                             *)

\* What a report holds is not lost when its row moves forward.
LEMMA ForwardKeepsHold ==
  ASSUME NEW rep \in Reports, NEW by, NEW old \in Rows, NEW new \in Rows,
         ReportHolds(rep, old, by),
         \/ new = old
         \/ /\ Advances(old, new)
            /\ rep.phase \in {"build", "tests", "benchmarks"} => by \notin Tasks
  PROVE  ReportHolds(rep, new, by)
<1>1. CASE new = old
  BY <1>1
<1>2. CASE Advances(old, new) /\ (rep.phase \in {"build", "tests", "benchmarks"} => by \notin Tasks)
  <2>1. Order(rep.status) <= Order(new.status)
    BY <1>2, OrderValues DEF ReportHolds, Implied, Advances, Reports, Rows, Statuses
  <2>2. rep.status # "complete"
    BY <1>2, OrderValues DEF ReportHolds, Implied, Advances, Rows, Statuses, Terminal
  <2>3. Implied(rep, new)
    BY <1>2, <2>1, <2>2 DEF ReportHolds, Implied, Advances, Rows
  <2>4. by \in Tasks => Mirrors(rep, new) /\ Together(rep)
    BY <1>2 DEF ReportHolds, Mirrors
  <2> QED
    BY <2>3, <2>4 DEF ReportHolds
<1> QED
  BY <1>1, <1>2

\* Nor when the server takes it down.
LEMMA LostHolds ==
  ASSUME NEW rep \in Reports, NEW by, NEW row, ReportHolds(rep, row, by)
  PROVE  LET lost == [rep EXCEPT !.phase = "lost"]
         IN  lost \in Reports /\ lost.row = rep.row /\ ReportHolds(lost, row, by)
<1> DEFINE lost == [rep EXCEPT !.phase = "lost"]
<1>1. /\ lost \in Reports /\ lost.phase = "lost" /\ lost.row = rep.row
      /\ lost.status = rep.status
  BY DEF Reports
<1> HIDE DEF lost
<1>2. ReportHolds(lost, row, by)
  BY <1>1 DEF ReportHolds, Implied, Mirrors, Together
<1> QED
  BY <1>1, <1>2 DEF lost

\* The first SELECT.
LEMMA SubmissionHolds ==
  ASSUME StatusInv, NEW t \in Teams, QuerySubmission(t), rows' = rows, submitted' = submitted
  PROVE  ReportInv'
<1>1. PICK k \in Latest(t) :
        report' = [phase |-> "build", row |-> k, status |-> rows[k].status,
                   built |-> "none", tests |-> "none", benches |-> {}]
  BY DEF QuerySubmission
<1>2. k \in DOMAIN rows /\ k \in Nat /\ rows[k] \in Rows /\ RowOk(rows[k])
  BY RowsAre DEF StatusInv, Latest
<1>3. report' \in Reports
  BY <1>1, <1>2 DEF Reports, Rows, TestResults
<1>4. /\ report'.phase = "build" /\ report'.row = k /\ report'.status = rows[k].status
  BY <1>1
<1>5. Order(rows[k].status) <= Order(rows[k].status)
  BY <1>2, OrderValues DEF Rows, Statuses
<1>6. ReportHolds(report', rows[k], submitted[k].by)
  BY <1>2, <1>4, <1>5 DEF ReportHolds, Implied, Mirrors, Together, RowOk
<1> QED
  BY <1>2, <1>3, <1>4, <1>6 DEF ReportInv

\* The SELECTs after it read the row as it is.
LEMMA BuildHolds ==
  ASSUME NEW rep \in Reports, NEW by, NEW row \in Rows, ReportHolds(rep, row, by),
         rep.phase = "build"
  PROVE  LET new == [rep EXCEPT !.phase = "tests", !.built = row.built]
         IN  new \in Reports /\ new.row = rep.row /\ ReportHolds(new, row, by)
<1> DEFINE mid == [rep EXCEPT !.phase = "tests"]
           new == [mid EXCEPT !.built = row.built]
<1>1. /\ mid \in Reports /\ mid.phase = "tests" /\ mid.row = rep.row
      /\ mid.status = rep.status
  BY DEF Reports
<1> HIDE DEF mid
<1>2. /\ new \in Reports /\ new.phase = "tests" /\ new.row = rep.row
      /\ new.status = rep.status /\ new.built = row.built
  BY <1>1 DEF Reports, Rows
<1> HIDE DEF new
<1>3. ReportHolds(new, row, by)
  BY <1>2 DEF ReportHolds, Implied, Mirrors, Together
<1> QED
  BY <1>2, <1>3 DEF new, mid

LEMMA TestsHold ==
  ASSUME NEW rep \in Reports, NEW by, NEW row \in Rows, ReportHolds(rep, row, by),
         rep.phase = "tests"
  PROVE  LET new == [rep EXCEPT !.phase = "benchmarks", !.tests = row.tests]
         IN  new \in Reports /\ new.row = rep.row /\ ReportHolds(new, row, by)
<1> DEFINE mid == [rep EXCEPT !.phase = "benchmarks"]
           new == [mid EXCEPT !.tests = row.tests]
<1>1. /\ mid \in Reports /\ mid.phase = "benchmarks" /\ mid.row = rep.row
      /\ mid.status = rep.status /\ mid.built = rep.built
  BY DEF Reports
<1> HIDE DEF mid
<1>2. /\ new \in Reports /\ new.phase = "benchmarks" /\ new.row = rep.row
      /\ new.status = rep.status /\ new.built = rep.built /\ new.tests = row.tests
  BY <1>1 DEF Reports, Rows
<1> HIDE DEF new
<1>3. ReportHolds(new, row, by)
  BY <1>2 DEF ReportHolds, Implied, Mirrors, Together
<1> QED
  BY <1>2, <1>3 DEF new, mid

LEMMA BenchesHold ==
  ASSUME NEW rep \in Reports, NEW by, NEW row \in Rows, RowOk(row), ReportHolds(rep, row, by),
         rep.phase = "benchmarks"
  PROVE  LET new == [rep EXCEPT !.phase = "sent", !.benches = row.benches]
         IN  new \in Reports /\ new.row = rep.row /\ ReportHolds(new, row, by)
<1> DEFINE mid == [rep EXCEPT !.phase = "sent"]
           new == [mid EXCEPT !.benches = row.benches]
<1>1. /\ mid \in Reports /\ mid.phase = "sent" /\ mid.row = rep.row
      /\ mid.status = rep.status /\ mid.built = rep.built /\ mid.tests = rep.tests
  BY DEF Reports
<1> HIDE DEF mid
<1>2. /\ new \in Reports /\ new.phase = "sent" /\ new.row = rep.row
      /\ new.status = rep.status /\ new.built = rep.built /\ new.tests = rep.tests
      /\ new.benches = row.benches
  BY <1>1 DEF Reports, Rows
<1> HIDE DEF new
<1>3. Implied(new, row)
  BY <1>2 DEF ReportHolds, Implied
<1>4. by \in Tasks => Mirrors(new, row) /\ Together(new)
  BY <1>2 DEF ReportHolds, Mirrors, Together, RowOk
<1> QED
  BY <1>2, <1>3, <1>4 DEF ReportHolds, new, mid

\* A SELECT keeps what the report holds.
LEMMA QueryKeepsReport ==
  ASSUME StatusInv, Query
  PROVE  ReportInv'
<1>1. rows' = rows /\ submitted' = submitted
  BY DEF Query, vars
<1>2. ASSUME NEW t \in Teams, QuerySubmission(t)
      PROVE  ReportInv'
  BY <1>1, <1>2, SubmissionHolds
<1>3. CASE QueryBuild \/ QueryTests \/ QueryBenches
  <2> DEFINE row == rows[report.row]
             by == submitted[report.row].by
  <2>1. report.phase \in {"build", "tests", "benchmarks"}
    BY <1>3 DEF QueryBuild, QueryTests, QueryBenches
  <2>2. report # [phase |-> "none"]
    BY <2>1
  <2>3. /\ report \in Reports /\ report.row \in DOMAIN rows /\ ReportHolds(report, row, by)
        /\ row \in Rows /\ RowOk(row)
    BY <2>2, RowsAre DEF StatusInv, ReportInv
  <2> HIDE DEF row, by
  <2>4. report' \in Reports /\ report'.row = report.row /\ ReportHolds(report', row, by)
    <3>1. CASE QueryBuild
      <4>1. /\ report.phase = "build"
            /\ report' = [report EXCEPT !.phase = "tests", !.built = row.built]
        BY <3>1 DEF QueryBuild, row
      <4> QED
        BY <2>3, <4>1, BuildHolds
    <3>2. CASE QueryTests
      <4>1. /\ report.phase = "tests"
            /\ report' = [report EXCEPT !.phase = "benchmarks", !.tests = row.tests]
        BY <3>2 DEF QueryTests, row
      <4> QED
        BY <2>3, <4>1, TestsHold
    <3>3. CASE QueryBenches
      <4>1. /\ report.phase = "benchmarks"
            /\ report' = [report EXCEPT !.phase = "sent", !.benches = row.benches]
        BY <3>3 DEF QueryBenches, row
      <4> QED
        BY <2>3, <4>1, BenchesHold
    <3> QED
      BY <1>3, <3>1, <3>2, <3>3
  <2> QED
    BY <1>1, <2>3, <2>4 DEF ReportInv, row, by
<1> QED
  BY <1>2, <1>3 DEF Query

\* So does a step of the pipelines.
LEMMA PipelineKeepsReport ==
  ASSUME StatusInv, RowsInv', ServerWaits, Lose, \A k \in DOMAIN rows : submitted'[k] = submitted[k],
         OtherStep \/ \E r \in Runners : Insert(r)
  PROVE  ReportInv'
<1>1. CASE report = [phase |-> "none"]
  BY <1>1 DEF ReportInv, Lose, Assembling
<1>2. CASE report # [phase |-> "none"]
  <2> DEFINE row == rows[report.row]
             new == rows'[report.row]
             by == submitted[report.row].by
  <2>1. /\ report \in Reports /\ report.row \in DOMAIN rows /\ ReportHolds(report, row, by)
        /\ row \in Rows
    BY <1>2, RowsAre DEF StatusInv, ReportInv
  <2>2. /\ report.row \in DOMAIN rows'
        /\ \/ new = row
           \/ /\ Advances(row, new)
              /\ report.phase \in {"build", "tests", "benchmarks"} => by \notin Tasks
    <3>1. CASE OtherStep
      BY <2>1, <3>1, RowsGoOn DEF StatusInv, Assembling
    <3>2. ASSUME NEW r \in Runners, Insert(r)
          PROVE  report.row \in DOMAIN rows' /\ new = row
      <4>1. InsertSubmission(r)
        BY <3>2 DEF Insert
      <4>2. /\ DOMAIN rows' = DOMAIN rows \cup {Len(rows) + 1}
            /\ \A k \in DOMAIN rows : rows'[k] = rows[k]
        BY <4>1, Inserts DEF StatusInv
      <4> QED
        BY <2>1, <4>2
    <3> QED
      BY <3>1, <3>2
  <2>3. new \in Rows
    <3>1. rows' \in Seq(Rows)
      BY DEF RowsInv, PipelineInv, TypeOK
    <3> QED
      BY <2>2, <3>1, ElementOfSeq, LenProperties
  <2>4. submitted'[report.row].by = by
    BY <2>1
  <2> HIDE DEF row, new, by
  <2>5. ReportHolds(report, new, by)
    BY <2>1, <2>2, <2>3, ForwardKeepsHold
  <2>6. report' \in Reports /\ report'.row = report.row /\ ReportHolds(report', new, by)
    BY <2>1, <2>5, LostHolds DEF Lose
  <2> QED
    BY <2>2, <2>4, <2>6 DEF ReportInv, new
<1> QED
  BY <1>1, <1>2

-----------------------------------------------------------------------------
(* The inductive invariant and the properties.                             *)

LEMMA InitHasStatus == StatusInit => StatusInv
<1> SUFFICES ASSUME StatusInit PROVE StatusInv
  OBVIOUS
<1>1. RowsInv
  BY InitHasRows DEF StatusInit
<1>2. Stamped
  BY DEF StatusInit, Init, Stamped, Off
<1> QED
  BY <1>1, <1>2 DEF StatusInv, StatusInit, ReportInv

LEMMA StepKeepsStatus == StatusInv /\ [StatusNext]_statusVars => StatusInv'
<1> SUFFICES ASSUME StatusInv, [StatusNext]_statusVars
             PROVE  StatusInv'
  OBVIOUS
<1>1. RowsInv'
  BY StatusStep, StepKeepsRows DEF StatusInv
<1>2. Stamped' /\ \A k \in DOMAIN rows : submitted'[k] = submitted[k]
  BY StampsKept DEF StatusInv
<1>3. ReportInv'
  <2>1. CASE UNCHANGED <<rows, submitted, report>>
    BY <2>1 DEF StatusInv, ReportInv
  <2>2. CASE Query
    BY <2>2, QueryKeepsReport
  <2>3. CASE (OtherStep \/ \E r \in Runners : Insert(r)) /\ ServerWaits /\ Lose
    BY <1>1, <1>2, <2>3, PipelineKeepsReport
  <2> QED
    BY <2>1, <2>2, <2>3 DEF StatusNext, statusVars, vars, ReadClock
<1> QED
  BY <1>1, <1>2, <1>3 DEF StatusInv

LEMMA StatusInvHolds == StatusSpec => []StatusInv
BY InitHasStatus, StepKeepsStatus, PTL DEF StatusSpec

\* What the status of a report implies is in the report, although it was read at
\* another time than the results; a report on a submission that the server itself
\* runs shows one moment of it.
THEOREM ReportsAreConsistent == StatusSpec => []ReportIsConsistent
<1>1. StatusInv => ReportIsConsistent
  <2> SUFFICES ASSUME StatusInv, report.phase = "sent"
               PROVE  ReportIsConsistent
    BY DEF ReportIsConsistent
  <2>1. report # [phase |-> "none"]
    OBVIOUS
  <2>2. /\ report \in Reports
        /\ Implied(report, rows[report.row])
        /\ submitted[report.row].by \in Tasks => Together(report)
    BY <2>1 DEF StatusInv, ReportInv, ReportHolds
  <2>3. report.status \in Statuses
    BY <2>2 DEF Reports
  <2> QED
    BY <2>2, <2>3, OrderValues DEF ReportIsConsistent, Implied, Together, Statuses
<1> QED
  BY <1>1, StatusInvHolds, PTL

\* From one report of a team to its next, the submission is never replaced by an
\* older one and its status never goes back.
THEOREM StatusesNeverGoBack == StatusSpec => StatusNeverGoesBack
<1> DEFINE Onward ==
      ~ Assembling /\ Assembling' /\ report.phase # "none"
      /\ rows[report.row].team = rows[report'.row].team =>
        /\ submitted[report.row].at <= submitted[report'.row].at
        /\ report.row = report'.row => Order(report.status) <= Order(report'.status)
<1>1. StatusInv /\ [StatusNext]_statusVars => [Onward]_statusVars
  <2> SUFFICES ASSUME StatusInv, StatusNext, ~ Assembling, Assembling', report.phase # "none",
                      rows[report.row].team = rows[report'.row].team
               PROVE  /\ submitted[report.row].at <= submitted[report'.row].at
                      /\ report.row = report'.row => Order(report.status) <= Order(report'.status)
    OBVIOUS
  <2>1. report' # report
    BY DEF Assembling
  <2>2. Query
    BY <2>1 DEF StatusNext, Lose, ReadClock
  <2>3. PICK t \in Teams : QuerySubmission(t)
    BY <2>2 DEF Query, QueryBuild, QueryTests, QueryBenches, Assembling
  <2>4. PICK k \in Latest(t) :
          report' = [phase |-> "build", row |-> k, status |-> rows[k].status,
                     built |-> "none", tests |-> "none", benches |-> {}]
    BY <2>3 DEF QuerySubmission
  <2>5. report'.row = k /\ report'.status = rows[k].status
    BY <2>4
  <2>6. report # [phase |-> "none"]
    OBVIOUS
  <2>7. report.row \in DOMAIN rows /\ Order(report.status) <= Order(rows[report.row].status)
    BY <2>6 DEF StatusInv, ReportInv, ReportHolds, Implied
  <2> QED
    BY <2>5, <2>7 DEF Latest
<1> QED
  BY <1>1, StatusInvHolds, PTL DEF StatusSpec, StatusNeverGoesBack

=============================================================================
