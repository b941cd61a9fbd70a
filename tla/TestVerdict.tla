------------------------------ MODULE TestVerdict ------------------------------
(***************************************************************************)
(* The verdict on a submission's tests.  test_correctness.cpp runs them in *)
(* a container and stops at the first that fails; _docker_test of          *)
(* infra/server/pipeline.py knows only what the container printed, which   *)
(* the harness and the submission linked to it print to one stdout.  The   *)
(* exit code is not looked at.                                             *)
(***************************************************************************)
EXTENDS Integers

CONSTANTS
  NumTests,    \* the tests of test_correctness.cpp
  HowRunsEnd,  \* bound: the ways a run of the tests may end
  Voices       \* bound: what submissions print

ASSUME TestsAssumption == NumTests \in Nat \ {0}
ASSUME EndsAssumption == HowRunsEnd \subseteq {"finished", "failed", "crashed", "hung"}
\* "quiet" prints nothing; "noisy" also prints, flushes or ends the process
\* itself; what "imitating" prints reads like a line of the harness.
ASSUME VoicesAssumption == Voices \subseteq {"quiet", "noisy", "imitating"}

\* A run ends after all tests, in a check of the test after those that passed,
\* or anywhere by a signal or a hang: in a test, in the destructor of the engine
\* behind the last PASS, before the first test.
TestEnds ==
  {end \in [passed : 0..NumTests, how : HowRunsEnd, voice : Voices] :
     /\ end.how = "finished" => end.passed = NumTests
     /\ end.how = "failed" => end.passed < NumTests}

\* What the harness printed by then: a mark "[ n]" before each test and PASS
\* behind it, in turns.
Printed(end) == IF end.passed = NumTests THEN 2 * NumTests ELSE 2 * end.passed + 1

\* How much of that came out.  exit() writes out what is left in the buffer, a
\* signal does not.  The harness alone never fills the buffer (29 lines of 63
\* bytes; a pipe is written to in blocks of 4096), but each flush of the
\* submission's writes out what the harness printed too.
Flushed(end) ==
  IF end.how # "crashed" THEN {Printed(end)}
  ELSE IF end.voice = "quiet" THEN {0} ELSE 0..Printed(end)

\* What may be read: marks, PASSes, and whether there is a summary line, whose
\* first one has the figures then.  The submission's own lines may say anything.
TestOutputs(end) ==
  IF end.voice = "imitating" THEN [marks : 0..1, passes : 0..1, summary : BOOLEAN]
  ELSE {[marks |-> (n + 1) \div 2, passes |-> n \div 2, summary |-> end.how = "finished"] :
          n \in Flushed(end)}

\* Mutant: without a summary line, the tests are those that printed PASS.
CountPasses(output) == [passed |-> output.passes, total |-> output.passes]

\* The summary line if there is one, else a count of the marks.
CountTests(output) ==
  [passed |-> output.passes,
   total |-> IF output.summary \/ output.marks > 0 THEN output.marks ELSE output.passes]

\* passed and total as their readers tell them apart: "all" is
\* passed = total > 0, "some" is passed # total, "zero" is 0 of 0.
Verdict(count) ==
  IF count.passed # count.total THEN "some"
  ELSE IF count.total = 0 THEN "zero" ELSE "all"

\* A timeout is 0 of 0, whatever was printed.
Verdicts(end) ==
  IF end.how = "hung" THEN {"zero"} ELSE {Verdict(CountTests(output)) : output \in TestOutputs(end)}

\* The verdict that is due, as far as the output allows to tell: a crash behind a
\* flush, and lines of the submission's own, leave it open.
Due(end) ==
  IF /\ end.how # "hung"
     /\ end.voice = "imitating" \/ (end.voice = "noisy" /\ end.how = "crashed")
  THEN "open"
  ELSE IF end.how = "finished" THEN "all" ELSE "less"

\* Every verdict that a run of the tests may get, beside the one it should.
Judgements == UNION {[verdict : Verdicts(end), due : {Due(end)}] : end \in TestEnds}

=============================================================================
