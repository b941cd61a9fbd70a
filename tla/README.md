# The matching engine challenge in TLA+

This directory specifies the programs of the matching engine challenge: the
reference matching engine, the generator and replay of its benchmark, the CI
server that judges submissions, and the leaderboard that shows them. The
modules are translated from the source; the `map` of `PROJECT.json` gives, for
every definition that models code, the lines it stands for.

Contents: [inventory](#the-system) · [modules](#the-modules) ·
[runs](#the-runs) · [bounds](#bounds) · [fairness](#fairness) ·
[proofs](#proofs) · [divergences found](#where-the-code-and-its-documents-disagree)
· [not modelled](#not-modelled) · [plan](#plan)

## The system

Two programs share the repository.

**The exchange** is a C++ library and a benchmark around it. It is
single-threaded: a client calls the engine, the engine calls the listener back
before it returns.

| part | source | state | operations | made correct by |
|---|---|---|---|---|
| matching engine | `reference/matching_engine.{h,cpp}` | one vector of resting orders per symbol, buys and sells mixed; `next_order_id_` | `addOrder`, `cancelOrder`, `amendOrder`, the private `matchOrder`; callbacks `onTrade`, `onOrderUpdate` | price-time priority kept although priority is nothing but a position in a vector that is erased from and appended to; nothing executable left in a book; callbacks that tell the whole story of each order, once |
| matching loop | `matchOrder` (`matching_engine.cpp:14-66`) | `remaining`, `best_idx`, `i` | scan, trade callback, decrement, update callback, erase | the scan finds the best order, the loop ends |
| book queries | `getBookSnapshot`, `getOrderCount` | none of their own | two reads | they agree with the callbacks; 32-bit totals wrap |
| benchmark stream | `bench/order_generator.{h,cpp}`, `bench/benchmark.cpp` | `live_order_ids_`, `next_expected_id_`, fair values | `generateAdd/Cancel/Amend`; the replay of the stream | ids that are guessed ahead of time are the ids the engine hands out |
| correctness tests | `test/test_correctness.cpp` | a recording listener; what was printed | 29 scenarios, one after the other, until one fails | the verdict read from the output is that of the run (the scenarios are the informal specification of the engine) |
| student skeleton | `src/matching_engine.cpp` | none | empty bodies to fill in | – |

**The judge** is a Python server, a cron job and a page. Background tasks of the
server run in worker threads behind one lock; every cron process and every
manual run is a process of its own, which that lock does not see. All of them
meet in one SQLite database, one statement at a time.

| part | source | state | operations | made correct by |
|---|---|---|---|---|
| submission pipeline | `infra/server/pipeline.py`, webhook and background task of `infra/server/app.py`, `infra/scripts/setup-server.sh:187-248`, `infra/scripts/run-pipeline.sh`, writes of `infra/server/models.py` | the tables; `_pipeline_lock`; `_last_run`; what each task or process is at | push, deliver, rate limit, enqueue, poll, look up, run by hand, and the steps of `run_pipeline` with its errors | every head of a branch is submitted and judged whatever is lost, as long as cron can start the poller; no row is written by two runs; a complete row earned it |
| leaderboard | `get_leaderboard` and the counts of `models.py`, `/api/leaderboard` in `app.py` | the tables; a reply under construction | one SELECT for the ranking, one per team for its scenarios, one per team for its count | a reply that is put together while pipelines write is still consistent |
| leaderboard feed | `/api/stream` in `app.py`, `leaderboard/static/js/leaderboard.js` | `_sse_event`, each stream's generator; the page's fetches, EventSource and retry delay | notify, wait, clear, send; poll, receive, break, reconnect | the page settles on what the database says |
| webhook validation | `_verify_signature`, `webhook` | none | signature, event, ref, commit and team, in that order, before the rate limit | what is refused costs nobody anything |
| team status | `get_team_status`, `/api/status` | a report under construction | four SELECTs | a report that is put together while pipelines write does not contradict itself or the one before |
| docker runner | `_docker_build/_test/_bench` | containers | subprocess calls | what a run of the tests printed becomes a verdict; other outcomes are choices |
| page rendering | rest of `leaderboard/static` | DOM | drawing | – |
| provisioning | `infra/terraform`, `infra/docker`, rest of `infra/scripts` | cloud resources | shell and Terraform | – |

How they interact: GitHub calls the webhook, which starts a background task;
cron starts `poll-branches.sh`, an operator `run-pipeline.sh`; all three run
`run_pipeline`, whose tests and benchmark are the programs of the exchange half;
the pipeline writes rows; the leaderboard reads them; the end of a background
task is meant to wake the event streams; the page polls and listens.

What is hard here, and therefore what the properties are about:

* **Position as priority.** `amendOrder` sometimes edits in place and sometimes
  erases and pushes back; cancels and fills erase from the middle. No field
  records an order's time; the tests look at sequences of a few calls.
* **Callbacks in the middle of a mutation.** `onTrade` comes before the
  decrement, the `Filled` update before the erasure; a listener that queries
  the book sees an order with nothing left.
* **A stream generated blind.** `order_generator.cpp` cancels by guessed id.
* **Two processes, one table, no transaction.** The poller checks whether a
  commit has a row long before it inserts one; the webhook's task may not have
  inserted its own yet.
* **Failure halfway.** Every database call of `run_pipeline` may raise, two of
  them outside the `try`; the server may die at any step and nothing resumes.
* **Reports put together from several SELECTs.** `_db_lock` keeps the server's
  own tasks out meanwhile, and nobody else.
* **A verdict read from text.** The exit code of the tests is ignored, a crash
  loses whatever output was still buffered, and the submission prints to the
  same stdout as the harness and the benchmark.
* **Times taken before locks.** `submitted_at` is read before the lock is
  waited for, so ids and times may disagree about which row is the latest.
* **Lost and delayed input.** GitHub's deliveries get lost or are dropped by the
  rate limit and are not retried; replies to the page overtake each other.

`PROJECT.json` lists these as `hazards`, each at its line and with the
properties that would catch it.

## The modules

| module | models | composed of |
|---|---|---|
| `MatchingEngine` | the engine: a call is a sequence of steps, one per fill | – |
| `DoubleAuction` | what the exchange promises: a continuous double auction over *sets* of orders | – |
| `OrderLife` | what one order's owner may count on: arrive, re-enter, rest, close once | – |
| `MatchingEngineRefinement` | the mappings from the first to the other two | `MatchingEngine`, instances of `DoubleAuction` and `OrderLife` |
| `MatchLoop` | `matchOrder` index by index and callback by callback | extends `MatchingEngine` and implements an instance of it |
| `BookQueries` | the two queries | extends `MatchingEngine` |
| `BenchStream` | generator and replay | extends `MatchingEngine` |
| `SubmissionPipeline` | webhook, rate limit, lock, poller, manual runs, `run_pipeline`, crashes | extends `TestVerdict` |
| `TestVerdict` | how a run of the tests ends, what it prints, what `_docker_test` makes of it | – |
| `PipelineRefinement` | the pipeline's rows as the leaderboard sees them | `SubmissionPipeline`, an instance of `Leaderboard` |
| `TeamStatus` | the status report over running pipelines | extends `PipelineRefinement` |
| `Leaderboard` | ranking query and the reply around it | – |
| `LeaderboardFeed` | event stream and page | – |
| `MC*` | instances for TLC | the module they are named after |

Theorems and their proofs are in modules of their own:

| module | proves | extends |
|---|---|---|
| `MatchingEngineProofs` | types, uncrossed books, the refinement of `OrderLife`, time priority, accounting, finality | `MatchingEngineRefinement` |
| `AuctionProofs` | order of fills, acknowledgements, conservation of lots, the steps of the refinement of `DoubleAuction` | `MatchingEngineProofs`, `SumProofs` |
| `MatchLoopProofs` | the scan, the exhausted order, the steps of the refinement of `MatchingEngine` | `MatchLoop`, `MatchingEngineProofs` |
| `EngineUseProofs` | the queries; the ids of the benchmark's stream | `BookQueries`, `BenchStream`, `MatchingEngineProofs`, `SumProofs` |
| `SubmissionPipelineProofs` | every safety property of the pipeline and of the status report, the refinement of the leaderboard's writes | `TeamStatus` |
| `LeaderboardProofs` | types, rankings, replies, the ground teams keep | `Leaderboard` |
| `LeaderboardFeedProofs` | types of the feed | `LeaderboardFeed`, `SumProofs` |
| `SumProofs` | lemmas: what sums over finite sets compute | – |

### MatchingEngine

`books[s]` is `orders_[s]`, position by position. `call` is the activation of
`addOrder` or `amendOrder` that is inside `matchOrder`, with its `remaining`;
`log` is what the listener received during the current call and `ret` what the
last call returned. `AddRejected`, `AddOrder`, `CancelOrder`, `CancelMissed`,
`AmendMissed`, `AmendInPlace` and `AmendRematch` are the entries and early
returns of the three operations; `MatchStep` is one iteration of the `while`
loop; `ReturnFilled` and `ReturnResting` are what follows it, `RestRemainder`
keeping the difference between the two callers (`addOrder` sends `Accepted` for
the remainder, `amendOrder` sends nothing). A new call starts only from `Idle`:
callbacks are synchronous and the listeners of the repository do not call back
in.

`rank`, `nextRank` and `closed` are history. `rank` is the time priority that
the published rules give an order (set at arrival, renewed by an amendment that
changes the price or raises the quantity, kept otherwise) and is updated from
those rules and not from the branch the code takes; `PositionIsTimePriority`
then says that the vector agrees. `closed` collects the ids whose terminal
update was sent.

Orders keep their symbol through the book that holds them. Prices are integers
and quantities naturals; what is subtracted is never more than what is there, so
the `uint32_t` of the code does not wrap in the engine itself (this is part of
what `TypeOK` says, and is proved). It can wrap in `getBookSnapshot`, where
`BookQueries` sums modulo `UInt32Modulus`.

### DoubleAuction and the refinement

`DoubleAuction` has no positions, scans or calls: live orders with a rank, and
one rule for trading: while a market is crossed, its best bid trades with its
best ask at the price of the older order and nothing else happens. The order
being matched is mapped to an order of the market like the resting ones, so the
engine's "find the best resting order for this aggressor" must come out as "best
bid with best ask" of the whole market, which is true only because books are
uncrossed between calls and ranks follow positions.

### OrderLife

The other abstraction: five steps over *sets of ids*, with the time priority
each order is due. `Arrive` and `Reenter` put one order into the matching with
a fresh priority, `Rest` puts it into a book, `Close` takes it out of the one
place it has and records it as closed. Sweeps, erasures and indices disappear:
a partial fill and an amendment in place are stutters. This is the shape in
which the engine's invariants are proved (see [Proofs](#proofs)).

### MatchLoop

Splits the fill of `MatchingEngine` into the steps of the code: `BeginScan`,
`ScanOne` per element, `EndScan`, `SendTrade` (callback, then both decrements),
`SendUpdate` (callback, then erasure), `LeaveCall`. `MatchingEngine`'s `IsBest`
defines what `best_idx` should be; the loop computes it. The refinement mapping
completes a fill as soon as its trade is sent.

### BenchStream

Random draws are choices from small sets. `AddPrice` keeps the code's order of
clamping and bias; `SwapAndPop` is its removal from `live_order_ids_`. The
stream is complete before the replay starts, as in `benchmark.cpp`, which
generates the actions and then gives them to a fresh engine.

### SubmissionPipeline

A commit is its number on its branch; branches only move forward (a deletion, or
a forced push that rewinds one, is left out). `runs[r]` is a background task, a
poller or a manual run: `pc` names the next database write or command of
`run_pipeline`. A command's outcome is chosen together with the write that
records it. `rows` is the submissions table joined with its result tables.
`WriteFails` is an exception inside the `try` block, `WriteFailsOutside` one
before it or in an `except` clause; crashes, these and `LookupFails` (the `||
echo "0"` of the script) share one budget, `MaxFailures`. `Leave` covers the
three callers: a task releases the lock even if an exception got out, a poller
goes on with its next team unless one did (`set -e`), a manual run ends.

Four fields of a row are history, which no action reads: `pushed` tells whether
the commit was on its branch when the row was inserted, `tree` which commit was
really checked out (`_clone_repo` takes the branch's head and only logs a
mismatch), `due` what the verdict on the tests should be, `report` which
scenarios the benchmark reported.

A request to the webhook is a record of what the handler looks at. Besides the
pushes of teams (`hooks`) any of `Strays` may arrive at any time: a ping, a push
to `main` or to the branch of an unknown team, a deletion, a wrong signature.
`IsTeamPush` is the chain of checks before the rate limit, `RefuseHook` every
answer that starts no run. A refused stray changes nothing.

What the poller needs of the server is the constant `Provided`: with no `"url"`
in it each start of the script ends at once (`StartPoll`), without `"sqlite3"`
every lookup counts as none (`Lookup`).

`RunManually` submits the head of the branch or, if the remote has no such
branch, the commit of a local one, which may be pushed later or never (commit
0). A remote that cannot be reached is not such a case: with `pipefail` the
script ends where `git ls-remote` fails.

`DockerBench` reports any set of scenarios, for they come from the first JSON
object of an output that the submission prints to as well, and `Complete` does
not ask which there are: `pipeline.py:87-91` does not.

### TestVerdict

Operators only. `TestEnds` are the ways in which the run of
`test_correctness.cpp` may end: finished, or with some tests passed by a failed
check (`exit(1)`, which flushes), by a signal (which does not), or by hanging
until the timeout. A signal may also come between a PASS and the next mark, in
the destructor of the submission's engine. `Printed` is what the harness has
printed by then and `Flushed` what of it came out. That depends on what the
submission prints (`Voices`): nothing; something of its own, with flushes, so
that a crash leaves any part of the harness's output; or lines that read like
those of the harness, after which the output says nothing about the tests.
`TestOutputs` is what `_docker_test` looks for in the output, `Verdict` what
`run_pipeline` concludes.

`Due` is the verdict that is due: passed if the run finished, less otherwise,
and `"open"` where the output does not allow to tell, which is after a crash
behind a flush and for a submission that imitates the harness. `Judgements` are
the pairs of a verdict and the one due; `DockerTest` stores both and
`VerdictsAreTrue` compares them. The open cases are explored like the others,
and no property but this one makes an exception of them: `"n/n tests passed"`
printed by the submission passes, and so does a submission whose first test
prints PASS and which then crashes behind a flush (one mark, one PASS).

### PipelineRefinement

`Leaderboard` writes its tables with actions of its own, guarded by what the
ranking relies on. `ImplementsLeaderboardWrites` shows that the pipeline,
through crashes, errors and concurrent runs, writes in no other way, so what
`Leaderboard` shows holds of the composition. The only conditions `Leaderboard`
has are those of the code: no figures and no `complete` after a failed test, and
nothing after the last status. Statuses before the last are one status there,
and the figures of a benchmark are left out.

### TeamStatus

Adds to the pipeline the column `submitted_at` and a report. Of times only the
order matters: `ReadClock` takes one later than all in use, `Insert` stores it.
`QuerySubmission`, `QueryBuild`, `QueryTests` and `QueryBenches` are the four
SELECTs. `ServerWaits` is what `_db_lock` and the blocked event loop do in
between: the server's tasks write nothing and no webhook request is taken, while
other processes go on. A report on the submission of another process may show a
test result without its build (the build is read first); what its *status*
implies is always there, for that was read before everything else.

### Leaderboard

The tables with what ranking needs; `Rankings` is every result the SQL may give
(equal scores are unordered). A complete row may have fewer scenarios than three:
then its score is the weighted sum over those it has, and a row with none is not
ranked (the inner join drops it). A reply is assembled over several steps with
pipelines writing in between. `SubmissionCount` and the scenario breakdown are
read later than the ranking.

### LeaderboardFeed

The leaderboard is a version number. `stream` is where the generator of the
page's connection is; `OtherStreamClears` is another stream consuming the one
shared event. `NotifyLeaderboardUpdate(thread)` depends on where a pipeline
ended, because `asyncio.get_event_loop()` finds a loop only in the loop's own
thread. In the deployed server pipelines end in worker threads and cron
processes. The thread `"loop"` is what the function was written for; `feed`
includes it so that the wake-up path is exercised too.

## The runs

| run | checks | shows |
|---|---|---|
| `engine` | `TypeOK`, `BooksUncrossed`, `PositionIsTimePriority`, `FillsInPriceTimeOrder`, `QuantityConserved`, `AckAgrees`, `EveryOrderAccounted`, `OrderCountAgreesWithCallbacks`, `SnapshotsShowBook`, `NothingAfterTerminal` | the engine and its queries are right at every step of every call, with three price levels and four orders |
| `auction` | `ImplementsAuction`, `ImplementsOrderLife`, `CallReturns` | the engine implements the double auction and the life of an order, across two symbols that share the id counter; each call returns |
| `match_loop` | `ImplementsEngine`, `ScanFindsBest`, `ExhaustedOnlyWhileReported`, `LoopTerminates` | the loops as written do what `MatchingEngine` assumes of them; an order with nothing left is visible only during its own `Filled` callback |
| `bench_stream` | `GuessedIdsAreReal`, `RestingOrdersAreLive`, `ReplayEnds` | guessed ids are the engine's, no generated order is refused, no resting order is forgotten |
| `pipeline_failures` | `TypeOK`, `CompleteIsEarned`, `OneWriterPerRow`, `VerdictsAreTrue`, `RowsMoveForward`, `ImplementsLeaderboardWrites`, `EveryHeadJudged` | a task and a poller on one commit, with stray requests, every way the tests may end, whatever submissions print, and a crash or a failed database call anywhere: rows stay consistent and are written as the leaderboard assumes, a verdict is that of the tests wherever the output allows to tell, and only a row left behind by the failure can leave a head unjudged |
| `pipeline_backup` | `TasksTakeTurns`, `WindowOnlyForRuns`, `EveryHeadSubmitted` | two tasks and a poller on two pushes, the second often inside the rate limit: the tasks never run at once, a refused request costs no window, and a poller that cron can start makes up for what is lost or refused |
| `team_status` | `TestedIsCurrent`, `SubmissionsWerePushed`, `ReportIsConsistent`, `StatusNeverGoesBack` | a task and a manual run over two pushes, the latter also of a local commit before its push, with reports at any time: what is built was pushed, what is tested is never older than what the row names, and no report contradicts itself or goes behind the one before |
| `leaderboard` | `TypeOK`, `ReplyIsConsistent`, `OnlyQualifiedRanked`, `TeamsNeverLoseGround` | replies assembled during writes are consistent, and successive replies do not take anything from a team |
| `feed` | `TypeOK`, `PageSettles` | polling heals overtaking replies, broken streams and unheard notifications |
| `duplicate_rows`, `untested_benchmarked`, `silent_stream` | one property each, violated | see [below](#where-the-code-and-its-documents-disagree) |

Every property of a passing run has a mutant: a plausible wrong version of a
mapped definition, next to the definition it replaces, under which TLC finds the
property violated in the same run.

### Bounds

Every bound is a constant and appears in a guard of the action it limits.

* Engine: `MaxOrders` and `MaxRanks` limit accepted orders and priorities handed
  out. Four orders are enough for a sweep over two price levels with a partial
  fill at the end and for three orders in one queue, which is where priority can
  go wrong in the middle; prices 1 to 3 give a level between two others; 0 is
  the invalid price. Quantities 0 to 2 give invalid, exact, partial and
  over-filling orders. `auction` takes two symbols with fewer orders and levels,
  for symbols can interfere only through ids. `UInt32Modulus = 5` lets four
  orders of two lots wrap, and is more than the orders a level can have
  (`CountsFit`), as 2^32 is.
* `MatchLoop` uses three orders: the scan is exercised on books of up to two
  opposite orders and one amended one.
* `BenchStream`: the engine's prices hold every price the stream draws
  (`PricesDrawn`, checked by TLC). Four actions permit add, add, cancel, cancel and every other
  mix in which swap-and-pop moves an id; draws go below the first tick.
* Pipeline: one team suffices for what rows of one commit can do to each other;
  teams share only the lock and the poller's loop. One failure (`MaxFailures`), in
  all positions and of each kind, covers every recovery path.
  Two tests stand for 29: a run can end before, between and after them.
  `pipeline_failures` has one push, and lets tests end in every way
  (`HowRunsEnd`), submissions print anything (`Voices`), builds fail (`Builds`)
  and the recording of a figure raise, which leaves a row with a part of them
  (`Raises`; what the code does with an exception does not depend on the command,
  and the two violated runs of the pipeline have them all). `pipeline_backup` has what that run has not: a
  second task, so that two contend for the lock, and a second push, so that one
  meets the rate limit. There builds fail, which makes pipelines short, for its
  properties are about who runs and not about what comes out. Both have a server
  that provides what the poller needs.
* `TeamStatus`: two submissions of a team (`MaxSubmissions`) are needed for one
  to overtake the other; the task takes two pushes, one after the other, while an
  operator's run writes beside it. All submissions pass and nothing fails, so
  that every SELECT has something to find. A crash that takes a report with it
  (`Lose`) leaves its first SELECT as the last thing seen, which
  `StatusNeverGoesBack` would compare with; crashes are left to the other runs.
* Leaderboard: two teams, three submissions, and two scenarios with different
  weights. A row may be complete with either, both or none, so that with one set of
  figures there are four scores, and ties.
* Feed: three changes, two fetches in flight, three failures, and a delay cap
  that doubling exceeds.

`CHECK_DEADLOCK FALSE` is set in `bench_stream`, where the replay ends, and in
`team_status`, where without a poller the server may be at rest for good, with
a queued run past the bound on submissions. In
the other runs deadlock is checked: there is always a refused call to make, a
poll to start, a reply to send or a fetch to make.

### Fairness

* `MatchingEngine`, `MatchLoop`, `BenchStream`: weak fairness of the steps of a
  call that has begun. The code runs to completion in one thread. Clients owe
  nothing.
* `SubmissionPipeline`: weak fairness for each runner: of the steps of its run
  (each command has a timeout, after which it raises), of a waiting task taking
  the free lock, and of each poller (cron starts one every five minutes). Pushes,
  deliveries, failures and crashes are never required. No delivery is fair, so
  `EveryHeadSubmitted` and `EveryHeadJudged` rest on the poller alone, and the
  fairness of a poller asks for something only where its start is enabled, that
  is, with the URL in `Provided`. [Below](#where-the-code-and-its-documents-disagree)
  is what the scripts provide.
* `LeaderboardFeed`: weak fairness of the server's stream, of delivery, and of
  the page's timers. Changes and failures are never required and failures are
  bounded: with unbounded failures no page can settle.

## Proofs

Everything below holds for every set of symbols, prices and quantities, of teams,
tasks, pollers and operators, for streams and books of any length, and for all
bounds. Each invariant and each action property of a passing run is a theorem.

The engine:

| theorem | states |
|---|---|
| `TypeCorrect` | `Spec => []TypeOK`. In particular quantities stay naturals: no fill takes more than is left on either side, so the unsigned subtraction of `matchOrder` never wraps. |
| `Uncrossed` | `Spec => []BooksUncrossed`: no book holds a buy at or above the price of a sell, in the middle of a sweep too. |
| `OrdersPlaced` | no order is in two places. |
| `LifeImplemented` | `Spec => ImplementsOrderLife`: each step of the engine is a step of `OrderLife` or a stutter. |
| `TimePriority` | `Spec => []PositionIsTimePriority`: positions in a vector follow the time priorities due by the published rules. |
| `Accounted` | `Spec => []EveryOrderAccounted`. |
| `TerminalIsFinal` | `Spec => NothingAfterTerminal`, an action property: no callback names an order reported `Filled` or `Cancelled` before. |
| `FillsComeInOrder` | `Spec => []FillsInPriceTimeOrder`, for sweeps of any length. |
| `AcksAgree` | `Spec => []AckAgrees`. |
| `QuantityIsConserved` | `Spec => []QuantityConserved`: what a call traded and what it has left are what was asked for. |
| `LotsAreConserved` | `[][LotsConserved]_vars`: a step takes exactly the lots of the trade it reports, from the call and from the order it names, and from nobody else. |
| `TapeIsComplete` | the callbacks of a call alternate: a trade, the update of the order it filled. |
| `AuctionImplemented` | `Spec => Auction!Init /\ [][Auction!Next]_(Auction!vars)`: `ImplementsAuction` without its fairness. |
| `LoopInvariant` | at every line of `matchOrder`, `best_idx` is the best of what was scanned so far. |
| `ScanIsBest`, `ExhaustedIsReported` | `LoopSpec => []ScanFindsBest` and `=> []ExhaustedOnlyWhileReported`. |
| `LoopsImplementEngine` | `LoopSpec => Engine!Init /\ [][Engine!Next]_(Engine!vars)`: `ImplementsEngine` without its fairness. |
| `CountAgrees` | `Spec => []OrderCountAgreesWithCallbacks`. |
| `SnapshotsAgree` | `Spec => []SnapshotsShowBook`, for any modulus that the counts fit in. |
| `GuessesAreReal` | `StreamSpec => []GuessedIdsAreReal`. |
| `RestingAreTracked` | `StreamSpec => []RestingOrdersAreLive`. |

The judge:

| theorem | states |
|---|---|
| `PipelineTypes` | `Spec => []TypeOK` of `SubmissionPipeline`. |
| `TurnsAreTaken` | `Spec => []TasksTakeTurns`: one task at most is inside `run_pipeline`, and it is the holder of the lock. The run has two tasks; the theorem any number. |
| `VerdictsHold` | `Spec => []VerdictsAreTrue`: for any number of tests, any way they end and anything submissions print, a row counts as having passed exactly if every test passed, except where the output does not allow to tell. |
| `RowsHaveOneWriter` | `Spec => []OneWriterPerRow`, for any number of processes outside the lock. |
| `CompletionIsEarned` | `Spec => []CompleteIsEarned`: build, tests, and every figure that was reported. |
| `RowsNeverGoBack` | `Spec => RowsMoveForward`, an action property. |
| `WindowsOpenForRuns` | `Spec => WindowOnlyForRuns`, an action property. |
| `SubmissionsPushed` | with a webhook secret, `Spec => []SubmissionsWerePushed`: tasks and pollers submit, and everybody builds, only what was pushed. |
| `TestedCommitsAreCurrent`, `ReportedCommitsAreCurrent` | `Spec => []TestedIsCurrent`, and `StatusSpec => []TestedIsCurrent`. |
| `PipelineWritesForLeaderboard` | `Spec => ImplementsLeaderboardWrites`: the pipelines write in no other way than `Leaderboard` does. |
| `ReportsAreConsistent` | `StatusSpec => []ReportIsConsistent`. |
| `StatusesNeverGoBack` | `StatusSpec => StatusNeverGoesBack`, an action property. |
| `LeaderboardTypes` | `Spec => []TypeOK` of `Leaderboard`. |
| `RankedAreQualified` | `Spec => []OnlyQualifiedRanked`. |
| `RepliesAreConsistent` | `Spec => []ReplyIsConsistent`. |
| `GroundIsKept` | `Spec => TeamsNeverLoseGround`, an action property. |
| `FeedTypes` | `Spec => []TypeOK` of `LeaderboardFeed`. |

### What the theorems assume

The assumptions the modules name, and nothing else:

* the engine: `EmptySymbol` is not a symbol, prices are integers, quantities and
  bounds naturals. The queries: there are finitely many symbols (the map is in
  memory), and a level has fewer orders than `uint32_t` counts (`CountsFit`; the
  lots may wrap). The stream: fair values are at least one tick, and the engine
  takes the prices that are drawn (`PricesDrawn`; in the code, any `int64_t`);
* the pipeline: tasks, pollers and operators are different, "none" is no task and
  "stranger" no team, there may be a push, and there is a test. Ends, voices,
  builds, raises and what is provided are any of those the modules name.
  `SubmissionsPushed` alone has the hypothesis `SecretSet`: without a secret
  anybody may name any commit;
* the leaderboard: finitely many teams; weights and figures are naturals. The
  feed: a cap of at least one on the delay, and one fetch at least.

### The engine

`TypeOK` is inductive as it stands; the work is in `EraseProperties`
(what `vector::erase` does to positions, from the library's `SubSeq` and
concatenation facts), `RefillProperties` (an assignment to one field of one
element) and `FillEffect` (one iteration of the loop on a typed book).
`BooksUncrossed` is inductive relative to `TypeOK`: call a book *thinner* than
another if each of its orders has the side and price of some order of the
other. Erasing (`EraseThins`), refilling (`RefillThins`) and leaving alone
(`SameThins`) thin a book, and thinning cannot cross what was uncrossed
(`BooksThin`). The one step that adds an order is `RestRemainder`, and it is
taken only when the scan found that no opposite order crosses
(`NoneCrosses`), which is what the new pair of prices needs. `Spec => []` follows
by PTL.

Accounting and priority go through `OrderLife`. What erasing, refilling and
appending do to the *set* of resting ids is proved once (`RestingAfterErase`,
`RestingAfterRefill`, `RestingAfterAppend`); `StepOfLife` then shows, action by
action, that an engine step is `Arrive`, `Reenter`, `Rest`, `Close` or nothing.
That needs `Placed`: ids are distinct across all books (or an erasure could
leave another order with the same id), the order being matched is in none, and
every id in use is below `next_order_id_`. After that an invariant about ids is
proved over those five cases, without a vector in sight:

* `Balanced`: closed, resting and matched ids are disjoint and together all the
  ids handed out. With `HasQuantity` (a book holds no exhausted order) it gives
  `EveryOrderAccounted`.
* `Ranked` strengthens time priority: ranks are below `nextRank`, and the order
  being matched has the latest of all. The second part is why it may go to the
  back of its vector when it comes to rest, the only step that creates a new
  pair of positions.
* `NothingAfterTerminal` follows from `Balanced` and from `StepReceives`: the
  callbacks of a step name only ids that rest or are being matched before it.

The order of fills is not inductive: the log says what was traded, not what could
have been. `FillsInOrder` adds `NothingAhead`: while the call has something left,
every order it could still trade with stands behind every trade it made. A fill
keeps it because the order it took was the best (`IsBest`), and because the
only order that is not behind that one is itself, which a fill that leaves the
call something to trade has exhausted and erased. Acknowledgements need that the last callback is the
call's own and that the remainder is what was pushed back.

Lots are followed twice: `LotsConserved` says of one step what moves where;
`LotsAddUp` is the sum over the trades of the call, and one trade more adds its
lots to it.

`AuctionImplemented` has three parts. What the engine does to its vectors is what
the auction does to its *set* of orders, position by position forgotten. An
iteration of `matchOrder` is a trade of best bid and best ask of the whole
market: one half is what the scan finds; the other is the order being matched,
for the book is uncrossed (`Uncrossed`) and so nothing else crosses; and the
price is that of the older order because the call's rank is the latest (`Ranked`).
And a return changes nothing the market can
see. `TapeIsComplete` makes the tape, which the mapping takes from the odd
positions of the log, all the trades there are.

The loops. `LoopInv` says of each value of `pc` what the locals know:
`BestOf(book, i, ...)` of the part of the book that was seen, and at the end of
the scan of all of it. Between the decrement and the erasure one order has
nothing left, and the mapping of `MatchLoop` takes it out early. Steps outside the
loops are steps of `MatchingEngine` as they stand.

The queries. `getOrderCount` is a sum over books of lengths, the callbacks are a
set of ids: a book holds as many ids as orders, ids are in one book only, and
`Balanced` relates the sets. A snapshot enumerates the prices of one side
(`InOrderEnumerates`: a finite set of integers has an ascending enumeration and a
descending one), its levels partition the book, and sums over the parts are the
sum of the whole, modulo the wrap-around.

The stream. `StreamInv` has three parts: what was generated (`StreamOk`: live ids
are distinct, below `next_expected_id_`, and not cancelled by what was generated
so far), what was replayed (`ReplayOk`: the engine's next id is one more than the
adds replayed, and what the stream cancelled is closed), and what was proved of
the engine. A replayed action is accepted because it is one of the engine's
(`ReplayIsRequested`), and every other step of the replay is a step of the engine
(`StepOfEngine`), whose invariants carry over.

### The judge

`PipelineInv` adds to `TypeOK` what the types rest
on: a run that waits, looks up or is inside `run_pipeline` has a team and a
commit, and it has a row exactly after its insert (`Assigned`), or a status
would be written to no row. Rows are elements of `JudgedRows`, whose verdict is
the one that is due unless that is open; the one step that could leave them is
the write of a test result, and `VerdictIsTrue` is about `Judgements` alone: a run
that did not finish prints no summary line and one mark more than PASSes, or what
it printed was lost in the buffer. Nearly every step moves one
run and keeps the lock; what such a step must show is said once
(`OneRunMoves`). The rest are `TakeLock`, which finds the lock free and therefore
nobody inside, `Leaves`, the two ways out of `run_pipeline`, both of which free
it, and the crash of the server, which takes lock and tasks with it.

`RowsInv` adds what rows and runs know of each other: no two runs have the same
row, a row has the results its status implies (`RowOk`), and it is where its
run's `pc` says (`RowAt`). The second writer is excluded not by the lock, which
pollers and operators do not see, but by ids: a run writes only to the row it
inserted. Every step that edits a row is brought to one form (`Writes`), from
which `CompleteIsEarned`, `RowsMoveForward` and the refinement of the
leaderboard's writes follow without going through the actions again.

`Pushed` says that every commit a delivery, a task or a poller names is at most
the head of its branch, and that the rows of tasks and pollers were of such. Heads
only grow; what enters is a delivery of GitHub's (a signature that is wrong is
refused, `StraysRefused`), or the head of the branch itself, as a poller looks it
up. Manual runs are left out of it, for they may name a local commit. For what is
built and tested no secret is needed (`TreesCurrent`): the tree is the head of the
branch at the time of the clone, and a commit that was on the branch when its row
was inserted is not ahead of that.

The report. It cannot be compared with the row as it was when it was read, for
that is not in the state. `ReportInv` compares it with the row as it is *now*:
rows move forward, so what the report's status implied is still there for the
SELECTs that follow. For a row of one of the server's tasks more holds: the
server waits while the report is put together, so the report mirrors the row
(`Mirrors`), which is the second half of `ReportIsConsistent`.

The leaderboard. A complete submission never changes, so every entry can be
checked against its row at any time (`Grounded`, `Filled`, `Counted`); writes
keep what replies rest on (`Kept`). For `TeamsNeverLoseGround` the new ranking is
compared with the rows the old reply was read from, which still qualify. The sums
of the score stay closed: no proof needs what they add up to.

The feed's types need one fact that is not about a single variable: no version
has more replies on their way than the page has fetches unanswered
(`OneOfTheFetches`).

### Sums

`SumFunctionOnSet` and `MapThenSumSet` fold a set in the order of a CHOOSE.
`SumProofs` shows that the recursion behind them has a solution, that the order
does not matter, what one element more adds, and what disjoint parts add up to.
The induction is by smallest counterexample: among the subsets of a finite set
that a claim fails for, one has no proper subset that it fails for, for strict
inclusion of finite sets is well-founded. `RemainderOfSum` and `SumWraps` are for
totals that wrap at 2^32.

### Only model-checked

All liveness (`CallReturns`, `LoopTerminates`, `ReplayEnds`,
`EveryHeadSubmitted`, `EveryHeadJudged`, `PageSettles`) and the fairness that
`ImplementsAuction` and `ImplementsEngine` ask for: the prover does not reason
about ENABLED, on which weak fairness rests. Their safety halves are theorems.

## Where the code and its documents disagree

* **`duplicate_rows`.** The poller promises to trigger only for commits "that
  have not yet been processed" (`setup-server.sh:188-189`), but looks for a row
  that the webhook's task inserts only once it holds the lock. A commit gets two
  submissions, and is judged twice, without any failure.
* **`untested_benchmarked`.** `pipeline.py:12-14` says a failure stops the
  pipeline. A test run that times out or prints no result is 0 of 0, passes
  `passed != total`, and goes on to benchmark and `complete`. The ranking query
  asks for `total > 0`, so such a row is not ranked (`OnlyQualifiedRanked`).
* **`silent_stream`.** `_notify_leaderboard_update` runs in a worker thread,
  where `asyncio.get_event_loop()` raises the `RuntimeError` that it passes
  over. Streams send the first leaderboard and then heartbeats only.
  `PageSettles` holds because the page also polls.

Read in the source, without a run:

* **The ranking.** The docstring of `get_leaderboard` (`models.py:218-219`) and
  `README.md:42` rank by weighted p50 latency, ascending; the query ranks by
  weighted throughput, descending (`models.py:271`), and `Rankings` does as the
  query.
* **The scenarios.** `README.md:42` says "across 3 benchmark scenarios". A row with
  fewer is ranked too, on what it has.
* **The cron backup as installed.** The line of cron reads `CHALLENGE_REPO_URL`
  from `/etc/environment` (`setup-server.sh:241`), and nothing in the repository
  writes it there: `user-data.sh.tftpl:22-26` exports it in `/etc/profile.d`, which
  cron does not read. On a server installed by these scripts alone each poll ends
  at `setup-server.sh:199-202`: `"url" \notin Provided`, `StartPoll` is never
  enabled, and a lost or refused hook is not made up for. `EveryHeadSubmitted` and
  `EveryHeadJudged` are about a server where somebody added the line.
  The script's `sqlite3` command is not installed either (`setup-server.sh:25-33`);
  without it each poll submits the head of every branch again.
* **A part that passes.** A verdict is that of the tests only where the output
  allows to tell (see [TestVerdict](#testverdict)).

Seen in the models, without a sentence in the repository that they contradict:
a server that dies in mid-pipeline leaves a row at its last status for good,
and the poller takes such a row for a processed commit (`EveryHeadJudged` makes
its one exception for it, and would not find it); an operator's run of a local
commit before its push leaves a failed row, which hides the commit from the poller
in the same way; the error of a failed clone or benchmark is logged
and returned but is in no table; a reply that overtakes another makes the page
show the older leaderboard until the next poll.

## Not modelled

* Docker and git: external programs. The output of the tests is modelled as far
  as `_docker_test` looks at it; a build or a clone succeeds or fails, a benchmark
  reports any of the scenarios or raises. `_parse_bench_json` searches the output
  for a JSON object by counting braces: which scenarios it finds is the choice of
  `DockerBench`, and an output it cannot read raises (`CommandRaises`). A
  name that is none of the benchmark's is a scenario of weight 0, which
  `WeightAssumption` allows.
* Deletions and rewinds of a branch: the clone would check out an older commit than
  the row names, or none.
* Containers that a timeout leaves running: only the docker client is ended;
  nothing the program keeps depends on them.
* HMAC and JSON: a signature is right or wrong, a body that is no JSON is refused
  like a stray. `VerifySignature` keeps the mode without a secret, which no run
  takes: there anybody may submit.
* `get_last_submission_time`: nothing calls it.
* The web framework's pool of worker threads, which bounds the queued tasks.
* The benchmark's timing and statistics: measurements; the pure parts
  (percentiles, medians) are planned.
* Charts, styles, the reveal page and the activity ticker: rendering.
* Terraform, images, provisioning: no state of the running system.
* The student skeleton: empty bodies. The tests: read as the statement of what
  the engine should do.
* SQLite: each statement is atomic and durable; a failed call raises. `busy`
  timeouts are failed calls.

## Plan

In order of importance; the first block is done.

1. Engine, auction, refinement, loop, queries, stream, pipeline with webhook
   validation and test verdicts, leaderboard and the pipeline's refinement of its
   writes, status reports, feed; their runs; a theorem for every invariant and
   every action property of the passing runs, and for the steps of every
   refinement.
2. Model further: the statistics of `benchmark.cpp` as operators
   against reference definitions; the activity ticker of the page (`handleData`
   compares against the last data, which may be newer); the generator's mix and
   fair-value walk if a property needs it.
3. Prove further: the composition of `PipelineWritesForLeaderboard` with the
   theorems of `Leaderboard`, so that rankings are stated of the pipeline's own
   rows; what `DoubleAuction` and `OrderLife` promise by themselves, as theorems
   of those specifications.
