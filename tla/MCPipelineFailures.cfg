\* A task and a poller on the same commit, every outcome, one crash or failed call.
CONSTANTS
  Teams = {ada}
  Tasks = {w1}
  Pollers = {c1}
  Operators = {}
  Scenarios = {uniform}
  SecretSet = TRUE
  Provided = {"url", "sqlite3"}
  NumTests = 2
  HowRunsEnd = {"finished", "failed", "crashed", "hung"}
  Voices = {"quiet", "noisy", "imitating"}
  Builds = {TRUE, FALSE}
  Raises = {"record"}
  MaxPushes = 1
  MaxFailures = 1
SPECIFICATION Spec
INVARIANTS
  TypeOK
  CompleteIsEarned
  OneWriterPerRow
  VerdictsAreTrue
PROPERTIES
  RowsMoveForward
  ImplementsLeaderboardWrites
  EveryHeadJudged
