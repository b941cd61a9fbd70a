\* One task and one poller, no failure; submissions print nothing.
CONSTANTS
  Teams = {ada}
  Tasks = {w1}
  Pollers = {c1}
  Operators = {}
  Scenarios = {uniform}
  SecretSet = TRUE
  Provided = {"url", "sqlite3"}
  NumTests = 2
  HowRunsEnd = {"finished", "failed", "crashed", "hung"}
  Voices = {"quiet"}
  Builds = {TRUE, FALSE}
  Raises = {"clone", "build", "test", "bench", "record"}
  MaxPushes = 1
  MaxFailures = 0
SPECIFICATION Spec
INVARIANTS
  UntestedIsNotBenchmarked
