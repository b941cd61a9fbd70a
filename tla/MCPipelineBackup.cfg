\* Two tasks and a poller on two pushes, one crash or failed call; pipelines are short.
CONSTANTS
  Teams = {ada}
  Tasks = {w1, w2}
  Pollers = {c1}
  Operators = {}
  Scenarios = {}
  SecretSet = TRUE
  Provided = {"url", "sqlite3"}
  NumTests = 2
  HowRunsEnd = {"finished"}
  Voices = {"quiet"}
  Builds = {FALSE}
  Raises = {}
  MaxPushes = 2
  MaxFailures = 1
SPECIFICATION Spec
INVARIANTS
  TasksTakeTurns
PROPERTIES
  WindowOnlyForRuns
  EveryHeadSubmitted
