\* A task and an operator, no poller: the server may rest.
CONSTANTS
  Teams = {ada}
  Tasks = {w1}
  Pollers = {}
  Operators = {o1}
  Scenarios = {uniform}
  SecretSet = TRUE
  Provided = {}
  NumTests = 2
  HowRunsEnd = {"finished"}
  Voices = {"quiet"}
  Builds = {TRUE}
  Raises = {}
  MaxPushes = 2
  MaxFailures = 0
  MaxSubmissions = 2
SPECIFICATION StatusSpec
CHECK_DEADLOCK FALSE
INVARIANTS
  TestedIsCurrent
  SubmissionsWerePushed
  ReportIsConsistent
PROPERTIES
  StatusNeverGoesBack
